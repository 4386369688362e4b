-------------------------- MODULE MCResellerLedger --------------------------
\* Small instances of ResellerLedger: one or two configs of one reseller, on
\* its own panel and on a panel it is no longer assigned to.
EXTENDS ResellerLedger, TLC

CONSTANTS c1, c2, srvA, srvB, w1, w2, r1, t1, t2, t3, v1

OneHome == c1 :> srvA
TwoHomes == c1 :> srvA @@ c2 :> srvB
ReceiptAmount == r1 :> 2
NoAmount == [k \in {} |-> 0]
Amounts == r1 :> 2 @@ t1 :> 1 @@ t2 :> 1 @@ t3 :> 1
Readers == Permutations({w1, w2})

(***************************************************************************)
(* The regions a run explores, each a connected part of the state space.   *)
(***************************************************************************)
NoCredits == creditKeys = {} /\ \A k \in Receipt : receipt[k] = "none"
NoSessions == (\A x \in Session : copy[x] = NoCopy) /\ lapses = {}
OneConfig == state[c2] = "none" /\ tariff[srvB] = 1
CountersUpTo(n) == \A s \in Service : traffic[s] <= n

\* One config, a reader whose readings may be stale, and a counter reset.
MeterRegion ==
    /\ OneConfig /\ NoCredits /\ NoSessions
    /\ reader[w1] = Resting

\* Two configs on two servers, a receipt and a transfer that is retried.
WalletRegion ==
    /\ NoSessions /\ CountersUpTo(1) /\ resets = 0 /\ state[c2] # "inactive" /\ ownRate # 1
    /\ reader[w2] = Resting /\ creditKeys \subseteq {r1, t1}

\* One config, a transfer and the sessions without the lock, one at a time, up
\* to the second lapse.
SessionRegion ==
    /\ OneConfig /\ CountersUpTo(1) /\ resets = 0
    /\ state[c1] # "inactive" /\ receipt[r1] = "none"
    /\ Cardinality(creditKeys) <= 2 /\ Cardinality(lapses) <= 1
    /\ \A r \in Reader : reader[r] = Resting
    /\ \A x, y \in Session : x = y \/ copy[x] = NoCopy \/ copy[y] = NoCopy

Regions == MeterRegion \/ WalletRegion \/ SessionRegion
=============================================================================

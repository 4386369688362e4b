--------------------------- MODULE ResellerLedger ---------------------------
(***************************************************************************)
(* The Pay-As-You-Go ledger of one configuration reseller: how the traffic *)
(* counters of the panels become recorded usage, and recorded usage        *)
(* becomes debits of the reseller's own wallet                             *)
(* (reseller_accounts.wallet_balance_irt).                                 *)
(*                                                                         *)
(* Most writers load the account row under its lock, so each handler that  *)
(* only touches the database is one action.  Some load it before they lock *)
(* it, or never do: the owner's live view of an account, the transfer in   *)
(* the Mini App and the approval of a join.  Each of those loads in one    *)
(* step a copy of the account, and works with that copy in a later one.    *)
(* Reading a panel happens outside the lock too: a refresh job reads a     *)
(* counter in one step and records it in a later one.  A transaction that  *)
(* fails leaves nothing behind, so a refusal or a crash is no step.  The   *)
(* prepaid GB pool, which also guards the switch to volume, is left out.   *)
(***************************************************************************)
EXTENDS Integers, FiniteSets, Functions

CONSTANTS
    Service, Server, Reader,    \* configs, panels, concurrent refresh jobs
    NoService,
    Home,                       \* [Service -> Server]: svc.server_id
    Assigned,                   \* account.allowed_server_ids
    Guarded,                    \* the readers that recheck the row they read
    Gb,                         \* bytes per billing GB
    Rates,                      \* tariffs the owner may set, Toman per GB
    Receipt, Transfer, Amount,  \* receipts, other wallet operations, Toman
    Unlocked,                   \* the transfers that load the account unlocked
    Joining,                    \* those of them that approve a join
    Viewer,                     \* live views of the account
    Opening, FirstMode,         \* the account at the start
    MaxCounter, MaxResets       \* bounds of the model

Key == Receipt \cup Transfer
Session == Viewer \cup Unlocked
Modes == {"payg", "volume"}

ASSUME LedgerAssumption ==
    /\ NoService \notin Service /\ IsFiniteSet(Service) /\ IsFiniteSet(Key)
    /\ Home \in [Service -> Server] /\ Assigned \subseteq Server
    /\ Guarded \subseteq Reader
    /\ Gb \in Nat \ {0}
    /\ Rates \subseteq Nat \ {0} /\ Rates # {}
    /\ Receipt \cap Transfer = {} /\ Amount \in [Key -> Int]
    /\ Joining \subseteq Unlocked /\ Unlocked \subseteq Transfer
    /\ Viewer \cap Key = {}
    /\ Opening \in Int /\ FirstMode \in Modes
    /\ MaxCounter \in Nat /\ MaxResets \in Nat

VARIABLES
    counter,    \* what the panel shows for a config
    traffic,    \* history: what the config really transferred
    resets,     \* how often a panel counter was reset
    life,       \* client_services.reseller_lifetime_used_bytes
    used,       \* client_services.used_bytes
    state,      \* "none", "active", "inactive" or "deleted"
    reader,     \* what each refresh job has read
    mode,       \* reseller_accounts.billing_mode
    tariff,     \* [Server -> Rates]: reseller_payg_rate_irt
    ownRate,    \* the account's own payg_rate, 0 when it has none
    meter,      \* reseller_usage_meters; rate 0 where there is no row yet
    usageKeys,  \* the usage:{meter}:{bytes} event keys per service
    charged,    \* Toman debited per service
    wallet,     \* reseller_accounts.wallet_balance_irt
    receipt,    \* reseller_wallet_receipts.status
    creditKeys, \* the event keys of the wallet credits
    copy,       \* what each session without the lock has loaded
    lapses,     \* history: the stale or unsettled writes such sessions made
    due         \* history: bytes recorded under PAYG times the rate in force

panelVars == <<counter, traffic, resets>>
usageVars == <<life, used, due>>
billVars == <<usageKeys, charged, wallet>>
creditVars == <<receipt, creditKeys>>
policyVars == <<tariff, ownRate>>
sessionVars == <<copy, lapses>>
vars == <<panelVars, usageVars, state, reader, mode, policyVars, meter,
          billVars, creditVars, sessionVars>>

Resting == [svc |-> NoService, seen |-> 0, mark |-> 0]
NoCopy == [at |-> "nothing", wallet |-> 0, mode |-> "volume",
           listed |-> {}, first |-> NoService, seen |-> 0]
Larger(a, b) == IF a >= b THEN a ELSE b
Smaller(a, b) == IF a <= b THEN a ELSE b
Live(s) == state[s] \in {"active", "inactive"}

\* What a service has used since it exists.
Lifetime(s) == Larger(life[s], used[s])
RateFor(s) == IF ownRate > 0 THEN ownRate ELSE tariff[Home[s]]

(***************************************************************************)
(* Recording a reading: a counter below the last one means it was reset.   *)
(***************************************************************************)
Growth(s, value) == IF value >= used[s] THEN value - used[s] ELSE value

\* reading[s] is what a service of S is now known to have used.
RecordUsage(S, reading) ==
    /\ life' = [s \in Service |-> IF s \in S
                   THEN Lifetime(s) + Growth(s, reading[s]) ELSE life[s]]
    /\ used' = [s \in Service |-> IF s \in S THEN reading[s] ELSE used[s]]
    /\ due' = [s \in Service |-> IF s \in S /\ mode = "payg"
                  THEN due[s] + Growth(s, reading[s]) * RateFor(s) ELSE due[s]]

(***************************************************************************)
(* settle: what service s pays when its usage stands at current.           *)
(***************************************************************************)
BillRate(s) == IF meter[s].rate > 0 THEN meter[s].rate ELSE RateFor(s)
Opened(s) == [meter[s] EXCEPT !.rate = BillRate(s)]
Billable(s, current) ==
    current > meter[s].checkpoint /\ current \notin usageKeys[s]
Bill(s, current) ==
    (current - meter[s].checkpoint) * BillRate(s) + meter[s].remainder

Fee(s, current) == IF Billable(s, current) THEN Bill(s, current) \div Gb ELSE 0

\* Mutant: a settlement of less than a Toman leaves the checkpoint behind.
MeterAfterFree(s, current) ==
    IF Billable(s, current)
    THEN [checkpoint |-> IF Bill(s, current) < Gb THEN meter[s].checkpoint ELSE current,
          remainder |-> Bill(s, current) % Gb, rate |-> RateFor(s)]
    ELSE Opened(s)

\* Mutant: the fraction of a Toman is carried twice.
MeterAfterUncut(s, current) ==
    IF Billable(s, current)
    THEN [checkpoint |-> current, remainder |-> Bill(s, current), rate |-> RateFor(s)]
    ELSE Opened(s)
MeterAfter(s, current) ==
    IF Billable(s, current)
    THEN [checkpoint |-> current, remainder |-> Bill(s, current) % Gb,
          rate |-> RateFor(s)]
    ELSE Opened(s)

\* The services whose rows settle walks; nobody under volume billing.
Settled(S) == IF mode = "payg" THEN {s \in S : state[s] # "none"} ELSE {}

Fees(S, current) == SumFunctionOnSet([s \in Service |-> Fee(s, current[s])], S)

\* What settling S with the usage standing at current[s] charges to the
\* services, and the debit of it from the wallet.
Charge(S, current) ==
    /\ charged' = [s \in Service |-> IF s \in S
                      THEN charged[s] + Fee(s, current[s]) ELSE charged[s]]
    /\ usageKeys' = [s \in Service |-> IF s \in S /\ Billable(s, current[s])
                        THEN usageKeys[s] \cup {current[s]} ELSE usageKeys[s]]
Debit(S, current) ==
    Charge(S, current) /\ wallet' = wallet - Fees(S, current)
Metered(S, current) ==
    [s \in Service |-> IF s \in S THEN MeterAfter(s, current[s]) ELSE meter[s]]

Current == [s \in Service |-> Lifetime(s)]

(***************************************************************************)
(* The panel and the services.                                             *)
(***************************************************************************)
Consume(s) ==
    /\ state[s] = "active" /\ traffic[s] < MaxCounter
    /\ counter' = [counter EXCEPT ![s] = @ + 1]
    /\ traffic' = [traffic EXCEPT ![s] = @ + 1]
    /\ UNCHANGED <<resets, usageVars, state, reader, mode, policyVars, meter,
                   billVars, creditVars, sessionVars>>

ResetCounter(s) ==
    /\ resets < MaxResets /\ counter[s] > 0
    /\ counter' = [counter EXCEPT ![s] = 0]
    /\ resets' = resets + 1
    /\ UNCHANGED <<traffic, usageVars, state, reader, mode, policyVars, meter,
                   billVars, creditVars, sessionVars>>

\* The reseller builds a config, or one is disabled or enabled again.
SetState(s, old, new) ==
    /\ state[s] = old
    /\ state' = [state EXCEPT ![s] = new]
    /\ UNCHANGED <<panelVars, usageVars, reader, mode, policyVars, meter,
                   billVars, creditVars, sessionVars>>
Create(s) == SetState(s, "none", "active")
Disable(s) == SetState(s, "active", "inactive")
Enable(s) == SetState(s, "inactive", "active")

\* Deletion under PAYG settles the account.  The handler loaded the row of s
\* before it took the lock: it may bill s only up to an older reading, and if
\* the account it loaded was still on volume it settles nothing.
Delete(s) ==
    /\ Live(s)
    /\ state' = [state EXCEPT ![s] = "deleted"]
    /\ \E old \in 0 .. Lifetime(s), S \in {Settled(Service), {}} :
           LET current == [Current EXCEPT ![s] = old] IN
           meter' = Metered(S, current) /\ Debit(S, current)
    /\ UNCHANGED <<panelVars, usageVars, reader, mode, policyVars, creditVars,
                   sessionVars>>

\* A refresh job reads the panel, waits for the account lock and records
\* what it has read.
ReadPanel(r, s) ==
    /\ reader[r] = Resting /\ Live(s)
    /\ reader' = [reader EXCEPT ![r] =
           [svc |-> s, seen |-> counter[s], mark |-> used[s]]]
    /\ UNCHANGED <<panelVars, usageVars, state, mode, policyVars, meter,
                   billVars, creditVars, sessionVars>>

\* The Mini App drops a reading whose row another job has changed since.
Record(r) ==
    LET s == reader[r].svc
        stale == r \in Guarded /\ ~(Live(s) /\ used[s] = reader[r].mark)
    IN
    /\ s # NoService
    /\ reader' = [reader EXCEPT ![r] = Resting]
    /\ IF stale THEN UNCHANGED usageVars
       ELSE RecordUsage({s}, [x \in Service |-> reader[r].seen])
    /\ UNCHANGED <<panelVars, state, mode, policyVars, meter, billVars, creditVars,
                   sessionVars>>

(***************************************************************************)
(* Billing.                                                                *)
(***************************************************************************)
\* billing_cycle settles what is recorded, on the servers that are up.
Cycle(Up) ==
    LET S == Settled({s \in Service : Home[s] \in Up}) IN
    /\ mode = "payg"
    /\ meter' = Metered(S, Current) /\ Debit(S, Current)
    /\ UNCHANGED <<panelVars, usageVars, state, reader, mode, policyVars, creditVars,
                   sessionVars>>

SwitchToVolume ==
    /\ mode = "payg"
    /\ meter' = Metered(Settled(Service), Current)
    /\ Debit(Settled(Service), Current)
    /\ wallet' >= 0
    /\ mode' = "volume"
    /\ UNCHANGED <<panelVars, usageVars, state, reader, policyVars, creditVars,
                   sessionVars>>

\* Traffic recorded under volume billing is never charged.
SwitchToPayg ==
    /\ mode = "volume"
    /\ meter' = [s \in Service |-> IF state[s] = "none" THEN meter[s]
                    ELSE [Opened(s) EXCEPT !.checkpoint = Lifetime(s)]]
    /\ mode' = "payg"
    /\ UNCHANGED <<panelVars, usageVars, state, reader, policyVars, billVars,
                   creditVars, sessionVars>>

\* The meter with a new rate, where there is a row.
Repriced(m, rate) == IF m.rate > 0 THEN [m EXCEPT !.rate = rate] ELSE m

\* Mutant: a tariff edit that does not settle first.
UpdatePolicyAtOnce(sv, rate) ==
    /\ tariff' = [tariff EXCEPT ![sv] = rate]
    /\ meter' = [s \in Service |-> IF Home[s] = sv
                    THEN Repriced(meter[s], IF ownRate > 0 THEN ownRate ELSE rate)
                    ELSE meter[s]]
    /\ UNCHANGED <<panelVars, usageVars, state, reader, mode, ownRate, billVars,
                   creditVars, sessionVars>>

\* update_server_policy settles the accounts that are assigned to the server
\* or have an active config on it, then reprices every meter of the server.
Concerned(sv) ==
    sv \in Assigned \/ \E s \in Service : Home[s] = sv /\ state[s] = "active"
UpdatePolicy(sv, rate) ==
    LET S == IF Concerned(sv) THEN Settled(Service) ELSE {}
        settled == Metered(S, Current)
    IN
    /\ Debit(S, Current)
    /\ tariff' = [tariff EXCEPT ![sv] = rate]
    /\ meter' = [s \in Service |-> IF Home[s] = sv
                    THEN Repriced(settled[s], IF ownRate > 0 THEN ownRate ELSE rate)
                    ELSE settled[s]]
    /\ UNCHANGED <<panelVars, usageVars, state, reader, mode, ownRate, creditVars,
                   sessionVars>>

\* The usage once the readings of the services in S are recorded.
Reached(S, reading) ==
    [s \in Service |-> IF s \in S THEN Lifetime(s) + Growth(s, reading[s])
                                 ELSE Lifetime(s)]

\* save_rates reads the panels under the lock, settles, and gives the account
\* its own rate.
SaveRates(rate) ==
    LET live == {s \in Service : Live(s)}
        current == Reached(live, counter)
        settled == Metered(Settled(Service), current)
    IN
    /\ RecordUsage(live, counter)
    /\ Debit(Settled(Service), current)
    /\ meter' = [s \in Service |-> Repriced(settled[s], rate)]
    /\ ownRate' = rate
    /\ UNCHANGED <<panelVars, state, reader, mode, tariff, creditVars, sessionVars>>

(***************************************************************************)
(* Wallet credits.                                                         *)
(***************************************************************************)
\* Mutant: a credit that does not look for its event key.
CreditAgain(k) ==
    creditKeys' = creditKeys \cup {k} /\ wallet' = wallet + Amount[k]

\* credit: an event key is honoured once.
Credit(k) ==
    IF k \in creditKeys THEN UNCHANGED <<creditKeys, wallet>>
    ELSE creditKeys' = creditKeys \cup {k} /\ wallet' = wallet + Amount[k]

\* A transfer in the bot or an adjustment by the owner; may be retried.
CreditTransfer(k) ==
    /\ k \notin Unlocked
    /\ Credit(k)
    /\ UNCHANGED <<panelVars, usageVars, state, reader, mode, policyVars, meter,
                   usageKeys, charged, receipt, sessionVars>>

SubmitReceipt(k) ==
    /\ receipt[k] = "none"
    /\ receipt' = [receipt EXCEPT ![k] = "pending"]
    /\ UNCHANGED <<panelVars, usageVars, state, reader, mode, policyVars, meter,
                   billVars, creditKeys, sessionVars>>

ReviewReceipt(k, approve) ==
    /\ receipt[k] = "pending"
    /\ IF approve THEN Credit(k) ELSE UNCHANGED <<creditKeys, wallet>>
    /\ receipt' = [receipt EXCEPT ![k] = IF approve THEN "approved" ELSE "rejected"]
    /\ UNCHANGED <<panelVars, usageVars, state, reader, mode, policyVars, meter,
                   usageKeys, charged, sessionVars>>

(***************************************************************************)
(* Sessions that load the account before they lock it.  The SELECT FOR     *)
(* UPDATE they make later waits for the lock and does not refresh the row  *)
(* that is loaded, so what they write rests on what they loaded.  A column *)
(* that ends up with its loaded value is not written.                      *)
(***************************************************************************)
\* A live view, or a transfer not yet booked, loads the account; one that was
\* given up may start again.
Load(x) ==
    /\ x \notin creditKeys
    /\ copy' = [copy EXCEPT ![x] =
           [NoCopy EXCEPT !.at = "account", !.wallet = wallet, !.mode = mode]]
    /\ UNCHANGED <<panelVars, usageVars, state, reader, mode, policyVars, meter,
                   billVars, creditVars, lapses>>

\* own_rows lists the configs and asks the panel for one of them; only then,
\* to record the reading, it takes the account lock.
ViewPanel(v) ==
    LET live == {s \in Service : Live(s)} IN
    /\ copy[v].at = "account"
    /\ \E s \in IF live = {} THEN {NoService} ELSE live :
           copy' = [copy EXCEPT ![v] = [@ EXCEPT !.at = "panel",
                       !.listed = live, !.first = s,
                       !.seen = IF s = NoService THEN 0 ELSE counter[s]]]
    /\ UNCHANGED <<panelVars, usageVars, state, reader, mode, policyVars, meter,
                   billVars, creditVars, lapses>>

\* Under the lock the view reads the other panels, records what it has read
\* and settles if the account it loaded was under PAYG.  The rows of configs
\* deleted before the listing are as old as the listing.
LiveSettle(v) ==
    LET c == copy[v]
        reading == [s \in Service |-> IF s = c.first THEN c.seen ELSE counter[s]]
        S == IF c.mode = "payg" THEN {s \in Service : state[s] # "none"} ELSE {}
        gone == {s \in Service : state[s] = "deleted"} \ c.listed
    IN
    /\ c.at = "panel"
    /\ RecordUsage(c.listed, reading)
    /\ \E old \in [gone -> UNION {0 .. Lifetime(s) : s \in gone}] :
           LET current == [s \in Service |-> IF s \in gone
                   THEN Smaller(old[s], Lifetime(s)) ELSE Reached(c.listed, reading)[s]]
               writes == Fees(S, current) # 0
           IN
           /\ meter' = Metered(S, current)
           /\ Charge(S, current)
           /\ wallet' = (IF writes THEN c.wallet ELSE wallet) - Fees(S, current)
           /\ lapses' = lapses
                  \cup {l \in {"wallet"} : writes /\ c.wallet # wallet}
                  \cup {l \in {"mode"} : S # {} /\ mode # "payg"}
    /\ copy' = [copy EXCEPT ![v] = NoCopy]
    /\ UNCHANGED <<panelVars, state, reader, mode, policyVars, creditVars>>

\* The Mini App books a transfer, or the owner approves a join, for an account
\* that was under PAYG when it was loaded.  A join also gives the account its
\* own rate, and neither settles nor reprices the meters.
CreditUnlocked(k) ==
    LET c == copy[k]
        writes == Amount[k] # 0
    IN
    /\ c.at = "account" /\ c.mode = "payg" /\ k \notin creditKeys
    /\ creditKeys' = creditKeys \cup {k}
    /\ wallet' = (IF writes THEN c.wallet ELSE wallet) + Amount[k]
    /\ \E rate \in IF k \in Joining THEN Rates ELSE {ownRate} :
           /\ ownRate' = rate
           /\ lapses' = lapses
                  \cup {l \in {"wallet"} : writes /\ c.wallet # wallet}
                  \cup {l \in {"rate"} : rate # ownRate}
    /\ copy' = [copy EXCEPT ![k] = NoCopy]
    /\ UNCHANGED <<panelVars, usageVars, state, reader, mode, tariff, meter,
                   usageKeys, charged, receipt>>

(***************************************************************************)
(* Specification.                                                          *)
(***************************************************************************)
Init ==
    /\ counter = [s \in Service |-> 0] /\ traffic = counter /\ resets = 0
    /\ life = counter /\ used = counter /\ due = counter
    /\ state = [s \in Service |-> "none"]
    /\ reader = [r \in Reader |-> Resting]
    /\ mode = FirstMode /\ tariff \in [Server -> Rates] /\ ownRate = 0
    /\ meter = [s \in Service |-> [checkpoint |-> 0, remainder |-> 0, rate |-> 0]]
    /\ usageKeys = [s \in Service |-> {}] /\ charged = counter
    /\ wallet = Opening
    /\ receipt = [k \in Receipt |-> "none"] /\ creditKeys = {}
    /\ copy = [x \in Session |-> NoCopy] /\ lapses = {}

ServiceStep(s) ==
    \/ Consume(s) \/ ResetCounter(s)
    \/ Create(s) \/ Disable(s) \/ Enable(s) \/ Delete(s)

Next ==
    \/ \E s \in Service : ServiceStep(s)
    \/ \E r \in Reader : Record(r) \/ \E s \in Service : ReadPanel(r, s)
    \/ \E Up \in SUBSET Server : Cycle(Up)
    \/ SwitchToVolume
    \/ SwitchToPayg
    \/ \E rate \in Rates : SaveRates(rate) \/ \E sv \in Server : UpdatePolicy(sv, rate)
    \/ \E k \in Transfer : CreditTransfer(k)
    \/ \E k \in Receipt : SubmitReceipt(k) \/ \E b \in BOOLEAN : ReviewReceipt(k, b)
    \/ \E x \in Session : Load(x)
    \/ \E v \in Viewer : ViewPanel(v) \/ LiveSettle(v)
    \/ \E k \in Unlocked : CreditUnlocked(k)

Spec == Init /\ [][Next]_vars

(***************************************************************************)
(* Properties.                                                             *)
(***************************************************************************)
\* Every variable has its type; less than one Toman is ever carried over.
TypeOK ==
    /\ counter \in [Service -> Nat] /\ traffic \in [Service -> Nat]
    /\ resets \in Nat
    /\ life \in [Service -> Nat] /\ used \in [Service -> Nat]
    /\ due \in [Service -> Nat]
    /\ state \in [Service -> {"none", "active", "inactive", "deleted"}]
    /\ reader \in [Reader -> [svc : Service \cup {NoService}, seen : Nat, mark : Nat]]
    /\ mode \in Modes
    /\ tariff \in [Server -> Rates] /\ ownRate \in Rates \cup {0}
    /\ meter \in [Service -> [checkpoint : Nat, remainder : 0 .. Gb - 1,
                              rate : Rates \cup {0}]]
    /\ usageKeys \in [Service -> SUBSET Nat] /\ charged \in [Service -> Nat]
    /\ wallet \in Int
    /\ receipt \in [Receipt -> {"none", "pending", "approved", "rejected"}]
    /\ creditKeys \subseteq Key
    /\ copy \in [Session -> [at : {"nothing", "account", "panel"}, wallet : Int,
                             mode : Modes, listed : SUBSET Service,
                             first : Service \cup {NoService}, seen : Nat]]
    /\ lapses \subseteq {"wallet", "mode", "rate"}

\* Traffic recorded under PAYG costs the tariff in force when it was recorded,
\* to the byte: what a service has been charged, what its meter carries over
\* and what is still unbilled at the meter's rate are together what is due,
\* through tariff edits, mode switches, retries, deletions and live views; up
\* to a live view that settles under a mode the account has left, or a join
\* that changes the rate without settling.
Unbilled(s) ==
    IF mode = "payg" THEN (Lifetime(s) - meter[s].checkpoint) * BillRate(s) ELSE 0
InBalance ==
    \A s \in Service : Gb * charged[s] + meter[s].remainder + Unbilled(s) = due[s]
BilledAtItsRate == lapses \cap {"mode", "rate"} = {} => InBalance

\* The wallet is the opening balance plus every credit once, less the debits,
\* however often a transfer is retried or a receipt is reviewed; up to the
\* first session that writes a balance it loaded before another one changed it.
Credited == {k \in Receipt : receipt[k] = "approved"} \cup (creditKeys \ Receipt)
BooksBalance ==
    wallet = Opening + SumFunctionOnSet(Amount, Credited) - SumFunction(charged)
WalletBalances == "wallet" \notin lapses => BooksBalance

\* "Every debit, usage checkpoint and fractional carry commit together under
\* the account lock" (reseller_billing.py): no credit or debit is ever lost.
LedgerBalances == BooksBalance

\* The event key of a settlement, which names the usage it reached, never
\* makes settle pass over traffic that has not been paid for.
UsageStaysBillable ==
    \A s \in Service :
        Lifetime(s) > meter[s].checkpoint => Billable(s, Lifetime(s))

\* A service is never taken to have used more than it transferred.
NeverInflated == \A s \in Service : Lifetime(s) <= traffic[s]
=============================================================================

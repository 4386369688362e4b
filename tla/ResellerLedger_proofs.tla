------------------------ MODULE ResellerLedger_proofs ------------------------
(***************************************************************************)
(* Proofs about ResellerLedger: its types, that event keys never hide      *)
(* unpaid traffic, that traffic costs the tariff in force when it was      *)
(* recorded, and that the wallet balances, for any number of services,     *)
(* readers, tariffs and credits.                                           *)
(***************************************************************************)
EXTENDS ResellerLedger, SumLemmas, TLAPS

(***************************************************************************)
(* The inductive invariant.                                                *)
(***************************************************************************)
\* A meter lags behind the usage, its keys lag behind its checkpoint, and what
\* does not exist has used nothing.
Metering ==
    \A s \in Service :
        /\ meter[s].checkpoint <= Lifetime(s)
        /\ \A k \in usageKeys[s] : k <= meter[s].checkpoint
        /\ state[s] = "none" => Lifetime(s) = 0

ReadersKnow ==
    \A r \in Reader : reader[r].svc # NoService => state[reader[r].svc] # "none"

\* What a live view has listed exists.
SessionsKnow == \A x \in Session : \A s \in copy[x].listed : state[s] # "none"

Safe == TypeOK /\ Metering /\ ReadersKnow /\ SessionsKnow

\* The meters have the rate in force, which a join breaks.
Agreed == \A s \in Service : meter[s].rate \in {0, RateFor(s)}

BilledInv == Safe /\ Agreed /\ InBalance
NoLapse == lapses \cap {"mode", "rate"} = {}
IInv == Safe /\ (NoLapse => Agreed /\ InBalance)

MeterType == [checkpoint : Nat, remainder : 0 .. Gb - 1, rate : Rates \cup {0}]
CopyType == [at : {"nothing", "account", "panel"}, wallet : Int, mode : Modes,
             listed : SUBSET Service, first : Service \cup {NoService}, seen : Nat]
StateType == {"none", "active", "inactive", "deleted"}

(***************************************************************************)
(* Arithmetic.                                                             *)
(***************************************************************************)
\* Integer division leaves a remainder below the divisor and loses nothing.
LEMMA DivMod ==
  ASSUME NEW n \in Nat, NEW g \in Nat \ {0}
  PROVE  n \div g \in Nat /\ n % g \in 0 .. g - 1 /\ g * (n \div g) + (n % g) = n
  BY SMT

\* Products distribute over a difference split in two.
LEMMA Split ==
  ASSUME NEW a \in Int, NEW b \in Int, NEW c \in Int, NEW r \in Int
  PROVE  (b - a) * r + (c - b) * r = (c - a) * r
  BY SMT

\* The product of two naturals is a natural.
LEMMA Product == ASSUME NEW a \in Nat, NEW b \in Nat PROVE a * b \in Nat
  BY SMT

(***************************************************************************)
(* The operators of the model.                                             *)
(***************************************************************************)
\* Rates and lifetimes are naturals, and rates are positive.
LEMMA Values ==
  ASSUME TypeOK, NEW s \in Service
  PROVE  RateFor(s) \in Rates /\ RateFor(s) \in Nat /\ RateFor(s) > 0 /\ Lifetime(s) \in Nat
<1>1. /\ Rates \subseteq Nat \ {0} /\ Home[s] \in Server
      /\ tariff \in [Server -> Rates] /\ ownRate \in Rates \cup {0}
      /\ life[s] \in Nat /\ used[s] \in Nat
  BY LedgerAssumption DEF TypeOK
<1>2. ownRate > 0 => ownRate \in Rates
  BY <1>1
<1>3. RateFor(s) \in Rates
  BY <1>1, <1>2 DEF RateFor
<1>4. Lifetime(s) \in Nat
  BY <1>1 DEF Lifetime, Larger
<1>5. \A rate \in Rates : rate \in Nat /\ rate > 0
  BY <1>1
<1> QED BY <1>3, <1>4, <1>5

\* A meter bills at some rate the owner has set.
LEMMA BillRateType ==
  ASSUME TypeOK, NEW s \in Service
  PROVE  BillRate(s) \in Rates /\ BillRate(s) \in Nat /\ BillRate(s) > 0
<1>1. meter[s].rate \in Rates \cup {0} /\ RateFor(s) \in Rates
  BY Values DEF TypeOK
<1>2. \A rate \in Rates : rate \in Nat /\ rate > 0
  BY LedgerAssumption
<1>3. BillRate(s) \in Rates
  BY <1>1, <1>2 DEF BillRate
<1> QED BY <1>2, <1>3

\* With its rate in agreement a meter bills at the rate in force.
LEMMA RateAgrees ==
  ASSUME TypeOK, Agreed, NEW s \in Service
  PROVE  BillRate(s) = RateFor(s)
  BY Values DEF Agreed, BillRate

\* Recording a reading adds its growth to the lifetime and its price to what
\* is due.
LEMMA Recorded ==
  ASSUME TypeOK, NEW S \in SUBSET Service, NEW reading \in [Service -> Nat],
         RecordUsage(S, reading), NEW s \in Service
  PROVE  /\ Growth(s, reading[s]) \in Nat
         /\ Lifetime(s)' = IF s \in S THEN Lifetime(s) + Growth(s, reading[s])
                           ELSE Lifetime(s)
         /\ due'[s] = IF s \in S /\ mode = "payg"
                      THEN due[s] + Growth(s, reading[s]) * RateFor(s) ELSE due[s]
<1>1. used[s] \in Nat /\ life[s] \in Nat /\ reading[s] \in Nat
  BY DEF TypeOK
<1>2. Growth(s, reading[s]) \in Nat
  BY <1>1 DEF Growth
<1>3. /\ life'[s] = IF s \in S THEN Lifetime(s) + Growth(s, reading[s]) ELSE life[s]
      /\ used'[s] = IF s \in S THEN reading[s] ELSE used[s]
  BY DEF RecordUsage
<1>4. Lifetime(s)' = Larger(life'[s], used'[s])
  BY DEF Lifetime
<1>5. Lifetime(s) \in Nat /\ Lifetime(s) >= used[s] /\ Lifetime(s) = Larger(life[s], used[s])
  BY <1>1 DEF Lifetime, Larger
<1>6. CASE s \in S
  <2>1. Lifetime(s) + Growth(s, reading[s]) >= reading[s]
    BY <1>1, <1>5 DEF Growth
  <2> QED BY <1>1, <1>2, <1>3, <1>4, <1>5, <1>6, <2>1 DEF RecordUsage, Larger
<1>7. CASE s \notin S
  BY <1>2, <1>3, <1>4, <1>5, <1>7 DEF RecordUsage
<1> QED BY <1>6, <1>7

\* The types of what a recording writes.
LEMMA RecordedTypes ==
  ASSUME TypeOK, NEW S \in SUBSET Service, NEW reading \in [Service -> Nat],
         RecordUsage(S, reading)
  PROVE  life' \in [Service -> Nat] /\ used' \in [Service -> Nat] /\ due' \in [Service -> Nat]
<1>1. \A s \in Service : /\ Growth(s, reading[s]) \in Nat /\ Lifetime(s) \in Nat
                         /\ RateFor(s) \in Nat
  BY Recorded, Values
<1>2. \A s \in Service : Growth(s, reading[s]) * RateFor(s) \in Nat
  BY <1>1, Product
<1> QED BY <1>1, <1>2 DEF RecordUsage, TypeOK

\* One service settled: the fee and the new carry are exactly the price of
\* the traffic the meter moves over.
LEMMA FeeExact ==
  ASSUME Safe, NEW s \in Service, NEW c \in Nat
  PROVE  /\ Fee(s, c) \in Nat
         /\ MeterAfter(s, c) \in MeterType
         /\ MeterAfter(s, c).checkpoint =
                IF Billable(s, c) THEN c ELSE meter[s].checkpoint
         /\ Gb * Fee(s, c) + MeterAfter(s, c).remainder = meter[s].remainder
              + (MeterAfter(s, c).checkpoint - meter[s].checkpoint) * BillRate(s)
<1> DEFINE R == BillRate(s)
           m == meter[s]
<1>1. /\ R \in Rates /\ R \in Nat /\ R > 0 /\ m \in MeterType
      /\ RateFor(s) \in Rates /\ Gb \in Nat \ {0}
  BY Values, BillRateType, LedgerAssumption DEF Safe, TypeOK, MeterType
<1>2. m.checkpoint \in Nat /\ m.remainder \in Nat /\ m.remainder \in 0 .. Gb - 1
  BY <1>1 DEF MeterType
<1>3. CASE Billable(s, c)
  <2> DEFINE B == (c - m.checkpoint) * R + m.remainder
  <2>1. c - m.checkpoint \in Nat
    BY <1>2, <1>3 DEF Billable
  <2>2. B \in Nat /\ Bill(s, c) = B
    BY <2>1, <1>1, <1>2, Product DEF Bill
  <2>3. B \div Gb \in Nat /\ B % Gb \in 0 .. Gb - 1 /\ Gb * (B \div Gb) + (B % Gb) = B
    BY <2>2, <1>1, DivMod
  <2>4. Fee(s, c) = B \div Gb
        /\ MeterAfter(s, c) = [checkpoint |-> c, remainder |-> B % Gb, rate |-> RateFor(s)]
    BY <2>2, <1>3 DEF Fee, MeterAfter
  <2> HIDE DEF B, R, m
  <2> QED BY <2>3, <2>4, <1>1, <1>3 DEF MeterType, B, m, R
<1>4. CASE ~Billable(s, c)
  <2>1. Fee(s, c) = 0 /\ MeterAfter(s, c) = [m EXCEPT !.rate = R]
    BY <1>4, <1>1 DEF Fee, MeterAfter, Opened
  <2>2. (m.checkpoint - m.checkpoint) * R = 0 /\ Gb * 0 = 0
    BY <1>1, <1>2
  <2> QED BY <2>1, <2>2, <1>1, <1>2, <1>4 DEF MeterType
<1> QED BY <1>3, <1>4

\* A transaction that settles S: the meters move forward to the usage they
\* were given, every key stays behind its checkpoint, and what a service pays
\* is the price of what its meter moved over.
LEMMA SettledExact ==
  ASSUME Safe, NEW S \in SUBSET Service, NEW current \in [Service -> Nat],
         Charge(S, current), NEW s \in Service
  PROVE  LET m == meter[s]
             M == Metered(S, current)[s]
         IN  /\ M \in MeterType
             /\ M.checkpoint = IF s \in S /\ current[s] > m.checkpoint
                               THEN current[s] ELSE m.checkpoint
             /\ usageKeys'[s] \in SUBSET Nat
             /\ \A k \in usageKeys'[s] : k <= M.checkpoint
             /\ charged'[s] \in Nat
             /\ Gb * charged'[s] + M.remainder = Gb * charged[s] + m.remainder
                  + (M.checkpoint - m.checkpoint) * BillRate(s)
<1> DEFINE m == meter[s]
           M == Metered(S, current)[s]
           R == BillRate(s)
<1>1. /\ m \in MeterType /\ usageKeys[s] \in SUBSET Nat
      /\ charged[s] \in Nat /\ \A k \in usageKeys[s] : k <= m.checkpoint
      /\ R \in Nat /\ Gb \in Nat /\ current[s] \in Nat
  BY BillRateType, LedgerAssumption DEF Safe, TypeOK, Metering, MeterType
<1>2. m.checkpoint \in Nat /\ m.remainder \in Nat
  BY <1>1 DEF MeterType
<1>3. CASE s \in S
  <2> DEFINE N == MeterAfter(s, current[s])
             F == Fee(s, current[s])
  <2>1. M = N /\ charged'[s] = charged[s] + F
        /\ usageKeys'[s] = IF Billable(s, current[s])
                           THEN usageKeys[s] \cup {current[s]} ELSE usageKeys[s]
    BY <1>3 DEF Metered, Charge
  <2>2. /\ F \in Nat /\ N \in MeterType
        /\ N.checkpoint = IF Billable(s, current[s]) THEN current[s] ELSE m.checkpoint
        /\ Gb * F + N.remainder = m.remainder + (N.checkpoint - m.checkpoint) * R
    BY <1>1, FeeExact
  <2>3. Billable(s, current[s]) <=> current[s] > m.checkpoint
    BY <1>1, <1>2 DEF Billable
  <2>4. N.checkpoint \in Nat /\ N.remainder \in Nat
    BY <2>2, <1>1, <1>2
       DEF MeterType
  <2>5. (N.checkpoint - m.checkpoint) * R \in Int
    BY <2>4, <1>1, <1>2
  <2>6. Gb * (charged[s] + F) = Gb * charged[s] + Gb * F
        /\ Gb * charged[s] \in Nat /\ Gb * F \in Nat
    BY <1>1, <2>2, Product
  <2> HIDE DEF M, N, F, R, m
  <2>7. Gb * charged'[s] + N.remainder
           = Gb * charged[s] + m.remainder + (N.checkpoint - m.checkpoint) * R
    BY <2>1, <2>2, <2>4, <2>5, <2>6, <1>2
  <2>8. \A k \in usageKeys'[s] : k <= N.checkpoint
    BY <2>1, <2>2, <2>3, <1>1, <1>2
  <2>9. charged'[s] \in Nat /\ usageKeys'[s] \in SUBSET Nat
    BY <2>1, <2>2, <1>1
  <2> QED BY <2>1, <2>2, <2>3, <2>7, <2>8, <2>9, <1>3 DEF M, N, R, m
<1>4. CASE s \notin S
  <2>1. M = m /\ charged'[s] = charged[s] /\ usageKeys'[s] = usageKeys[s]
    BY <1>4 DEF Metered, Charge
  <2>2. (m.checkpoint - m.checkpoint) * R = 0
    BY <1>1, <1>2
  <2>3. Gb * charged[s] \in Nat
    BY <1>1, Product
  <2> HIDE DEF M, R, m
  <2>4. Gb * charged'[s] + M.remainder
           = Gb * charged[s] + m.remainder + (M.checkpoint - m.checkpoint) * R
    BY <2>1, <2>2, <2>3, <1>2
  <2> QED BY <2>1, <2>4, <1>1, <1>4 DEF M, R, m
<1> QED BY <1>3, <1>4

\* The types of what a settlement writes.
LEMMA SettledTypes ==
  ASSUME Safe, NEW S \in SUBSET Service, NEW current \in [Service -> Nat],
         Charge(S, current)
  PROVE  /\ charged' \in [Service -> Nat] /\ usageKeys' \in [Service -> SUBSET Nat]
         /\ Metered(S, current) \in [Service -> MeterType]
<1>1. \A s \in Service : /\ Metered(S, current)[s] \in MeterType
                         /\ charged'[s] \in Nat /\ usageKeys'[s] \in SUBSET Nat
  BY SettledExact
<1>2. /\ charged' = [s \in Service |-> charged'[s]]
      /\ usageKeys' = [s \in Service |-> usageKeys'[s]]
      /\ Metered(S, current) = [s \in Service |-> Metered(S, current)[s]]
  BY DEF Charge, Metered
<1> QED BY <1>1, <1>2

\* The fees of a settlement are a whole number of Toman.
LEMMA FeesType ==
  ASSUME Safe, NEW S \in SUBSET Service, NEW current \in [Service -> Nat]
  PROVE  Fees(S, current) \in Int
<1> DEFINE fee == [s \in Service |-> Fee(s, current[s])]
<1>1. \A s \in Service : fee[s] \in Int
  BY FeeExact
<1>2. IsFiniteSet(S)
  BY LedgerAssumption, FS_Subset
<1> HIDE DEF fee
<1>3. SumFunctionOnSet(fee, S) \in Int
  BY <1>1, <1>2, SumType
<1> QED BY <1>3 DEF Fees, fee

\* Usage recorded now and settled later can be billed now.
LEMMA CurrentType == TypeOK => Current \in [Service -> Nat]
  BY Values DEF Current

\* Only services are settled.
LEMMA SettledSubset == \A S \in SUBSET Service : Settled(S) \in SUBSET Service
  BY DEF Settled

(***************************************************************************)
(* Every step keeps Safe.                                                  *)
(***************************************************************************)
LEMMA SafeInit == Init => Safe
<1> SUFFICES ASSUME Init PROVE Safe
  OBVIOUS
<1>1. 0 \in Nat /\ 0 \in 0 .. Gb - 1 /\ 0 \in Rates \cup {0}
  BY LedgerAssumption
<1>2. [checkpoint |-> 0, remainder |-> 0, rate |-> 0] \in MeterType
  BY <1>1 DEF MeterType
<1>3. TypeOK
  <2>1. NoCopy \in CopyType
    BY DEF NoCopy, CopyType, Modes
  <2> QED BY <1>1, <1>2, <2>1, LedgerAssumption
          DEF Init, TypeOK, MeterType, CopyType, Resting, Modes
<1>4. Metering
  BY DEF Init, Metering, Lifetime, Larger
<1>5. ReadersKnow
  BY DEF Init, ReadersKnow, Resting
<1>6. SessionsKnow
  BY DEF Init, SessionsKnow, NoCopy
<1> QED BY <1>3, <1>4, <1>5, <1>6 DEF Safe

\* Steps that leave the billing alone.
LEMMA SafeFrame ==
  ASSUME Safe, TypeOK', UNCHANGED <<life, used, meter, usageKeys>>,
         \A s \in Service : state'[s] = "none" => state[s] = "none",
         \A r \in Reader : \/ reader'[r].svc = reader[r].svc
                           \/ reader'[r].svc = NoService
                           \/ state[reader'[r].svc] # "none",
         \A x \in Session : \/ copy'[x].listed = copy[x].listed
                            \/ \A s \in copy'[x].listed : state[s] # "none"
  PROVE  Safe'
<1>1. \A s \in Service : Lifetime(s)' = Lifetime(s)
  BY DEF Lifetime
<1>2. Metering'
  BY <1>1 DEF Safe, Metering
<1>3. \A r \in Reader : reader'[r].svc \in Service \cup {NoService}
  BY DEF TypeOK
<1>4. ReadersKnow'
  BY <1>3 DEF Safe, ReadersKnow
<1>5. \A x \in Session : copy'[x].listed \in SUBSET Service
  BY DEF TypeOK
<1>6. SessionsKnow'
  BY <1>5 DEF Safe, SessionsKnow
<1> QED BY <1>2, <1>4, <1>6 DEF Safe

\* A new rate leaves the rest of a meter alone, and never opens one.
LEMMA RepricedIs ==
  ASSUME NEW m \in MeterType, NEW rate \in Rates
  PROVE  /\ Repriced(m, rate) \in MeterType
         /\ Repriced(m, rate).checkpoint = m.checkpoint
         /\ Repriced(m, rate).remainder = m.remainder
         /\ Repriced(m, rate).rate \in {0, rate}
<1>1. \A x \in Rates \cup {0} : x \in Nat
  BY LedgerAssumption
<1>2. m.rate \in Rates \cup {0}
  BY DEF MeterType
<1>3. CASE m.rate > 0
  BY <1>3 DEF Repriced, MeterType
<1>4. CASE ~(m.rate > 0)
  BY <1>1, <1>2, <1>4 DEF Repriced
<1> QED BY <1>3, <1>4

\* A transaction that records usage, settles some services at the usage they
\* reached (or an older one) and perhaps reprices meters keeps them in order.
LEMMA SafeBill ==
  ASSUME Safe, NEW S \in SUBSET Service, NEW current \in [Service -> Nat],
         Charge(S, current), UNCHANGED <<panelVars, reader, creditVars>>,
         life' \in [Service -> Nat], used' \in [Service -> Nat], due' \in [Service -> Nat],
         mode' \in Modes, state' \in [Service -> StateType], wallet' \in Int,
         tariff' \in [Server -> Rates], ownRate' \in Rates \cup {0},
         copy' \in [Session -> CopyType], lapses' \subseteq {"wallet", "mode", "rate"},
         \A x \in Session : copy'[x].listed \subseteq copy[x].listed,
         meter' = [s \in Service |-> meter'[s]],
         \A s \in Service :
             /\ current[s] <= Lifetime(s)' /\ Lifetime(s)' >= Lifetime(s)
             /\ state[s] = "none" => Lifetime(s)' = 0
             /\ state'[s] = "none" => state[s] = "none"
             /\ \/ meter'[s] = Metered(S, current)[s]
                \/ \E rate \in Rates : meter'[s] = Repriced(Metered(S, current)[s], rate)
  PROVE  Safe'
<1>1. ASSUME NEW s \in Service
      PROVE  /\ meter'[s] \in MeterType
             /\ meter'[s].checkpoint <= Lifetime(s)'
             /\ \A k \in usageKeys'[s] : k <= meter'[s].checkpoint
  <2> DEFINE M == Metered(S, current)[s]
             m == meter[s]
             L == Lifetime(s)
             LL == Lifetime(s)'
  <2>1. /\ M \in MeterType
        /\ M.checkpoint = IF s \in S /\ current[s] > m.checkpoint
                          THEN current[s] ELSE m.checkpoint
        /\ \A k \in usageKeys'[s] : k <= M.checkpoint
    BY SettledExact
  <2>2. m.checkpoint \in Nat /\ m.checkpoint <= L /\ L \in Nat /\ current[s] \in Nat
    BY Values DEF Safe, TypeOK, Metering
  <2>3. LL \in Nat
    BY DEF Lifetime, Larger
  <2>4. current[s] <= LL /\ LL >= L
    OBVIOUS
  <2>5. meter'[s] \in MeterType /\ meter'[s].checkpoint = M.checkpoint
    BY <2>1, RepricedIs
  <2> HIDE DEF M, m, L, LL
  <2>6. M.checkpoint <= LL
    BY <2>1, <2>2, <2>3, <2>4
  <2> QED BY <2>1, <2>5, <2>6 DEF LL
<1>2. meter' \in [Service -> MeterType]
  BY <1>1
<1>3. TypeOK'
  BY <1>2, SettledTypes
     DEF Safe, TypeOK, MeterType, CopyType, StateType, panelVars, creditVars
<1>4. Metering'
  BY <1>1 DEF Metering
<1>5. ReadersKnow'
  <2>1. \A r \in Reader : reader[r].svc \in Service \cup {NoService}
    BY DEF Safe, TypeOK
  <2> QED BY <2>1 DEF Safe, ReadersKnow
<1>6. SessionsKnow'
  <2>1. \A x \in Session : copy[x].listed \in SUBSET Service
    BY DEF Safe, TypeOK
  <2> QED BY <2>1 DEF Safe, SessionsKnow
<1> QED BY <1>3, <1>4, <1>5, <1>6 DEF Safe

\* Settling at the usage reached (or an older one), and nothing else.
LEMMA SafeSettle ==
  ASSUME Safe, NEW S \in SUBSET Service, NEW current \in [Service -> Nat],
         \A s \in Service : current[s] <= Lifetime(s),
         Debit(S, current), meter' = Metered(S, current),
         UNCHANGED <<panelVars, usageVars, reader, policyVars, creditVars, sessionVars>>,
         mode' \in Modes, state' \in [Service -> StateType],
         \A s \in Service : state'[s] = "none" => state[s] = "none"
  PROVE  Safe'
<1>1. Charge(S, current) /\ wallet' \in Int
  BY FeesType DEF Debit, Safe, TypeOK
<1>2. \A s \in Service : /\ Lifetime(s)' = Lifetime(s) /\ Lifetime(s) \in Nat
                         /\ state[s] = "none" => Lifetime(s) = 0
  BY Values DEF Lifetime, usageVars, Safe, Metering
<1>3. meter' = [s \in Service |-> meter'[s]]
  BY DEF Metered
<1>4. /\ UNCHANGED <<panelVars, reader, creditVars>>
      /\ UNCHANGED <<life, used, due, tariff, ownRate, copy, lapses>>
  BY DEF usageVars, policyVars, sessionVars
<1>5. /\ life' \in [Service -> Nat] /\ used' \in [Service -> Nat]
      /\ due' \in [Service -> Nat] /\ tariff' \in [Server -> Rates]
      /\ ownRate' \in Rates \cup {0} /\ copy' \in [Session -> CopyType]
      /\ lapses' \subseteq {"wallet", "mode", "rate"}
  BY <1>4 DEF Safe, TypeOK, CopyType
<1>6. \A s \in Service :
             /\ current[s] <= Lifetime(s)' /\ Lifetime(s)' >= Lifetime(s)
             /\ state[s] = "none" => Lifetime(s)' = 0
             /\ meter'[s] = Metered(S, current)[s]
  BY <1>2
<1> QED BY <1>1, <1>3, <1>4, <1>5, <1>6, SafeBill

\* Traffic on the panel does not touch the books.
LEMMA SafeConsume ==
  ASSUME Safe, NEW s \in Service, Consume(s) PROVE Safe'
<1>1. TypeOK'
  BY DEF Safe, TypeOK, Consume, usageVars, policyVars, billVars, creditVars,
       sessionVars
<1> QED BY <1>1, SafeFrame DEF Consume, usageVars, billVars, sessionVars

\* Nor does a counter that is reset.
LEMMA SafeReset ==
  ASSUME Safe, NEW s \in Service, ResetCounter(s) PROVE Safe'
<1>1. TypeOK'
  BY DEF Safe, TypeOK, ResetCounter, usageVars, policyVars, billVars, creditVars,
       sessionVars
<1> QED BY <1>1, SafeFrame DEF ResetCounter, usageVars, billVars, sessionVars

\* A config that is created, disabled or enabled keeps its meter; a deleted
\* one never comes back.
LEMMA SafeState ==
  ASSUME Safe, NEW s \in Service, Create(s) \/ Disable(s) \/ Enable(s) PROVE Safe'
<1>1. \E new \in {"active", "inactive"} : state' = [state EXCEPT ![s] = new]
  BY DEF Create, Disable, Enable, SetState
<1>2. UNCHANGED <<panelVars, usageVars, reader, mode, policyVars, meter, billVars,
               creditVars, sessionVars>>
  BY DEF Create, Disable, Enable, SetState
<1>3. TypeOK'
  BY <1>1, <1>2 DEF Safe, TypeOK, panelVars, usageVars, policyVars, billVars, creditVars,
       sessionVars
<1>4. \A x \in Service : state'[x] = "none" => state[x] = "none"
  BY <1>1 DEF Safe, TypeOK
<1> QED BY <1>2, <1>3, <1>4, SafeFrame DEF usageVars, billVars, sessionVars

\* A refresh job only picks configs that exist.
LEMMA SafeRead ==
  ASSUME Safe, NEW r \in Reader, NEW s \in Service, ReadPanel(r, s) PROVE Safe'
<1>1. TypeOK'
  BY DEF Safe, TypeOK, ReadPanel, panelVars, usageVars, policyVars, billVars, creditVars,
       sessionVars
<1>2. \A x \in Reader : reader'[x].svc = reader[x].svc \/ state[reader'[x].svc] # "none"
  BY DEF Safe, TypeOK, ReadPanel, Live
<1> QED BY <1>1, <1>2, SafeFrame DEF ReadPanel, usageVars, billVars, sessionVars

\* Credits move the wallet and nothing else.
LEMMA SafeCredit ==
  ASSUME Safe, \/ \E k \in Transfer : CreditTransfer(k)
               \/ \E k \in Receipt : SubmitReceipt(k) \/ \E b \in BOOLEAN : ReviewReceipt(k, b)
  PROVE  Safe'
<1>1. /\ UNCHANGED <<panelVars, usageVars, state, reader, mode, policyVars, meter, usageKeys,
                     charged, sessionVars>>
      /\ receipt' \in [Receipt -> {"none", "pending", "approved", "rejected"}]
      /\ creditKeys' \subseteq Key
  BY DEF Safe, TypeOK, CreditTransfer, SubmitReceipt, ReviewReceipt, Credit, Key, billVars
<1>2. wallet' \in Int
  <2>1. \A k \in Key : Amount[k] \in Int
    BY LedgerAssumption
  <2>2. wallet \in Int /\ Transfer \subseteq Key /\ Receipt \subseteq Key
    BY DEF Safe, TypeOK, Key
  <2>3. wallet' = wallet \/ \E k \in Key : wallet' = wallet + Amount[k]
    BY <2>2 DEF CreditTransfer, SubmitReceipt, ReviewReceipt, Credit, billVars
  <2> QED BY <2>1, <2>2, <2>3
<1>3. TypeOK'
  BY <1>1, <1>2 DEF Safe, TypeOK, panelVars, usageVars, policyVars, sessionVars
<1> QED BY <1>1, <1>3, SafeFrame DEF usageVars, sessionVars

\* Usage only grows when a reading is recorded.
LEMMA SafeRecord ==
  ASSUME Safe, NEW r \in Reader, Record(r) PROVE Safe'
<1> DEFINE x == reader[r].svc
           reading == [y \in Service |-> reader[r].seen]
<1>1. /\ x \in Service /\ state[x] # "none" /\ reader[r].seen \in Nat
      /\ reading \in [Service -> Nat]
  BY DEF Safe, TypeOK, Record, ReadersKnow
<1>2. /\ UNCHANGED <<panelVars, state, mode, policyVars, meter, billVars,
               creditVars, sessionVars>>
      /\ reader' = [reader EXCEPT ![r] = Resting]
      /\ UNCHANGED usageVars \/ RecordUsage({x}, reading)
  BY DEF Record
<1>3. life' \in [Service -> Nat] /\ used' \in [Service -> Nat] /\ due' \in [Service -> Nat]
  BY <1>1, <1>2, RecordedTypes DEF Safe, TypeOK, usageVars
<1>4. TypeOK'
  BY <1>2, <1>3 DEF Safe, TypeOK, Resting, panelVars, policyVars, billVars, creditVars,
       sessionVars
<1>6. \A s \in Service : /\ Lifetime(s) \in Nat /\ Lifetime(s)' \in Nat
                         /\ Lifetime(s)' >= Lifetime(s)
                         /\ s # x => Lifetime(s)' = Lifetime(s)
  <2> SUFFICES ASSUME NEW s \in Service
               PROVE  /\ Lifetime(s) \in Nat /\ Lifetime(s)' \in Nat
                      /\ Lifetime(s)' >= Lifetime(s)
                      /\ s # x => Lifetime(s)' = Lifetime(s)
    OBVIOUS
  <2>1. Lifetime(s) \in Nat
    BY Values DEF Safe
  <2>2. CASE UNCHANGED usageVars
    BY <2>1, <2>2 DEF Lifetime, usageVars
  <2>3. CASE RecordUsage({x}, reading)
    <3>1. /\ Growth(s, reading[s]) \in Nat
          /\ Lifetime(s)' = IF s \in {x} THEN Lifetime(s) + Growth(s, reading[s])
                            ELSE Lifetime(s)
      BY <2>3, <1>1, Recorded DEF Safe
    <3> QED BY <3>1, <2>1
  <2> QED BY <2>2, <2>3, <1>2
<1>7. Metering'
  <2> SUFFICES ASSUME NEW s \in Service
               PROVE  /\ meter[s].checkpoint <= Lifetime(s)'
                      /\ \A k \in usageKeys[s] : k <= meter[s].checkpoint
                      /\ state[s] = "none" => Lifetime(s)' = 0
    BY <1>2 DEF Metering, billVars
  <2>1. meter[s].checkpoint \in Nat
    BY DEF Safe, TypeOK
  <2> QED BY <2>1, <1>1, <1>6 DEF Safe, Metering
<1>8. ReadersKnow'
  BY <1>2 DEF Safe, TypeOK, ReadersKnow, Resting
<1>9. SessionsKnow'
  BY <1>2 DEF Safe, SessionsKnow, sessionVars
<1> QED BY <1>4, <1>7, <1>8, <1>9 DEF Safe

\* Deletion settles at an older reading at worst.
LEMMA SafeDelete ==
  ASSUME Safe, NEW s \in Service, Delete(s) PROVE Safe'
<1> PICK old \in 0 .. Lifetime(s), S \in {Settled(Service), {}} :
         /\ meter' = Metered(S, [Current EXCEPT ![s] = old])
         /\ Debit(S, [Current EXCEPT ![s] = old])
  BY DEF Delete
<1>1. \A y \in Service : Lifetime(y) \in Nat
  BY Values DEF Safe
<1>2. old \in Nat /\ old <= Lifetime(s)
  BY <1>1
<1>3. [Current EXCEPT ![s] = old] \in [Service -> Nat]
      /\ \A y \in Service : [Current EXCEPT ![s] = old][y] <= Lifetime(y)
  BY <1>1, <1>2 DEF Current
<1>4. S \in SUBSET Service
  BY SettledSubset
<1>5. /\ UNCHANGED <<panelVars, usageVars, reader, mode, policyVars, creditVars, sessionVars>>
      /\ state' = [state EXCEPT ![s] = "deleted"]
  BY DEF Delete
<1>6. mode' \in Modes /\ state' \in [Service -> StateType]
      /\ \A y \in Service : state'[y] = "none" => state[y] = "none"
  BY <1>5 DEF Safe, TypeOK, StateType
<1> QED BY <1>3, <1>4, <1>5, <1>6, SafeSettle

\* The scheduled settlement, and the one before a switch to volume.
LEMMA SafeCycle ==
  ASSUME Safe, (\E Up \in SUBSET Server : Cycle(Up)) \/ SwitchToVolume PROVE Safe'
<1>1. \E S \in SUBSET Service : meter' = Metered(S, Current) /\ Debit(S, Current)
  <2>1. CASE SwitchToVolume
    BY <2>1, SettledSubset DEF SwitchToVolume
  <2>2. CASE \E Up \in SUBSET Server : Cycle(Up)
    <3> PICK Up \in SUBSET Server : Cycle(Up)
      BY <2>2
    <3> QED BY SettledSubset DEF Cycle
  <2> QED BY <2>1, <2>2
<1> PICK S \in SUBSET Service : meter' = Metered(S, Current) /\ Debit(S, Current)
  BY <1>1
<1>2. /\ UNCHANGED <<panelVars, usageVars, state, reader, policyVars, creditVars, sessionVars>>
      /\ mode' \in Modes
  BY DEF Cycle, SwitchToVolume, Safe, TypeOK, Modes
<1>3. \A s \in Service : Lifetime(s) \in Nat /\ Current[s] <= Lifetime(s)
  BY Values DEF Current, Safe
<1>4. state' \in [Service -> StateType]
      /\ \A s \in Service : state'[s] = "none" => state[s] = "none"
  BY <1>2 DEF Safe, TypeOK, StateType
<1> QED BY <1>2, <1>3, <1>4, CurrentType, SafeSettle DEF Safe

\* The new period starts at what was used before it.
LEMMA SafeToPayg ==
  ASSUME Safe, SwitchToPayg PROVE Safe'
<1>1. UNCHANGED <<panelVars, usageVars, state, reader, policyVars, billVars, creditVars, sessionVars>>
      /\ mode' \in Modes
  BY DEF SwitchToPayg, Modes
<1>2. \A s \in Service :
         /\ Lifetime(s) \in Nat /\ BillRate(s) \in Rates
         /\ meter[s] \in MeterType
         /\ meter'[s] = IF state[s] = "none" THEN meter[s]
                        ELSE [meter[s] EXCEPT !.rate = BillRate(s), !.checkpoint = Lifetime(s)]
  BY Values, BillRateType DEF Safe, TypeOK, MeterType, SwitchToPayg, Opened
<1>3. \A s \in Service : meter'[s] \in MeterType
  BY <1>2 DEF MeterType
<1>4. meter' \in [Service -> MeterType]
  BY <1>3 DEF SwitchToPayg
<1>5. TypeOK'
  BY <1>1, <1>4
     DEF Safe, TypeOK, MeterType, panelVars, usageVars, policyVars, billVars, creditVars,
       sessionVars
<1>6. \A s \in Service : Lifetime(s)' = Lifetime(s)
  BY <1>1 DEF Lifetime, usageVars
<1>7. Metering'
  <2> SUFFICES ASSUME NEW s \in Service
               PROVE  /\ meter'[s].checkpoint <= Lifetime(s)
                      /\ \A k \in usageKeys[s] : k <= meter'[s].checkpoint
                      /\ state[s] = "none" => Lifetime(s) = 0
    BY <1>1, <1>6 DEF Metering, billVars
  <2>1. /\ meter[s].checkpoint \in Nat /\ usageKeys[s] \in SUBSET Nat
        /\ meter[s].checkpoint <= Lifetime(s)
        /\ \A k \in usageKeys[s] : k <= meter[s].checkpoint
        /\ state[s] = "none" => Lifetime(s) = 0
    BY DEF Safe, TypeOK, Metering
  <2>2. CASE state[s] = "none"
    BY <2>1, <2>2, <1>2
  <2>3. CASE state[s] # "none"
    <3> DEFINE L == Lifetime(s)
    <3>1. meter'[s].checkpoint = L
      BY <2>3, <1>2 DEF MeterType
    <3>2. L \in Nat
      BY <1>2
    <3>3. /\ meter[s].checkpoint \in Nat /\ usageKeys[s] \in SUBSET Nat
          /\ meter[s].checkpoint <= L
          /\ \A k \in usageKeys[s] : k <= meter[s].checkpoint
      BY <2>1
    <3>4. (state[s] = "none" => Lifetime(s) = 0)
      BY <2>3
    <3> HIDE DEF L
    <3>5. \A k \in usageKeys[s] : k <= L
      BY <3>2, <3>3
    <3>6. L <= L
      BY <3>2
    <3> QED BY <3>1, <3>4, <3>5, <3>6 DEF L
  <2> QED BY <2>2, <2>3
<1>8. ReadersKnow'
  BY <1>1 DEF Safe, TypeOK, ReadersKnow
<1>9. SessionsKnow'
  BY <1>1 DEF Safe, SessionsKnow, sessionVars
<1> QED BY <1>5, <1>7, <1>8, <1>9 DEF Safe

\* A tariff edit: the meters it reprices bill at the rate then in force.
LEMMA SafePolicy ==
  ASSUME Safe, NEW sv \in Server, NEW rate \in Rates, UpdatePolicy(sv, rate)
  PROVE  Safe'
<1> DEFINE S == IF Concerned(sv) THEN Settled(Service) ELSE {}
           new == IF ownRate > 0 THEN ownRate ELSE rate
<1>1. S \in SUBSET Service
  BY SettledSubset
<1>2. /\ Debit(S, Current)
      /\ tariff' = [tariff EXCEPT ![sv] = rate]
      /\ meter' = [s \in Service |-> IF Home[s] = sv
                      THEN Repriced(Metered(S, Current)[s], new)
                      ELSE Metered(S, Current)[s]]
      /\ UNCHANGED <<panelVars, usageVars, state, reader, mode, ownRate, creditVars, sessionVars>>
  BY DEF UpdatePolicy
<1> HIDE DEF S
<1>3. \A s \in Service : /\ Lifetime(s)' = Lifetime(s) /\ Lifetime(s) \in Nat
                         /\ Current[s] = Lifetime(s)
  BY <1>2, Values DEF Lifetime, usageVars, Current, Safe
<1>5. /\ tariff' \in [Server -> Rates] /\ ownRate' \in Rates \cup {0}
      /\ life' \in [Service -> Nat] /\ used' \in [Service -> Nat]
      /\ due' \in [Service -> Nat] /\ mode' \in Modes /\ state' \in [Service -> StateType]
      /\ copy' \in [Session -> CopyType] /\ lapses' \subseteq {"wallet", "mode", "rate"}
  BY <1>2 DEF Safe, TypeOK, StateType, CopyType, usageVars, sessionVars
<1>6. new \in Rates
  <2>1. ownRate > 0 => ownRate \in Rates
    BY DEF Safe, TypeOK
  <2> QED BY <2>1
<1> HIDE DEF new
<1>7. ASSUME NEW s \in Service
      PROVE  /\ Current[s] <= Lifetime(s)' /\ Lifetime(s)' >= Lifetime(s)
             /\ state[s] = "none" => Lifetime(s)' = 0
             /\ \/ meter'[s] = Metered(S, Current)[s]
                \/ \E r \in Rates : meter'[s] = Repriced(Metered(S, Current)[s], r)
  <2>1. Current[s] <= Lifetime(s)' /\ Lifetime(s)' >= Lifetime(s)
    BY <1>3
  <2>2. state[s] = "none" => Lifetime(s)' = 0
    BY <1>3 DEF Safe, Metering
  <2> QED BY <2>1, <2>2, <1>2, <1>6
<1>8. /\ Current \in [Service -> Nat] /\ meter' = [s \in Service |-> meter'[s]]
      /\ UNCHANGED <<panelVars, state, reader, creditVars, copy>>
  BY <1>2, CurrentType DEF Safe, sessionVars
<1>9. Charge(S, Current) /\ wallet' \in Int
  BY <1>1, <1>2, <1>8, FeesType DEF Debit, Safe, TypeOK
<1> QED BY <1>1, <1>5, <1>7, <1>8, <1>9, SafeBill

\* What is known of the usage once readings are recorded.
LEMMA ReachedIs ==
  ASSUME Safe, NEW S \in SUBSET Service, NEW reading \in [Service -> Nat],
         \A s \in S : state[s] # "none", RecordUsage(S, reading), NEW s \in Service
  PROVE  /\ Lifetime(s)' = Reached(S, reading)[s]
         /\ Lifetime(s) \in Nat /\ Growth(s, reading[s]) \in Nat
         /\ Lifetime(s)' \in Nat /\ Lifetime(s)' >= Lifetime(s)
         /\ state[s] = "none" => Lifetime(s)' = 0
<1>1. /\ Lifetime(s)' = IF s \in S THEN Lifetime(s) + Growth(s, reading[s])
                        ELSE Lifetime(s)
      /\ Growth(s, reading[s]) \in Nat
  BY Recorded DEF Safe
<1>2. Lifetime(s) \in Nat
  BY Values DEF Safe
<1>3. state[s] = "none" => Lifetime(s)' = 0
  BY <1>1 DEF Safe, Metering
<1> QED BY <1>1, <1>2, <1>3 DEF Reached

\* The account's own rate, set once the panels are read and all is settled.
LEMMA SafeRates ==
  ASSUME Safe, NEW rate \in Rates, SaveRates(rate) PROVE Safe'
<1> DEFINE live == {s \in Service : Live(s)}
           current == Reached(live, counter)
           S == Settled(Service)
<1>1. /\ RecordUsage(live, counter) /\ Debit(S, current)
      /\ meter' = [s \in Service |-> Repriced(Metered(S, current)[s], rate)]
      /\ ownRate' = rate
      /\ UNCHANGED <<panelVars, state, reader, mode, tariff, creditVars, sessionVars>>
  BY DEF SaveRates
<1>2. S \in SUBSET Service
  BY SettledSubset
<1>3. live \in SUBSET Service /\ counter \in [Service -> Nat] /\ \A s \in live : state[s] # "none"
  BY DEF Safe, TypeOK, Live
<1> HIDE DEF S, live
<1>4. \A s \in Service : /\ current[s] = Lifetime(s)' /\ current[s] \in Nat
                         /\ Lifetime(s)' >= Lifetime(s)
                         /\ state[s] = "none" => Lifetime(s)' = 0
  BY <1>1, <1>3, ReachedIs
<1>5. current \in [Service -> Nat]
  BY <1>4 DEF Reached
<1>6. life' \in [Service -> Nat] /\ used' \in [Service -> Nat] /\ due' \in [Service -> Nat]
  BY <1>1, <1>3, RecordedTypes DEF Safe
<1> HIDE DEF current
<1>7. Charge(S, current) /\ wallet' \in Int
  BY <1>1, <1>2, <1>5, FeesType DEF Debit, Safe, TypeOK
<1>8. \A s \in Service :
             /\ current[s] <= Lifetime(s)' /\ Lifetime(s)' >= Lifetime(s)
             /\ state[s] = "none" => Lifetime(s)' = 0
             /\ \E r \in Rates : meter'[s] = Repriced(Metered(S, current)[s], r)
  BY <1>1, <1>4
<1>9. /\ tariff' \in [Server -> Rates] /\ ownRate' \in Rates \cup {0}
      /\ mode' \in Modes /\ state' \in [Service -> StateType]
      /\ copy' \in [Session -> CopyType] /\ lapses' \subseteq {"wallet", "mode", "rate"}
      /\ meter' = [s \in Service |-> meter'[s]]
      /\ UNCHANGED <<panelVars, state, reader, creditVars, copy>>
  BY <1>1 DEF Safe, TypeOK, StateType, CopyType, sessionVars
<1> QED BY <1>2, <1>5, <1>6, <1>7, <1>8, <1>9, SafeBill

\* A copy of the account holds nothing but what the account has.
LEMMA SafeLoad ==
  ASSUME Safe, NEW x \in Session, Load(x) PROVE Safe'
<1> DEFINE c == [NoCopy EXCEPT !.at = "account", !.wallet = wallet, !.mode = mode]
<1>1. /\ copy' = [copy EXCEPT ![x] = c]
      /\ UNCHANGED <<panelVars, usageVars, state, reader, mode, policyVars, meter, billVars,
                     creditVars, lapses>>
  BY DEF Load
<1>2. c \in CopyType /\ c.listed = {}
  BY DEF NoCopy, CopyType, Safe, TypeOK, Modes
<1> HIDE DEF c
<1>3. TypeOK'
  BY <1>1, <1>2 DEF Safe, TypeOK, CopyType, panelVars, usageVars, policyVars, billVars, creditVars
<1>4. \A y \in Session : copy'[y].listed = copy[y].listed \/ copy'[y].listed = {}
  BY <1>1, <1>2 DEF Safe, TypeOK
<1> QED BY <1>1, <1>3, <1>4, SafeFrame DEF usageVars, billVars

\* A live view lists configs that exist.
LEMMA SafeView ==
  ASSUME Safe, NEW v \in Viewer, ViewPanel(v) PROVE Safe'
<1> DEFINE live == {s \in Service : Live(s)}
<1> PICK f \in IF live = {} THEN {NoService} ELSE live :
         copy' = [copy EXCEPT ![v] = [copy[v] EXCEPT !.at = "panel", !.listed = live, !.first = f,
                     !.seen = IF f = NoService THEN 0 ELSE counter[f]]]
  BY DEF ViewPanel
<1>1. v \in Session /\ copy[v] \in CopyType
  BY DEF Session, Safe, TypeOK, CopyType
<1>2. f \in Service \cup {NoService} /\ (f # NoService => f \in Service)
  OBVIOUS
<1>3. (IF f = NoService THEN 0 ELSE counter[f]) \in Nat
  BY <1>2 DEF Safe, TypeOK
<1> DEFINE c == [copy[v] EXCEPT !.at = "panel", !.listed = live, !.first = f,
                    !.seen = IF f = NoService THEN 0 ELSE counter[f]]
<1>4. c \in CopyType /\ c.listed = live
  BY <1>1, <1>2, <1>3 DEF CopyType
<1>5. copy' = [copy EXCEPT ![v] = c]
  OBVIOUS
<1>6. UNCHANGED <<panelVars, usageVars, state, reader, mode, policyVars, meter, billVars,
                  creditVars, lapses>>
  BY DEF ViewPanel
<1>7. \A s \in live : state[s] # "none"
  BY DEF Live
<1> HIDE DEF c, live
<1>8. TypeOK'
  BY <1>1, <1>4, <1>5, <1>6
     DEF Safe, TypeOK, CopyType, panelVars, usageVars, policyVars, billVars, creditVars
<1>9. \A y \in Session : copy'[y].listed = copy[y].listed \/ copy'[y].listed = live
  BY <1>1, <1>4, <1>5 DEF Safe, TypeOK
<1> QED BY <1>6, <1>7, <1>8, <1>9, SafeFrame DEF usageVars, billVars

\* What a live view records, the usage it settles at, and what it writes.
LEMMA LiveIs ==
  ASSUME Safe, NEW v \in Viewer, LiveSettle(v)
  PROVE  \E S \in SUBSET Service, current, reading \in [Service -> Nat] :
             /\ copy[v].listed \in SUBSET Service
             /\ \A s \in copy[v].listed : state[s] # "none"
             /\ RecordUsage(copy[v].listed, reading)
             /\ \A s \in Service : current[s] <= Lifetime(s)'
             /\ Charge(S, current) /\ meter' = Metered(S, current)
             /\ wallet' = wallet - Fees(S, current) \/ wallet' = copy[v].wallet - Fees(S, current)
             /\ "wallet" \notin lapses' => wallet' = wallet - Fees(S, current)
             /\ "mode" \notin lapses' => S = {} \/ mode = "payg"
<1> DEFINE c == copy[v]
           reading == [s \in Service |-> IF s = c.first THEN c.seen ELSE counter[s]]
           S == IF c.mode = "payg" THEN {s \in Service : state[s] # "none"} ELSE {}
           gone == {s \in Service : state[s] = "deleted"} \ c.listed
           range == UNION {0 .. Lifetime(s) : s \in gone}
           cur(old) == [s \in Service |-> IF s \in gone THEN Smaller(old[s], Lifetime(s))
                                          ELSE Reached(c.listed, reading)[s]]
<1>1. PICK old \in [gone -> range] :
         /\ meter' = Metered(S, cur(old)) /\ Charge(S, cur(old))
         /\ wallet' = (IF Fees(S, cur(old)) # 0 THEN c.wallet ELSE wallet) - Fees(S, cur(old))
         /\ lapses' = lapses
              \cup {l \in {"wallet"} : Fees(S, cur(old)) # 0 /\ c.wallet # wallet}
              \cup {l \in {"mode"} : S # {} /\ mode # "payg"}
  BY DEF LiveSettle
<1>2. /\ v \in Session /\ c \in CopyType /\ c.listed \in SUBSET Service
      /\ \A s \in c.listed : state[s] # "none"
  BY DEF Session, Safe, TypeOK, CopyType, SessionsKnow
<1>3. reading \in [Service -> Nat]
  BY <1>2 DEF Safe, TypeOK, CopyType
<1>4. RecordUsage(c.listed, reading)
  BY DEF LiveSettle
<1>5. S \in SUBSET Service
  OBVIOUS
<1>6. range \subseteq Nat
  <2>1. \A s \in Service : Lifetime(s) \in Nat
    BY Values DEF Safe
  <2> QED BY <2>1
<1> DEFINE current == cur(old)
<1>7. ASSUME NEW s \in Service PROVE current[s] \in Nat /\ current[s] <= Lifetime(s)'
  <2>1. /\ Lifetime(s)' = Reached(c.listed, reading)[s] /\ Lifetime(s) \in Nat
        /\ Lifetime(s)' \in Nat /\ Lifetime(s)' >= Lifetime(s)
    BY <1>2, <1>3, <1>4, ReachedIs
  <2>2. CASE s \in gone
    <3>1. old[s] \in Nat /\ current[s] = Smaller(old[s], Lifetime(s))
      BY <1>6, <2>2
    <3> HIDE DEF current
    <3> QED BY <2>1, <3>1 DEF Smaller
  <2>3. CASE s \notin gone
    <3>1. current[s] = Reached(c.listed, reading)[s]
      BY <2>3
    <3> HIDE DEF current
    <3> QED BY <2>1, <3>1
  <2> QED BY <2>2, <2>3
<1>8. current \in [Service -> Nat]
  BY <1>7
<1>9. /\ Charge(S, current) /\ meter' = Metered(S, current)
      /\ wallet' = (IF Fees(S, current) # 0 THEN c.wallet ELSE wallet) - Fees(S, current)
      /\ "wallet" \notin lapses' => Fees(S, current) = 0 \/ c.wallet = wallet
      /\ "mode" \notin lapses' => S = {} \/ mode = "payg"
  BY <1>1
<1> HIDE DEF current, S, reading, c
<1>10. wallet' = wallet - Fees(S, current) \/ wallet' = c.wallet - Fees(S, current)
  BY <1>9
<1>11. "wallet" \notin lapses' => wallet' = wallet - Fees(S, current)
  BY <1>9
<1> QED BY <1>2, <1>3, <1>4, <1>5, <1>7, <1>8, <1>9, <1>10, <1>11 DEF c

\* Whatever account a live view has loaded, it keeps the meters in order.
LEMMA SafeLive ==
  ASSUME Safe, NEW v \in Viewer, LiveSettle(v) PROVE Safe'
<1> DEFINE L == copy[v].listed
<1>1. PICK S \in SUBSET Service, current, reading \in [Service -> Nat] :
             /\ L \in SUBSET Service /\ \A s \in L : state[s] # "none"
             /\ RecordUsage(L, reading)
             /\ \A s \in Service : current[s] <= Lifetime(s)'
             /\ Charge(S, current) /\ meter' = Metered(S, current)
             /\ wallet' = wallet - Fees(S, current) \/ wallet' = copy[v].wallet - Fees(S, current)
  BY LiveIs
<1>2. /\ UNCHANGED <<panelVars, state, reader, mode, policyVars, creditVars>>
      /\ copy' = [copy EXCEPT ![v] = NoCopy]
      /\ lapses' \subseteq lapses \cup {"wallet", "mode"}
  BY DEF LiveSettle
<1>3. v \in Session /\ copy[v].wallet \in Int /\ wallet \in Int
  BY DEF Session, Safe, TypeOK
<1>4. wallet' \in Int
  BY <1>1, <1>3, FeesType
<1>5. /\ NoCopy \in CopyType /\ NoCopy.listed = {}
  BY DEF NoCopy, CopyType, Modes
<1>6. /\ copy' \in [Session -> CopyType]
      /\ \A x \in Session : copy'[x].listed \subseteq copy[x].listed
  BY <1>2, <1>3, <1>5 DEF Safe, TypeOK, CopyType
<1>7. /\ lapses' \subseteq {"wallet", "mode", "rate"} /\ mode' \in Modes
      /\ state' \in [Service -> StateType] /\ tariff' \in [Server -> Rates]
      /\ ownRate' \in Rates \cup {0} /\ meter' = [s \in Service |-> meter'[s]]
  BY <1>1, <1>2 DEF Safe, TypeOK, StateType, policyVars, Metered
<1>8. life' \in [Service -> Nat] /\ used' \in [Service -> Nat] /\ due' \in [Service -> Nat]
  BY <1>1, RecordedTypes DEF Safe
<1> HIDE DEF L
<1>9. \A s \in Service :
         /\ current[s] <= Lifetime(s)' /\ Lifetime(s)' >= Lifetime(s)
         /\ state[s] = "none" => Lifetime(s)' = 0
         /\ state'[s] = "none" => state[s] = "none"
         /\ meter'[s] = Metered(S, current)[s]
  BY <1>1, <1>2, ReachedIs
<1> QED BY <1>1, <1>2, <1>4, <1>6, <1>7, <1>8, <1>9, SafeBill

\* A credit over a copy moves the wallet and at most the account's own rate.
LEMMA SafeUnlocked ==
  ASSUME Safe, NEW k \in Unlocked, CreditUnlocked(k) PROVE Safe'
<1>1. /\ UNCHANGED <<panelVars, usageVars, state, reader, mode, tariff, meter, usageKeys,
                     charged, receipt>>
      /\ creditKeys' = creditKeys \cup {k} /\ copy' = [copy EXCEPT ![k] = NoCopy]
      /\ lapses' \subseteq lapses \cup {"wallet", "rate"}
      /\ ownRate' \in Rates \cup {ownRate}
      /\ wallet' = copy[k].wallet + Amount[k] \/ wallet' = wallet + Amount[k]
  BY DEF CreditUnlocked
<1>2. k \in Session /\ k \in Key /\ Amount[k] \in Int /\ copy[k].wallet \in Int /\ wallet \in Int
  BY LedgerAssumption DEF Session, Key, Safe, TypeOK
<1>3. NoCopy \in CopyType /\ NoCopy.listed = {}
  BY DEF NoCopy, CopyType, Modes
<1>4. wallet' \in Int /\ creditKeys' \subseteq Key
  BY <1>1, <1>2 DEF Safe, TypeOK
<1>5. TypeOK'
  BY <1>1, <1>2, <1>3, <1>4 DEF Safe, TypeOK, CopyType, panelVars, usageVars
<1>6. \A x \in Session : copy'[x].listed = copy[x].listed \/ copy'[x].listed = {}
  BY <1>1, <1>2, <1>3 DEF Safe, TypeOK
<1> QED BY <1>1, <1>5, <1>6, SafeFrame DEF usageVars

\* Every step keeps Safe.
LEMMA SafeStep == Safe /\ [Next]_vars => Safe'
<1> SUFFICES ASSUME Safe, [Next]_vars PROVE Safe'
  OBVIOUS
<1>1. CASE UNCHANGED vars
  <2>1. TypeOK'
    BY <1>1 DEF Safe, TypeOK, vars, panelVars, usageVars, policyVars, billVars, creditVars,
       sessionVars
  <2> QED BY <1>1, <2>1, SafeFrame DEF vars, usageVars, billVars, sessionVars
<1>2. CASE \E s \in Service : ServiceStep(s)
  BY <1>2, SafeConsume, SafeReset, SafeState, SafeDelete DEF ServiceStep
<1>3. CASE \E r \in Reader : Record(r) \/ \E s \in Service : ReadPanel(r, s)
  BY <1>3, SafeRecord, SafeRead
<1>4. CASE (\E Up \in SUBSET Server : Cycle(Up)) \/ SwitchToVolume
  BY <1>4, SafeCycle
<1>5. CASE SwitchToPayg
  BY <1>5, SafeToPayg
<1>6. CASE \E rate \in Rates :
             SaveRates(rate) \/ \E sv \in Server : UpdatePolicy(sv, rate)
  BY <1>6, SafeRates, SafePolicy
<1>7. CASE \/ \E k \in Transfer : CreditTransfer(k)
           \/ \E k \in Receipt : SubmitReceipt(k) \/ \E b \in BOOLEAN : ReviewReceipt(k, b)
  BY <1>7, SafeCredit
<1>8. CASE \E x \in Session : Load(x)
  BY <1>8, SafeLoad
<1>9. CASE \E v \in Viewer : ViewPanel(v) \/ LiveSettle(v)
  BY <1>9, SafeView, SafeLive
<1>10. CASE \E k \in Unlocked : CreditUnlocked(k)
  BY <1>10, SafeUnlocked
<1> QED BY <1>1, <1>2, <1>3, <1>4, <1>5, <1>6, <1>7, <1>8, <1>9, <1>10 DEF Next

(***************************************************************************)
(* Traffic costs the tariff in force when it was recorded.                 *)
(***************************************************************************)
\* After a step the meter bills at the rate then in force.
LEMMA AgreesAfter ==
  ASSUME Safe', Agreed', NEW s \in Service PROVE BillRate(s)' = RateFor(s)'
<1>1. meter'[s].rate \in Rates \cup {0}
  BY DEF Safe, TypeOK
<1>2. \A rate \in Rates : rate > 0
  BY LedgerAssumption
<1> QED BY <1>1, <1>2 DEF Agreed, BillRate

\* The arithmetic of a settlement: what the meter moves over leaves the
\* unbilled traffic, and what is newly recorded joins it, at one rate.
LEMMA Balance ==
  ASSUME NEW L \in Nat, NEW LL \in Nat, NEW c \in Nat, NEW cc \in Nat,
         NEW R \in Nat, NEW X \in Int, NEW XX \in Int, NEW d \in Int, NEW dd \in Int,
         X + (L - c) * R = d, XX = X + (cc - c) * R, dd = d + (LL - L) * R
  PROVE  XX + (LL - cc) * R = dd
<1>1. (cc - c) * R + (LL - cc) * R = (LL - c) * R
  BY Split
<1>2. (L - c) * R + (LL - L) * R = (LL - c) * R
  BY Split
<1> DEFINE A == (cc - c) * R
           B == (LL - cc) * R
           C == (LL - c) * R
           D == (L - c) * R
           E == (LL - L) * R
<1>3. A \in Int /\ B \in Int /\ C \in Int /\ D \in Int /\ E \in Int
  OBVIOUS
<1>4. A + B = C /\ D + E = C /\ X + D = d /\ XX = X + A /\ dd = d + E
  BY <1>1, <1>2
<1> HIDE DEF A, B, C, D, E
<1>5. XX + B = dd
  BY <1>3, <1>4
<1> QED BY <1>5 DEF B

\* Under PAYG a service stays balanced when its debit pays for what its meter
\* moves over, and the rate changes only with nothing left to bill.
LEMMA Balanced ==
  ASSUME BilledInv, Safe', Agreed', NEW s \in Service, mode = "payg",
         Gb * charged'[s] + meter'[s].remainder = Gb * charged[s] + meter[s].remainder
             + (meter'[s].checkpoint - meter[s].checkpoint) * RateFor(s),
         due'[s] = due[s] + (Lifetime(s)' - Lifetime(s)) * RateFor(s),
         \/ RateFor(s)' = RateFor(s) /\ mode' = "payg"
         \/ meter'[s].checkpoint = Lifetime(s)'
  PROVE  Gb * charged'[s] + meter'[s].remainder + Unbilled(s)' = due'[s]
<1> DEFINE L == Lifetime(s)
           LL == Lifetime(s)'
           c == meter[s].checkpoint
           cc == meter'[s].checkpoint
           R == RateFor(s)
           RR == RateFor(s)'
           X == Gb * charged[s] + meter[s].remainder
           XX == Gb * charged'[s] + meter'[s].remainder
           d == due[s]
           dd == due'[s]
<1>1. L \in Nat /\ R \in Nat /\ BillRate(s) = R
  BY Values, RateAgrees DEF BilledInv, Safe
<1>2. /\ meter[s] \in MeterType /\ meter'[s] \in MeterType
      /\ charged[s] \in Nat /\ charged'[s] \in Nat /\ d \in Nat /\ dd \in Nat
      /\ life'[s] \in Nat /\ used'[s] \in Nat
  BY DEF BilledInv, Safe, TypeOK, MeterType
<1>3. LL \in Nat
  BY <1>2 DEF Lifetime, Larger
<1>4. RR \in Nat
  <2>1. Rates \subseteq Nat /\ Home[s] \in Server
    BY LedgerAssumption
  <2>2. ownRate' \in Nat /\ tariff'[Home[s]] \in Nat
    BY <2>1 DEF Safe, TypeOK
  <2> QED BY <2>2 DEF RateFor
<1>5. /\ c \in Nat /\ cc \in Nat /\ meter[s].remainder \in Nat
      /\ meter'[s].remainder \in Nat
  BY <1>2 DEF MeterType
<1>6. Gb * charged[s] \in Nat /\ Gb * charged'[s] \in Nat
  BY <1>2, Product, LedgerAssumption
<1>7. X \in Int /\ XX \in Int
  BY <1>5, <1>6
<1>8. X + (L - c) * R = d
  BY <1>1 DEF BilledInv, InBalance, Unbilled
<1>9. XX = X + (cc - c) * R /\ dd = d + (LL - L) * R
  OBVIOUS
<1>10. BillRate(s)' = RR
  BY AgreesAfter
<1>11. Unbilled(s)' = IF mode' = "payg" THEN (LL - cc) * RR ELSE 0
  BY <1>10 DEF Unbilled
<1>12. (RR = R /\ mode' = "payg") \/ cc = LL
  OBVIOUS
<1> HIDE DEF L, LL, c, cc, R, RR, X, XX, d, dd
<1>13. XX + (LL - cc) * R = dd
  BY <1>1, <1>2, <1>3, <1>5, <1>7, <1>8, <1>9, Balance
<1>14. CASE RR = R /\ mode' = "payg"
  BY <1>11, <1>13, <1>14 DEF XX, dd
<1>15. CASE cc = LL
  <2>1. (LL - cc) * R = 0 /\ (LL - cc) * RR = 0
    BY <1>15, <1>1, <1>3, <1>4
  <2>2. Unbilled(s)' = 0
    BY <2>1, <1>11
  <2>3. XX + 0 = dd
    BY <2>1, <1>13
  <2> QED BY <2>2, <2>3 DEF XX, dd
<1> QED BY <1>12, <1>14, <1>15

\* Under volume billing nothing falls due, and PAYG starts with nothing to bill.
LEMMA VolumeBalanced ==
  ASSUME BilledInv, Safe', Agreed', NEW s \in Service, mode # "payg",
         charged'[s] = charged[s], meter'[s].remainder = meter[s].remainder,
         due'[s] = due[s],
         mode' # "payg" \/ meter'[s].checkpoint = Lifetime(s)'
  PROVE  Gb * charged'[s] + meter'[s].remainder + Unbilled(s)' = due'[s]
<1>1. Gb * charged[s] + meter[s].remainder + 0 = due[s]
  BY DEF BilledInv, InBalance, Unbilled
<1>2. Unbilled(s)' = 0
  <2>1. CASE mode' # "payg"
    BY <2>1 DEF Unbilled
  <2>2. CASE meter'[s].checkpoint = Lifetime(s)'
    <3>1. life'[s] \in Nat /\ used'[s] \in Nat /\ ownRate' \in Nat
      BY LedgerAssumption DEF Safe, TypeOK
    <3>2. Lifetime(s)' \in Nat
      BY <3>1 DEF Lifetime, Larger
    <3>3. RateFor(s)' \in Nat
      <4>1. Rates \subseteq Nat /\ Home[s] \in Server
        BY LedgerAssumption
      <4>2. tariff'[Home[s]] \in Nat
        BY <4>1 DEF Safe, TypeOK
      <4> QED BY <4>2, <3>1 DEF RateFor
    <3>4. BillRate(s)' = RateFor(s)'
      BY AgreesAfter
    <3>5. (Lifetime(s)' - Lifetime(s)') * RateFor(s)' = 0
      BY <3>2, <3>3
    <3> QED BY <2>2, <3>4, <3>5 DEF Unbilled
  <2> QED BY <2>1, <2>2
<1> QED BY <1>1, <1>2

\* Steps that bill nothing and record nothing.
LEMMA BilledFrame ==
  ASSUME InBalance,
         UNCHANGED <<life, used, due, policyVars, meter, charged, mode>>
  PROVE  InBalance'
  BY DEF InBalance, Unbilled, Lifetime, BillRate, RateFor, policyVars

\* A reading adds to what is due exactly what it adds to the unbilled traffic.
LEMMA BilledRecord ==
  ASSUME BilledInv, Safe', Agreed', NEW r \in Reader, Record(r) PROVE InBalance'
<1> DEFINE x == reader[r].svc
           reading == [y \in Service |-> reader[r].seen]
<1>1. x \in Service /\ reading \in [Service -> Nat] /\ TypeOK
  BY DEF BilledInv, Safe, TypeOK, Record
<1>2. /\ UNCHANGED <<mode, policyVars, meter, billVars>>
      /\ UNCHANGED usageVars \/ RecordUsage({x}, reading)
  BY DEF Record
<1>3. CASE UNCHANGED usageVars
  BY <1>2, <1>3, BilledFrame DEF BilledInv, usageVars, billVars
<1>4. CASE RecordUsage({x}, reading)
  <2> SUFFICES ASSUME NEW s \in Service
               PROVE  Gb * charged'[s] + meter'[s].remainder + Unbilled(s)' = due'[s]
    BY DEF InBalance
  <2>1. /\ Growth(s, reading[s]) \in Nat
        /\ Lifetime(s)' = IF s \in {x} THEN Lifetime(s) + Growth(s, reading[s])
                          ELSE Lifetime(s)
        /\ due'[s] = IF s \in {x} /\ mode = "payg"
                     THEN due[s] + Growth(s, reading[s]) * RateFor(s) ELSE due[s]
    BY <1>1, <1>4, Recorded
  <2>2. /\ charged' = charged /\ meter' = meter /\ mode' = mode
        /\ RateFor(s)' = RateFor(s)
    BY <1>2 DEF billVars, policyVars, RateFor
  <2>3. CASE mode # "payg"
    BY <2>1, <2>2, <2>3, VolumeBalanced
  <2>4. CASE mode = "payg"
    <3> DEFINE g == Growth(s, reading[s])
               L == Lifetime(s)
               LL == Lifetime(s)'
               R == RateFor(s)
               c == meter[s].checkpoint
               X == Gb * charged[s] + meter[s].remainder
    <3>1. /\ L \in Nat /\ R \in Nat /\ g \in Nat /\ due[s] \in Nat /\ c \in Nat
          /\ charged[s] \in Nat /\ meter[s].remainder \in Nat /\ Gb \in Nat
      BY <1>1, <2>1, Values, LedgerAssumption DEF TypeOK
    <3>2. X \in Nat
      BY <3>1, Product
    <3>3. /\ LL = IF s \in {x} THEN L + g ELSE L
          /\ due'[s] = IF s \in {x} THEN due[s] + g * R ELSE due[s]
      BY <2>1, <2>4
    <3> HIDE DEF g, L, LL, R, c, X
    <3>4. due'[s] = due[s] + (LL - L) * R
      BY <3>1, <3>3
    <3>5. X = X + (c - c) * R
      BY <3>1, <3>2
    <3> QED BY <2>2, <2>4, <3>4, <3>5, Balanced DEF L, LL, R, c, X
  <2> QED BY <2>3, <2>4
<1> QED BY <1>2, <1>3, <1>4

\* A settlement of some of the services, or of all of them before a switch.
LEMMA BilledSettle ==
  ASSUME BilledInv, Safe', Agreed', NEW S \in SUBSET Service, NEW current \in [Service -> Nat],
         Charge(S, current), meter' = Metered(S, current),
         UNCHANGED <<usageVars, policyVars>>,
         mode # "payg" => S = {} /\ mode' = mode,
         \/ mode' = mode
         \/ S = {s \in Service : state[s] # "none"} /\ current = Current
  PROVE  InBalance'
<1> SUFFICES ASSUME NEW s \in Service
             PROVE  Gb * charged'[s] + meter'[s].remainder + Unbilled(s)' = due'[s]
  BY DEF InBalance
<1>1. /\ meter'[s].checkpoint = IF s \in S /\ current[s] > meter[s].checkpoint
                                THEN current[s] ELSE meter[s].checkpoint
      /\ Gb * charged'[s] + meter'[s].remainder = Gb * charged[s] + meter[s].remainder
            + (meter'[s].checkpoint - meter[s].checkpoint) * RateFor(s)
  BY SettledExact, RateAgrees DEF BilledInv, Safe
<1>2. Lifetime(s)' = Lifetime(s) /\ RateFor(s)' = RateFor(s) /\ due' = due
  BY DEF Lifetime, RateFor, usageVars, policyVars
<1>3. Lifetime(s) \in Nat /\ RateFor(s) \in Nat /\ due[s] \in Nat
      /\ meter[s].checkpoint \in Nat /\ meter[s].checkpoint <= Lifetime(s)
      /\ (state[s] = "none" => Lifetime(s) = 0)
  BY Values DEF BilledInv, Safe, TypeOK, Metering
<1>4. CASE mode # "payg"
  <2>1. charged' = charged /\ meter'[s] = meter[s]
    BY <1>4 DEF Charge, Metered, BilledInv, Safe, TypeOK
  <2> QED BY <1>2, <1>4, <2>1, VolumeBalanced
<1>5. CASE mode = "payg"
  <2>1. due'[s] = due[s] + (Lifetime(s)' - Lifetime(s)) * RateFor(s)
    <3> DEFINE L == Lifetime(s)
               R == RateFor(s)
    <3>1. L \in Nat /\ R \in Nat /\ due[s] \in Nat
      BY <1>3
    <3> HIDE DEF L, R
    <3>2. due[s] = due[s] + (L - L) * R
      BY <3>1
    <3> QED BY <1>2, <3>2 DEF L, R
  <2>2. CASE mode' = mode
    BY <1>1, <1>2, <1>5, <2>1, <2>2, Balanced
  <2>3. CASE S = {y \in Service : state[y] # "none"} /\ current = Current
    <3> DEFINE L == Lifetime(s)
               c == meter[s].checkpoint
               cc == meter'[s].checkpoint
    <3>1. /\ cc = IF s \in S /\ Current[s] > c THEN Current[s] ELSE c
          /\ Current[s] = L
          /\ s \in S \/ state[s] = "none"
      BY <1>1, <2>3 DEF Current
    <3>2. L \in Nat /\ c \in Nat /\ c <= L /\ (state[s] = "none" => L = 0)
      BY <1>3
    <3> HIDE DEF L, c, cc
    <3>3. cc = L
      BY <3>1, <3>2
    <3>4. meter'[s].checkpoint = Lifetime(s)'
      BY <3>3, <1>2 DEF L, cc
    <3> QED BY <1>1, <1>5, <2>1, <3>4, Balanced
  <2> QED BY <2>2, <2>3
<1> QED BY <1>4, <1>5

\* Deletion charges what it settles at the old rate.
LEMMA BilledDelete ==
  ASSUME BilledInv, Safe', Agreed', NEW s \in Service, Delete(s) PROVE InBalance'
<1> PICK old \in 0 .. Lifetime(s), S \in {Settled(Service), {}} :
         /\ meter' = Metered(S, [Current EXCEPT ![s] = old])
         /\ Debit(S, [Current EXCEPT ![s] = old])
  BY DEF Delete
<1>1. Lifetime(s) \in Nat
  BY Values DEF BilledInv, Safe
<1>2. [Current EXCEPT ![s] = old] \in [Service -> Nat]
  BY <1>1, CurrentType DEF BilledInv, Safe
<1>3. S \in SUBSET Service
  BY SettledSubset
<1>4. mode # "payg" => S = {}
  BY DEF Settled
<1>5. UNCHANGED <<usageVars, policyVars>> /\ mode' = mode
  BY DEF Delete
<1> QED BY <1>2, <1>3, <1>4, <1>5, BilledSettle DEF Debit

\* The scheduled settlement charges what it settles at the old rate.
LEMMA BilledCycle ==
  ASSUME BilledInv, Safe', Agreed', NEW Up \in SUBSET Server, Cycle(Up) PROVE InBalance'
<1> DEFINE S == Settled({s \in Service : Home[s] \in Up})
<1>1. /\ mode = "payg" /\ mode' = mode /\ UNCHANGED <<usageVars, policyVars>>
      /\ Debit(S, Current) /\ meter' = Metered(S, Current)
  BY DEF Cycle
<1>2. S \in SUBSET Service
  BY SettledSubset
<1>3. Current \in [Service -> Nat]
  BY CurrentType DEF BilledInv, Safe
<1> HIDE DEF S
<1> QED BY <1>1, <1>2, <1>3, BilledSettle DEF Debit

\* The last settlement before volume billing leaves nothing unbilled.
LEMMA BilledToVolume ==
  ASSUME BilledInv, Safe', Agreed', SwitchToVolume PROVE InBalance'
<1> DEFINE S == Settled(Service)
<1>1. /\ mode = "payg" /\ UNCHANGED <<usageVars, policyVars>>
      /\ Debit(S, Current) /\ meter' = Metered(S, Current)
  BY DEF SwitchToVolume
<1>2. S \in SUBSET Service /\ S = {s \in Service : state[s] # "none"}
  BY <1>1, SettledSubset DEF Settled
<1>3. Current \in [Service -> Nat]
  BY CurrentType DEF BilledInv, Safe
<1> HIDE DEF S
<1> QED BY <1>1, <1>2, <1>3, BilledSettle DEF Debit

\* PAYG starts with nothing to bill.
LEMMA BilledToPayg ==
  ASSUME BilledInv, Safe', Agreed', SwitchToPayg PROVE InBalance'
<1> SUFFICES ASSUME NEW s \in Service
             PROVE  Gb * charged'[s] + meter'[s].remainder + Unbilled(s)' = due'[s]
  BY DEF InBalance
<1>1. /\ mode # "payg" /\ charged' = charged /\ due' = due
      /\ Lifetime(s)' = Lifetime(s)
  BY DEF SwitchToPayg, billVars, usageVars, Lifetime
<1>2. meter[s] \in MeterType /\ Lifetime(s) \in Nat
  BY Values DEF BilledInv, Safe, TypeOK, MeterType
<1>3. meter'[s] = IF state[s] = "none" THEN meter[s]
                  ELSE [[meter[s] EXCEPT !.rate = BillRate(s)]
                           EXCEPT !.checkpoint = Lifetime(s)]
  BY DEF SwitchToPayg, Opened
<1>4. meter'[s].remainder = meter[s].remainder /\ meter'[s].checkpoint = Lifetime(s)
  <2>1. CASE state[s] = "none"
    <3>1. meter[s].checkpoint \in Nat /\ meter[s].checkpoint <= Lifetime(s)
          /\ Lifetime(s) = 0
      BY <2>1, <1>2 DEF BilledInv, Safe, Metering, MeterType
    <3> QED BY <3>1, <2>1, <1>3
  <2>2. CASE state[s] # "none"
    BY <2>2, <1>2, <1>3 DEF MeterType
  <2> QED BY <2>1, <2>2
<1> QED BY <1>1, <1>4, VolumeBalanced

\* A settlement of everything, with the usage just recorded, leaves nothing
\* unbilled: the rate is free to change.
LEMMA BilledFull ==
  ASSUME BilledInv, Safe', Agreed', NEW current \in [Service -> Nat], Charge(Settled(Service), current),
         mode' = mode,
         NEW s \in Service,
         current[s] = Lifetime(s)', Lifetime(s)' >= Lifetime(s),
         state[s] = "none" => Lifetime(s)' = 0,
         mode = "payg" => due'[s] = due[s] + (Lifetime(s)' - Lifetime(s)) * RateFor(s),
         mode # "payg" => due'[s] = due[s],
         meter'[s].checkpoint = Metered(Settled(Service), current)[s].checkpoint,
         meter'[s].remainder = Metered(Settled(Service), current)[s].remainder
  PROVE  Gb * charged'[s] + meter'[s].remainder + Unbilled(s)' = due'[s]
<1> DEFINE S == Settled(Service)
           M == Metered(S, current)[s]
<1>1. S \in SUBSET Service
  BY SettledSubset
<1>2. CASE mode # "payg"
  <2>1. S = {}
    BY <1>2 DEF Settled
  <2>2. charged'[s] = charged[s] /\ M = meter[s]
    BY <2>1 DEF Charge, Metered
  <2> QED BY <2>2, <1>2, VolumeBalanced
<1>3. CASE mode = "payg"
  <2>1. S = {y \in Service : state[y] # "none"}
    BY <1>3 DEF Settled
  <2> HIDE DEF S
  <2>2. /\ M.checkpoint = IF s \in S /\ current[s] > meter[s].checkpoint
                          THEN current[s] ELSE meter[s].checkpoint
        /\ Gb * charged'[s] + M.remainder = Gb * charged[s] + meter[s].remainder
              + (M.checkpoint - meter[s].checkpoint) * RateFor(s)
    BY <1>1, SettledExact, RateAgrees DEF S, BilledInv, Safe
  <2>3. meter'[s].checkpoint = Lifetime(s)'
    <3> DEFINE LL == Lifetime(s)'
               L == Lifetime(s)
               c == meter[s].checkpoint
               cc == meter'[s].checkpoint
    <3>1. /\ c \in Nat /\ L \in Nat /\ c <= L
      BY Values DEF BilledInv, Safe, TypeOK, Metering
    <3>2. LL = current[s] /\ current[s] \in Nat /\ LL >= L
      OBVIOUS
    <3>3. cc = IF s \in S /\ current[s] > c THEN current[s] ELSE c
      BY <2>2 DEF S
    <3>4. s \in S \/ LL = 0
      BY <2>1
    <3> HIDE DEF LL, L, c, cc
    <3>5. cc = LL
      BY <3>1, <3>2, <3>3, <3>4
    <3> QED BY <3>5 DEF cc, LL
  <2> QED BY <1>3, <2>2, <2>3, Balanced DEF S
<1> QED BY <1>2, <1>3

\* A tariff edit settles every service whose rate it changes.
LEMMA BilledPolicy ==
  ASSUME BilledInv, Safe', Agreed', NEW sv \in Server, NEW rate \in Rates, UpdatePolicy(sv, rate),
         \A s \in Service : Home[s] \in Assigned
  PROVE  InBalance'
<1> DEFINE S == IF Concerned(sv) THEN Settled(Service) ELSE {}
           new == IF ownRate > 0 THEN ownRate ELSE rate
<1>1. S \in SUBSET Service
  BY SettledSubset
<1>2. /\ Charge(S, Current)
      /\ tariff' = [tariff EXCEPT ![sv] = rate]
      /\ meter' = [s \in Service |-> IF Home[s] = sv
                      THEN Repriced(Metered(S, Current)[s], new)
                      ELSE Metered(S, Current)[s]]
      /\ UNCHANGED <<usageVars, mode, ownRate>>
  BY DEF UpdatePolicy, Debit
<1>3. new \in Rates
  <2>1. ownRate > 0 => ownRate \in Rates
    BY DEF BilledInv, Safe, TypeOK
  <2> QED BY <2>1
<1>4. Current \in [Service -> Nat]
  BY CurrentType DEF BilledInv, Safe
<1> HIDE DEF new
<1> SUFFICES ASSUME NEW s \in Service
             PROVE  Gb * charged'[s] + meter'[s].remainder + Unbilled(s)' = due'[s]
  BY DEF InBalance
<1>5. /\ Lifetime(s)' = Lifetime(s) /\ Lifetime(s) \in Nat /\ Current[s] = Lifetime(s)
      /\ due'[s] = due[s]
  BY <1>2, Values DEF Lifetime, usageVars, Current, BilledInv, Safe
<1>6. /\ meter'[s].checkpoint = Metered(S, Current)[s].checkpoint
      /\ meter'[s].remainder = Metered(S, Current)[s].remainder
  <2>1. Metered(S, Current)[s] \in MeterType
    BY <1>1, <1>2, <1>4, SettledExact DEF BilledInv
  <2> HIDE DEF S
  <2>2. LET M == Metered(S, Current)[s] IN
        /\ Repriced(M, new).checkpoint = M.checkpoint
        /\ Repriced(M, new).remainder = M.remainder
    BY <1>3, <2>1, RepricedIs
  <2> QED BY <1>2, <2>2
<1>7. due'[s] = due[s] + (Lifetime(s)' - Lifetime(s)) * RateFor(s)
  <2> DEFINE L == Lifetime(s)
             R == RateFor(s)
  <2>1. L \in Nat /\ R \in Nat /\ due[s] \in Nat /\ Lifetime(s)' = L
    BY <1>5, Values DEF BilledInv, Safe, TypeOK
  <2> HIDE DEF L, R
  <2>2. due[s] = due[s] + (L - L) * R
    BY <2>1
  <2> QED BY <2>1, <2>2, <1>5 DEF L, R
<1>8. CASE Concerned(sv)
  <2>1. S = Settled(Service)
    BY <1>8
  <2>2. state[s] = "none" => Lifetime(s)' = 0
    BY <1>5 DEF BilledInv, Safe, Metering
  <2>3. Lifetime(s)' >= Lifetime(s)
    BY <1>5
  <2> HIDE DEF S
  <2> QED BY <1>2, <1>4, <1>5, <1>6, <1>7, <2>1, <2>2, <2>3, BilledFull
<1>9. CASE ~Concerned(sv)
  <2>1. S = {} /\ Home[s] # sv
    BY <1>9 DEF Concerned
  <2>2. charged'[s] = charged[s] /\ meter'[s] = meter[s] /\ mode' = mode
    BY <1>2, <2>1 DEF Charge, Metered
  <2>3. RateFor(s)' = RateFor(s)
    BY <1>2, <2>1, LedgerAssumption DEF RateFor, BilledInv, Safe, TypeOK
  <2>4. CASE mode # "payg"
    BY <2>2, <2>4, <1>5, VolumeBalanced
  <2>5. CASE mode = "payg"
    <3> DEFINE X == Gb * charged[s] + meter[s].remainder
               c == meter[s].checkpoint
               R == RateFor(s)
    <3>1. /\ charged[s] \in Nat /\ meter[s].remainder \in Nat /\ c \in Nat
          /\ Gb \in Nat /\ R \in Nat
      BY Values, LedgerAssumption DEF BilledInv, Safe, TypeOK
    <3>2. X \in Nat
      BY <3>1, Product
    <3> HIDE DEF X, c, R
    <3>3. X = X + (c - c) * R
      BY <3>1, <3>2
    <3> QED BY <2>2, <2>3, <2>5, <1>7, <3>3, Balanced DEF X, c, R
  <2> QED BY <2>4, <2>5
<1> QED BY <1>8, <1>9

\* The account's own rate comes after the panels were read and the whole
\* account was settled.
LEMMA BilledRates ==
  ASSUME BilledInv, Safe', Agreed', NEW rate \in Rates, SaveRates(rate) PROVE InBalance'
<1> DEFINE live == {s \in Service : Live(s)}
           current == Reached(live, counter)
<1>1. /\ RecordUsage(live, counter) /\ Charge(Settled(Service), current)
      /\ meter' = [s \in Service |->
                      Repriced(Metered(Settled(Service), current)[s], rate)]
      /\ mode' = mode
  BY DEF SaveRates, Debit
<1>2. /\ live \in SUBSET Service /\ counter \in [Service -> Nat] /\ TypeOK
      /\ \A s \in live : state[s] # "none"
  BY DEF BilledInv, Safe, TypeOK, Live
<1> HIDE DEF live
<1>3. \A s \in Service : /\ current[s] = Lifetime(s)' /\ current[s] \in Nat
                         /\ Lifetime(s)' >= Lifetime(s)
                         /\ state[s] = "none" => Lifetime(s)' = 0
  BY <1>1, <1>2, ReachedIs DEF BilledInv
<1>4. current \in [Service -> Nat]
  BY <1>3 DEF Reached
<1> SUFFICES ASSUME NEW s \in Service
             PROVE  Gb * charged'[s] + meter'[s].remainder + Unbilled(s)' = due'[s]
  BY DEF InBalance
<1>5. /\ Growth(s, counter[s]) \in Nat
      /\ Lifetime(s)' = IF s \in live THEN Lifetime(s) + Growth(s, counter[s])
                        ELSE Lifetime(s)
      /\ due'[s] = IF s \in live /\ mode = "payg"
                   THEN due[s] + Growth(s, counter[s]) * RateFor(s) ELSE due[s]
  BY <1>1, <1>2, Recorded
<1> HIDE DEF current
<1>6. mode = "payg" => due'[s] = due[s] + (Lifetime(s)' - Lifetime(s)) * RateFor(s)
  <2> DEFINE g == Growth(s, counter[s])
             L == Lifetime(s)
             LL == Lifetime(s)'
             R == RateFor(s)
  <2>1. L \in Nat /\ R \in Nat /\ g \in Nat /\ due[s] \in Nat
    BY <1>2, <1>5, Values DEF TypeOK
  <2>2. /\ LL = IF s \in live THEN L + g ELSE L
        /\ mode = "payg" => due'[s] = IF s \in live THEN due[s] + g * R ELSE due[s]
    BY <1>5
  <2> HIDE DEF g, L, LL, R
  <2>3. mode = "payg" => due'[s] = due[s] + (LL - L) * R
    BY <2>1, <2>2
  <2> QED BY <2>3 DEF L, LL, R
<1>7. mode # "payg" => due'[s] = due[s]
  BY <1>5
<1>8. /\ meter'[s].checkpoint = Metered(Settled(Service), current)[s].checkpoint
      /\ meter'[s].remainder = Metered(Settled(Service), current)[s].remainder
  <2>1. Metered(Settled(Service), current)[s] \in MeterType
    BY <1>1, <1>4, SettledSubset, SettledExact DEF BilledInv
  <2>2. LET M == Metered(Settled(Service), current)[s] IN
        /\ Repriced(M, rate).checkpoint = M.checkpoint
        /\ Repriced(M, rate).remainder = M.remainder
    BY <2>1, RepricedIs
  <2> QED BY <1>1, <2>2
<1> QED BY <1>1, <1>3, <1>4, <1>6, <1>7, <1>8, BilledFull

\* A live view of the account as it is charges what it settles, and what it
\* records falls due.
LEMMA BilledLive ==
  ASSUME BilledInv, Safe', Agreed', NEW v \in Viewer, LiveSettle(v), "mode" \notin lapses'
  PROVE  InBalance'
<1> DEFINE listed == copy[v].listed
<1>1. PICK S \in SUBSET Service, current, reading \in [Service -> Nat] :
             /\ listed \in SUBSET Service /\ RecordUsage(listed, reading)
             /\ Charge(S, current) /\ meter' = Metered(S, current)
             /\ S = {} \/ mode = "payg"
  BY LiveIs DEF BilledInv
<1>2. mode' = mode /\ UNCHANGED policyVars /\ TypeOK
  BY DEF LiveSettle, BilledInv, Safe
<1> HIDE DEF listed
<1> SUFFICES ASSUME NEW s \in Service
             PROVE  Gb * charged'[s] + meter'[s].remainder + Unbilled(s)' = due'[s]
  BY DEF InBalance
<1>3. /\ Growth(s, reading[s]) \in Nat
      /\ Lifetime(s)' = IF s \in listed THEN Lifetime(s) + Growth(s, reading[s])
                        ELSE Lifetime(s)
      /\ due'[s] = IF s \in listed /\ mode = "payg"
                   THEN due[s] + Growth(s, reading[s]) * RateFor(s) ELSE due[s]
  BY <1>1, <1>2, Recorded
<1>4. CASE mode # "payg"
  <2>1. charged'[s] = charged[s] /\ meter'[s] = meter[s]
    BY <1>1, <1>4 DEF Charge, Metered
  <2> QED BY <1>2, <1>3, <1>4, <2>1, VolumeBalanced
<1>5. CASE mode = "payg"
  <2>1. Gb * charged'[s] + meter'[s].remainder = Gb * charged[s] + meter[s].remainder
             + (meter'[s].checkpoint - meter[s].checkpoint) * RateFor(s)
    <3>1. Safe /\ BillRate(s) = RateFor(s)
      BY RateAgrees DEF BilledInv, Safe
    <3> DEFINE M == Metered(S, current)[s]
    <3>2. Gb * charged'[s] + M.remainder = Gb * charged[s] + meter[s].remainder
             + (M.checkpoint - meter[s].checkpoint) * BillRate(s)
      <4>1. Charge(S, current)
        BY <1>1
      <4> QED BY <3>1, <4>1, SettledExact
    <3>3. meter'[s] = M
      BY <1>1
    <3> HIDE DEF M
    <3> QED BY <3>1, <3>2, <3>3
  <2>2. due'[s] = due[s] + (Lifetime(s)' - Lifetime(s)) * RateFor(s)
    <3> DEFINE g == Growth(s, reading[s])
               L == Lifetime(s)
               LL == Lifetime(s)'
               R == RateFor(s)
    <3>1. L \in Nat /\ R \in Nat /\ g \in Nat /\ due[s] \in Nat
      BY <1>2, <1>3, Values DEF TypeOK
    <3>2. /\ LL = IF s \in listed THEN L + g ELSE L
          /\ due'[s] = IF s \in listed THEN due[s] + g * R ELSE due[s]
      BY <1>3, <1>5
    <3> HIDE DEF g, L, LL, R
    <3>3. due'[s] = due[s] + (LL - L) * R
      BY <3>1, <3>2
    <3> QED BY <3>3 DEF L, LL, R
  <2>3. RateFor(s)' = RateFor(s)
    BY <1>2 DEF RateFor, policyVars
  <2> QED BY <1>2, <1>5, <2>1, <2>2, <2>3, Balanced
<1> QED BY <1>4, <1>5

\* The rate of a meter after a settlement is one it had or the one in force.
LEMMA MeteredRate ==
  ASSUME Safe, NEW S, NEW current, NEW s \in Service
  PROVE  Metered(S, current)[s].rate \in {meter[s].rate, BillRate(s), RateFor(s)}
<1>1. meter[s] \in MeterType
  BY DEF Safe, TypeOK, MeterType
<1> QED BY <1>1 DEF Metered, MeterAfter, Opened, MeterType

\* Only a join lets the meters fall out of step with the rate in force.
LEMMA AgreedStep ==
  ASSUME Safe, Agreed, Safe', [Next]_vars, "rate" \notin lapses' PROVE Agreed'
<1>1. ASSUME UNCHANGED <<meter, policyVars>> PROVE Agreed'
  BY <1>1 DEF Agreed, RateFor, policyVars
<1>2. ASSUME NEW S, NEW current, NEW s \in Service
      PROVE  Metered(S, current)[s].rate \in {0, RateFor(s)}
  BY <1>2, MeteredRate, RateAgrees DEF Safe, Agreed
<1>3. ASSUME NEW S, NEW current, meter' = Metered(S, current), UNCHANGED policyVars
      PROVE  Agreed'
  BY <1>2, <1>3 DEF Agreed, RateFor, policyVars
<1>4. CASE UNCHANGED vars
  BY <1>1, <1>4 DEF vars
<1>5. CASE \E s \in Service : ServiceStep(s)
  <2> PICK s \in Service : ServiceStep(s)
    BY <1>5
  <2>1. CASE Delete(s)
    BY <1>3, <2>1 DEF Delete
  <2>2. CASE Consume(s) \/ ResetCounter(s) \/ Create(s) \/ Disable(s) \/ Enable(s)
    BY <1>1, <2>2 DEF Consume, ResetCounter, Create, Disable, Enable, SetState
  <2> QED BY <2>1, <2>2 DEF ServiceStep
<1>6. CASE \E r \in Reader : Record(r) \/ \E s \in Service : ReadPanel(r, s)
  BY <1>1, <1>6 DEF Record, ReadPanel
<1>7. CASE (\E Up \in SUBSET Server : Cycle(Up)) \/ SwitchToVolume
  BY <1>3, <1>7 DEF Cycle, SwitchToVolume
<1>8. CASE SwitchToPayg
  <2>1. ASSUME NEW s \in Service PROVE meter'[s].rate \in {0, RateFor(s)}
    <3>1. meter[s] \in MeterType /\ BillRate(s) = RateFor(s)
      BY RateAgrees DEF Safe, TypeOK, MeterType
    <3>2. meter'[s] = IF state[s] = "none" THEN meter[s]
                      ELSE [[meter[s] EXCEPT !.rate = BillRate(s)]
                               EXCEPT !.checkpoint = Lifetime(s)]
      BY <1>8 DEF SwitchToPayg, Opened
    <3>3. meter'[s].rate = meter[s].rate \/ meter'[s].rate = BillRate(s)
      BY <3>1, <3>2 DEF MeterType
    <3> QED BY <3>1, <3>3 DEF Agreed
  <2> QED BY <1>8, <2>1 DEF SwitchToPayg, Agreed, RateFor, policyVars
<1>9. CASE \E rate \in Rates, sv \in Server : UpdatePolicy(sv, rate)
  <2> PICK rate \in Rates, sv \in Server : UpdatePolicy(sv, rate)
    BY <1>9
  <2> DEFINE S == IF Concerned(sv) THEN Settled(Service) ELSE {}
             new == IF ownRate > 0 THEN ownRate ELSE rate
  <2>1. /\ Charge(S, Current) /\ tariff' = [tariff EXCEPT ![sv] = rate] /\ ownRate' = ownRate
        /\ meter' = [s \in Service |-> IF Home[s] = sv
                        THEN Repriced(Metered(S, Current)[s], new)
                        ELSE Metered(S, Current)[s]]
    BY DEF UpdatePolicy, Debit
  <2>2. S \in SUBSET Service /\ Current \in [Service -> Nat]
    BY SettledSubset, CurrentType DEF Safe
  <2>3. new \in Rates
    <3>1. ownRate > 0 => ownRate \in Rates
      BY DEF Safe, TypeOK
    <3> QED BY <3>1
  <2>4. \A s \in Service : RateFor(s)' = IF Home[s] = sv THEN new ELSE RateFor(s)
    BY <2>1, LedgerAssumption DEF RateFor, Safe, TypeOK
  <2>5. \A s \in Service : Metered(S, Current)[s] \in MeterType
    BY <2>1, <2>2, SettledExact
  <2> HIDE DEF new, S
  <2>6. ASSUME NEW s \in Service PROVE meter'[s].rate \in {0, RateFor(s)'}
    <3>1. Repriced(Metered(S, Current)[s], new).rate \in {0, new}
      BY <2>3, <2>5, RepricedIs
    <3>2. Metered(S, Current)[s].rate \in {0, RateFor(s)}
      BY <1>2
    <3> QED BY <2>1, <2>4, <3>1, <3>2
  <2> QED BY <2>6 DEF Agreed
<1>10. CASE \E rate \in Rates : SaveRates(rate)
  <2> PICK rate \in Rates : SaveRates(rate)
    BY <1>10
  <2> DEFINE live == {s \in Service : Live(s)}
             current == Reached(live, counter)
  <2>1. /\ RecordUsage(live, counter) /\ Charge(Settled(Service), current)
        /\ meter' = [s \in Service |-> Repriced(Metered(Settled(Service), current)[s], rate)]
        /\ ownRate' = rate
    BY DEF SaveRates, Debit
  <2>2. live \in SUBSET Service /\ counter \in [Service -> Nat] /\ \A s \in live : state[s] # "none"
    BY DEF Safe, TypeOK, Live
  <2> HIDE DEF live
  <2>3. current \in [Service -> Nat]
    BY <2>1, <2>2, ReachedIs DEF Reached
  <2> HIDE DEF current
  <2>4. rate > 0 /\ \A s \in Service : RateFor(s)' = rate
    <3>1. rate > 0
      BY LedgerAssumption
    <3> QED BY <3>1, <2>1 DEF RateFor
  <2>5. \A s \in Service : Metered(Settled(Service), current)[s] \in MeterType
    BY <2>1, <2>3, SettledSubset, SettledExact
  <2>6. ASSUME NEW s \in Service PROVE meter'[s].rate \in {0, RateFor(s)'}
    BY <2>1, <2>4, <2>5, RepricedIs
  <2> QED BY <2>6 DEF Agreed
<1>11. CASE \/ \E k \in Transfer : CreditTransfer(k)
            \/ \E k \in Receipt : SubmitReceipt(k) \/ \E b \in BOOLEAN : ReviewReceipt(k, b)
  BY <1>1, <1>11 DEF CreditTransfer, SubmitReceipt, ReviewReceipt
<1>12. CASE \E x \in Session : Load(x)
  BY <1>1, <1>12 DEF Load
<1>13. CASE \E v \in Viewer : ViewPanel(v) \/ LiveSettle(v)
  <2> PICK v \in Viewer : ViewPanel(v) \/ LiveSettle(v)
    BY <1>13
  <2>1. CASE ViewPanel(v)
    BY <1>1, <2>1 DEF ViewPanel
  <2>2. CASE LiveSettle(v)
    <3>1. \E S, current : meter' = Metered(S, current)
      BY <2>2, LiveIs
    <3>2. UNCHANGED policyVars
      BY <2>2 DEF LiveSettle
    <3> QED BY <1>3, <3>1, <3>2
  <2> QED BY <2>1, <2>2
<1>14. CASE \E k \in Unlocked : CreditUnlocked(k)
  <2>1. UNCHANGED <<meter, policyVars>>
    BY <1>14 DEF CreditUnlocked, policyVars
  <2> QED BY <1>1, <2>1
<1> QED BY <1>4, <1>5, <1>6, <1>7, <1>8, <1>9, <1>10, <1>11, <1>12, <1>13, <1>14 DEF Next

\* What is on record about a session stays there.
LEMMA LapsesGrow == [Next]_vars => lapses \subseteq lapses'
<1> SUFFICES ASSUME [Next]_vars PROVE lapses \subseteq lapses'
  OBVIOUS
<1>1. CASE UNCHANGED sessionVars
  BY <1>1 DEF sessionVars
<1>2. CASE (\E x \in Session : Load(x)) \/ (\E v \in Viewer : ViewPanel(v))
  BY <1>2 DEF Load, ViewPanel
<1>3. CASE \E v \in Viewer : LiveSettle(v)
  BY <1>3 DEF LiveSettle
<1>4. CASE \E k \in Unlocked : CreditUnlocked(k)
  BY <1>4 DEF CreditUnlocked
<1> QED BY <1>1, <1>2, <1>3, <1>4
        DEF Next, ServiceStep, Consume, ResetCounter, Create, Disable, Enable, SetState, Delete,
            ReadPanel, Record, Cycle, SwitchToVolume, SwitchToPayg, UpdatePolicy, SaveRates,
            CreditTransfer, SubmitReceipt, ReviewReceipt, vars

\* Every step keeps the books balanced when every config is on an assigned
\* server.
LEMMA BilledStep ==
  ASSUME \A s \in Service : Home[s] \in Assigned
  PROVE  IInv /\ [Next]_vars => IInv'
<1>0. IInv /\ [Next]_vars => Safe' /\ (NoLapse' => NoLapse)
  BY SafeStep, LapsesGrow DEF IInv, NoLapse
<1> SUFFICES ASSUME BilledInv, [Next]_vars, Safe', NoLapse' PROVE Agreed' /\ InBalance'
  BY <1>0 DEF BilledInv, IInv
<1>a. Agreed'
  BY AgreedStep DEF BilledInv, NoLapse
<1>1. CASE UNCHANGED vars
  BY <1>a, <1>1, BilledFrame DEF BilledInv, vars, usageVars, billVars
<1>2. CASE \E s \in Service : ServiceStep(s)
  <2> PICK s \in Service : ServiceStep(s)
    BY <1>2
  <2>1. CASE Delete(s)
    BY <1>a, <2>1, BilledDelete
  <2>2. CASE Consume(s) \/ ResetCounter(s) \/ Create(s) \/ Disable(s) \/ Enable(s)
    BY <1>a, <2>2, BilledFrame DEF BilledInv, Consume, ResetCounter, Create, Disable, Enable,
       SetState, usageVars, billVars
  <2> QED BY <2>1, <2>2 DEF ServiceStep
<1>3. CASE \E r \in Reader : Record(r) \/ \E s \in Service : ReadPanel(r, s)
  <2> PICK r \in Reader : Record(r) \/ \E s \in Service : ReadPanel(r, s)
    BY <1>3
  <2>1. CASE Record(r)
    BY <1>a, <2>1, BilledRecord
  <2>2. CASE \E s \in Service : ReadPanel(r, s)
    BY <1>a, <2>2, BilledFrame DEF BilledInv, ReadPanel, usageVars, billVars
  <2> QED BY <2>1, <2>2
<1>4. CASE \E Up \in SUBSET Server : Cycle(Up)
  BY <1>a, <1>4, BilledCycle
<1>5. CASE SwitchToVolume
  BY <1>a, <1>5, BilledToVolume
<1>6. CASE SwitchToPayg
  BY <1>a, <1>6, BilledToPayg
<1>7. CASE \E rate \in Rates :
             SaveRates(rate) \/ \E sv \in Server : UpdatePolicy(sv, rate)
  BY <1>a, <1>7, BilledRates, BilledPolicy
<1>8. CASE \/ \E k \in Transfer : CreditTransfer(k)
           \/ \E k \in Receipt : SubmitReceipt(k) \/ \E b \in BOOLEAN : ReviewReceipt(k, b)
  BY <1>a, <1>8, BilledFrame DEF BilledInv, CreditTransfer, SubmitReceipt, ReviewReceipt,
     usageVars, billVars
<1>9. CASE \E x \in Session : Load(x)
  BY <1>a, <1>9, BilledFrame DEF BilledInv, Load, usageVars, billVars
<1>10. CASE \E v \in Viewer : ViewPanel(v)
  BY <1>a, <1>10, BilledFrame DEF BilledInv, ViewPanel, usageVars, billVars
<1>11. CASE \E v \in Viewer : LiveSettle(v)
  BY <1>a, <1>11, BilledLive DEF NoLapse
<1>12. CASE \E k \in Unlocked : CreditUnlocked(k)
  <2>1. UNCHANGED <<life, used, due, policyVars, meter, charged, mode>>
    BY <1>12 DEF CreditUnlocked, NoLapse, policyVars, usageVars
  <2> QED BY <1>a, <2>1, BilledFrame DEF BilledInv
<1> QED BY <1>a, <1>1, <1>2, <1>3, <1>4, <1>5, <1>6, <1>7, <1>8, <1>9, <1>10, <1>11, <1>12
        DEF Next

\* The books balance at the start.
LEMMA BilledInit == Init => Agreed /\ InBalance
<1>0. Init => Agreed
  BY DEF Init, Agreed
<1> SUFFICES ASSUME Init, NEW s \in Service
             PROVE  Gb * charged[s] + meter[s].remainder + Unbilled(s) = due[s]
  BY <1>0 DEF InBalance
<1>1. /\ charged[s] = 0 /\ due[s] = 0 /\ meter[s].remainder = 0
      /\ meter[s].checkpoint = 0 /\ Lifetime(s) = 0
  BY DEF Init, Lifetime, Larger
<1>2. Safe
  BY SafeInit
<1>3. BillRate(s) = RateFor(s) /\ RateFor(s) \in Nat
  BY <1>0, <1>2, RateAgrees, Values DEF Safe
<1>4. Unbilled(s) = 0
  BY <1>1, <1>3 DEF Unbilled
<1>5. Gb * 0 = 0
  BY LedgerAssumption
<1> QED BY <1>1, <1>4, <1>5

(***************************************************************************)
(* The wallet is the opening balance, the credits and the debits.          *)
(***************************************************************************)
\* A receipt is approved exactly when its event key is credited.
CreditsMatch == \A k \in Receipt : k \in creditKeys <=> receipt[k] = "approved"

BooksInv == Safe /\ CreditsMatch /\ BooksBalance
WalletInv == Safe /\ CreditsMatch /\ WalletBalances

\* With that, what is credited are the event keys.
LEMMA CreditedKeys ==
  ASSUME TypeOK, CreditsMatch PROVE Credited = creditKeys
  BY DEF TypeOK, CreditsMatch, Credited, Key

\* The sums in the balance are sums of integers over finite sets.
LEMMA BalanceTypes ==
  ASSUME TypeOK, CreditsMatch
  PROVE  /\ SumFunctionOnSet(Amount, Credited) \in Int
         /\ SumFunction(charged) = SumFunctionOnSet(charged, Service)
         /\ SumFunctionOnSet(charged, Service) \in Int
<1>1. /\ IsFiniteSet(Service) /\ IsFiniteSet(Key) /\ Amount \in [Key -> Int]
      /\ Credited \subseteq Key
  BY LedgerAssumption, CreditedKeys DEF TypeOK
<1>2. IsFiniteSet(Credited) /\ \A k \in Credited : Amount[k] \in Int
  BY <1>1, FS_Subset
<1>3. charged \in [Service -> Nat]
  BY DEF TypeOK
<1>4. DOMAIN charged = Service /\ \A s \in Service : charged[s] \in Int
  BY <1>3
<1>5. SumFunction(charged) = SumFunctionOnSet(charged, Service)
  BY <1>4 DEF SumFunction, SumFunctionOnSet
<1> QED BY <1>1, <1>2, <1>4, <1>5, SumType

\* A settlement that takes from the wallet what it charges the services.
LEMMA ChargeBalances ==
  ASSUME BooksInv, Safe', NEW S \in SUBSET Service, NEW current \in [Service -> Nat],
         Charge(S, current), wallet' = wallet - Fees(S, current), UNCHANGED creditVars
  PROVE  BooksBalance'
<1> DEFINE fee == [s \in Service |-> Fee(s, current[s])]
<1>1. Credited' = Credited
  BY DEF Credited, creditVars
<1>2. \A s \in Service : fee[s] \in Int
  BY FeeExact DEF BooksInv
<1>3. /\ \A s \in Service : charged'[s] = IF s \in S THEN charged[s] + fee[s] ELSE charged[s]
      /\ wallet' = wallet - SumFunctionOnSet(fee, S)
  BY DEF Charge, Fees
<1> HIDE DEF fee
<1>4. \A s \in Service : charged[s] \in Int
  BY DEF BooksInv, Safe, TypeOK
<1>5. SumFunctionOnSet(charged', Service)
        = SumFunctionOnSet(charged, Service) + SumFunctionOnSet(fee, S)
  BY <1>2, <1>3, <1>4, SumGrows, LedgerAssumption
<1>6. IsFiniteSet(S) /\ SumFunctionOnSet(fee, S) \in Int
  <2>1. IsFiniteSet(S)
    BY LedgerAssumption, FS_Subset
  <2> QED BY <1>2, <2>1, SumType
<1>7. /\ SumFunctionOnSet(Amount, Credited) \in Int
      /\ SumFunction(charged) = SumFunctionOnSet(charged, Service)
      /\ SumFunctionOnSet(charged, Service) \in Int
  BY BalanceTypes DEF BooksInv, Safe
<1>8. SumFunction(charged') = SumFunctionOnSet(charged', Service)
  <2>1. DOMAIN charged' = Service
    BY DEF Safe, TypeOK
  <2> QED BY <2>1 DEF SumFunction, SumFunctionOnSet
<1>9. Opening \in Int /\ wallet = Opening + SumFunctionOnSet(Amount, Credited)
                                   - SumFunctionOnSet(charged, Service)
  BY <1>7, LedgerAssumption DEF BooksInv, BooksBalance
<1>10. wallet' = Opening + SumFunctionOnSet(Amount, Credited)
                   - SumFunctionOnSet(charged', Service)
  BY <1>3, <1>5, <1>6, <1>7, <1>9
<1> QED BY <1>1, <1>8, <1>10 DEF BooksBalance

\* A credit adds its amount to the wallet, the first time.
LEMMA CreditBalances ==
  ASSUME BooksInv, Safe', CreditsMatch', NEW k \in Key, Credit(k), UNCHANGED charged
  PROVE  BooksBalance'
<1>1. Credited = creditKeys /\ Credited' = creditKeys'
  <2>1. (CreditsMatch /\ creditKeys \subseteq Key)'
    BY DEF Safe, TypeOK
  <2>2. Credited' = creditKeys'
    BY <2>1 DEF CreditsMatch, Credited, Key
  <2> QED BY <2>2, CreditedKeys DEF BooksInv, Safe
<1>2. CASE k \in creditKeys
  BY <1>1, <1>2 DEF BooksInv, BooksBalance, Credit
<1>3. CASE k \notin creditKeys
  <2>1. creditKeys' = creditKeys \cup {k} /\ wallet' = wallet + Amount[k]
    BY <1>3 DEF Credit
  <2>2. /\ IsFiniteSet(creditKeys') /\ \A x \in creditKeys' : Amount[x] \in Int
        /\ k \in creditKeys' /\ creditKeys = creditKeys' \ {k}
    <3>1. creditKeys' \subseteq Key /\ IsFiniteSet(Key) /\ Amount \in [Key -> Int]
      BY LedgerAssumption DEF Safe, TypeOK
    <3> QED BY <1>3, <2>1, <3>1, FS_Subset
  <2>3. SumFunctionOnSet(Amount, creditKeys')
          = Amount[k] + SumFunctionOnSet(Amount, creditKeys)
    BY <2>2, SumRemove
  <2>4. /\ SumFunctionOnSet(Amount, creditKeys) \in Int /\ SumFunction(charged) \in Int
        /\ Opening \in Int /\ Amount[k] \in Int
    BY <1>1, <2>2, BalanceTypes, LedgerAssumption DEF BooksInv, Safe
  <2>5. wallet = Opening + SumFunctionOnSet(Amount, creditKeys) - SumFunction(charged)
    BY <1>1 DEF BooksInv, BooksBalance
  <2>6. wallet' = Opening + SumFunctionOnSet(Amount, creditKeys') - SumFunction(charged')
    BY <2>1, <2>3, <2>4, <2>5
  <2> QED BY <1>1, <2>6 DEF BooksBalance
<1> QED BY <1>2, <1>3

\* What moves neither the wallet nor the credits.
LEMMA BooksFrame ==
  ASSUME BooksInv, UNCHANGED <<wallet, charged, creditVars>>
  PROVE  BooksBalance'
  BY DEF BooksInv, BooksBalance, Credited, creditVars

\* Settling reads usages that are naturals.
LEMMA BooksSettle ==
  ASSUME BooksInv, Safe', (\E s \in Service : Delete(s)) \/ (\E Up \in SUBSET Server : Cycle(Up))
         \/ SwitchToVolume \/ \E rate \in Rates : SaveRates(rate)
                                            \/ \E sv \in Server : UpdatePolicy(sv, rate)
  PROVE  BooksBalance'
<1>1. Current \in [Service -> Nat] /\ Settled(Service) \in SUBSET Service
  BY CurrentType, SettledSubset DEF BooksInv, Safe
<1>2. UNCHANGED creditVars
  BY DEF Delete, Cycle, SwitchToVolume, SaveRates, UpdatePolicy
<1>3. ASSUME NEW S \in SUBSET Service, NEW current \in [Service -> Nat], Debit(S, current)
      PROVE  BooksBalance'
  BY <1>2, <1>3, ChargeBalances DEF Debit
<1>4. CASE \E s \in Service : Delete(s)
  <2> PICK s \in Service : Delete(s)
    BY <1>4
  <2> PICK old \in 0 .. Lifetime(s), S \in {Settled(Service), {}} :
           Debit(S, [Current EXCEPT ![s] = old])
    BY DEF Delete
  <2>1. old \in Nat
    BY Values DEF BooksInv, Safe
  <2>2. [Current EXCEPT ![s] = old] \in [Service -> Nat] /\ S \in SUBSET Service
    BY <1>1, <2>1
  <2> QED BY <1>3, <2>2
<1>5. CASE \E Up \in SUBSET Server : Cycle(Up)
  <2> PICK Up \in SUBSET Server : Cycle(Up)
    BY <1>5
  <2> QED BY <1>1, <1>3, SettledSubset DEF Cycle
<1>6. CASE SwitchToVolume
  BY <1>1, <1>3, <1>6 DEF SwitchToVolume
<1>7. CASE \E rate \in Rates : \E sv \in Server : UpdatePolicy(sv, rate)
  <2> PICK rate \in Rates, sv \in Server : UpdatePolicy(sv, rate)
    BY <1>7
  <2> DEFINE S == IF Concerned(sv) THEN Settled(Service) ELSE {}
  <2>1. S \in SUBSET Service /\ Debit(S, Current)
    BY <1>1 DEF UpdatePolicy
  <2> QED BY <1>1, <1>3, <2>1
<1>8. CASE \E rate \in Rates : SaveRates(rate)
  <2> PICK rate \in Rates : SaveRates(rate)
    BY <1>8
  <2> DEFINE live == {s \in Service : Live(s)}
             current == Reached(live, counter)
  <2>1. RecordUsage(live, counter) /\ Debit(Settled(Service), current)
    BY DEF SaveRates
  <2>2. live \in SUBSET Service /\ counter \in [Service -> Nat] /\ \A s \in live : state[s] # "none"
    BY DEF BooksInv, Safe, TypeOK, Live
  <2> HIDE DEF live
  <2>3. current \in [Service -> Nat]
    BY <2>1, <2>2, ReachedIs DEF Reached, BooksInv
  <2> HIDE DEF current
  <2> QED BY <1>1, <1>3, <2>1, <2>3
<1> QED BY <1>4, <1>5, <1>6, <1>7, <1>8

\* Every step credits exactly the receipts it approves.
LEMMA MatchStep ==
  ASSUME Safe, CreditsMatch, [Next]_vars PROVE CreditsMatch'
<1>1. ASSUME UNCHANGED creditVars PROVE CreditsMatch'
  BY <1>1 DEF CreditsMatch, creditVars
<1>2. receipt \in [Receipt -> {"none", "pending", "approved", "rejected"}]
  BY DEF Safe, TypeOK
<1>3. CASE UNCHANGED vars
  BY <1>1, <1>3 DEF vars
<1>4. CASE (\E s \in Service : ServiceStep(s))
           \/ \E r \in Reader : Record(r) \/ \E s \in Service : ReadPanel(r, s)
  BY <1>1, <1>4 DEF ServiceStep, Consume, ResetCounter, Create, Disable, Enable, SetState,
     Delete, Record, ReadPanel
<1>5. CASE (\E Up \in SUBSET Server : Cycle(Up)) \/ SwitchToVolume \/ SwitchToPayg
           \/ \E rate \in Rates :
                SaveRates(rate) \/ \E sv \in Server : UpdatePolicy(sv, rate)
  BY <1>1, <1>5 DEF Cycle, SwitchToVolume, SwitchToPayg, SaveRates, UpdatePolicy
<1>6. CASE (\E x \in Session : Load(x)) \/ \E v \in Viewer : ViewPanel(v) \/ LiveSettle(v)
  BY <1>1, <1>6 DEF Load, ViewPanel, LiveSettle
<1>7. CASE (\E k \in Transfer : CreditTransfer(k)) \/ \E k \in Unlocked : CreditUnlocked(k)
  <2> PICK k \in Transfer : CreditTransfer(k) \/ CreditUnlocked(k)
    BY <1>7, LedgerAssumption
  <2>1. k \notin Receipt /\ receipt' = receipt
        /\ (creditKeys' = creditKeys \/ creditKeys' = creditKeys \cup {k})
    BY LedgerAssumption DEF CreditTransfer, CreditUnlocked, Credit
  <2> QED BY <2>1 DEF CreditsMatch
<1>8. CASE \E k \in Receipt : SubmitReceipt(k) \/ \E b \in BOOLEAN : ReviewReceipt(k, b)
  <2> PICK k \in Receipt : SubmitReceipt(k) \/ \E b \in BOOLEAN : ReviewReceipt(k, b)
    BY <1>8
  <2>1. CASE SubmitReceipt(k)
    BY <1>2, <2>1 DEF SubmitReceipt, CreditsMatch
  <2>2. ASSUME NEW b \in BOOLEAN, ReviewReceipt(k, b) PROVE CreditsMatch'
    <3>1. /\ receipt[k] = "pending" /\ k \notin creditKeys
          /\ receipt' = [receipt EXCEPT ![k] = IF b THEN "approved" ELSE "rejected"]
          /\ creditKeys' = IF b THEN creditKeys \cup {k} ELSE creditKeys
      BY <2>2 DEF ReviewReceipt, Credit, CreditsMatch
    <3> QED BY <1>2, <3>1 DEF CreditsMatch
  <2> QED BY <2>1, <2>2
<1> QED BY <1>3, <1>4, <1>5, <1>6, <1>7, <1>8 DEF Next

\* Every step moves the wallet by what it debits or credits, unless it writes
\* a balance that it loaded before another one changed it.
LEMMA BooksStep ==
  ASSUME BooksInv, Safe', CreditsMatch', [Next]_vars, "wallet" \notin lapses'
  PROVE  BooksBalance'
<1>1. CASE UNCHANGED vars
  BY <1>1, BooksFrame DEF vars, billVars
<1>2. CASE \E s \in Service : ServiceStep(s) /\ ~Delete(s)
  BY <1>2, BooksFrame DEF ServiceStep, Consume, ResetCounter, Create, Disable, Enable, SetState,
     billVars
<1>3. CASE \E r \in Reader : Record(r) \/ \E s \in Service : ReadPanel(r, s)
  BY <1>3, BooksFrame DEF Record, ReadPanel, billVars
<1>4. CASE \/ \E s \in Service : Delete(s)
           \/ \E Up \in SUBSET Server : Cycle(Up)
           \/ SwitchToVolume
           \/ \E rate \in Rates : SaveRates(rate) \/ \E sv \in Server : UpdatePolicy(sv, rate)
  BY <1>4, BooksSettle
<1>5. CASE SwitchToPayg
  BY <1>5, BooksFrame DEF SwitchToPayg, billVars
<1>6. CASE \E k \in Transfer : CreditTransfer(k)
  BY <1>6, CreditBalances DEF CreditTransfer, Key
<1>7. CASE \E k \in Receipt : SubmitReceipt(k)
  <2> PICK k \in Receipt : SubmitReceipt(k)
    BY <1>7
  <2>1. /\ receipt[k] = "none" /\ receipt' = [receipt EXCEPT ![k] = "pending"]
        /\ UNCHANGED <<wallet, charged, creditKeys>>
    BY DEF SubmitReceipt, billVars
  <2>2. Credited' = Credited
    <3>1. receipt \in [Receipt -> {"none", "pending", "approved", "rejected"}]
      BY DEF BooksInv, Safe, TypeOK
    <3> QED BY <2>1, <3>1 DEF Credited
  <2> QED BY <2>1, <2>2 DEF BooksInv, BooksBalance
<1>8. CASE \E k \in Receipt, b \in BOOLEAN : ReviewReceipt(k, b)
  <2> PICK k \in Receipt, b \in BOOLEAN : ReviewReceipt(k, b)
    BY <1>8
  <2>1. /\ receipt[k] = "pending" /\ k \in Key /\ UNCHANGED charged
        /\ receipt' = [receipt EXCEPT ![k] = IF b THEN "approved" ELSE "rejected"]
        /\ receipt \in [Receipt -> {"none", "pending", "approved", "rejected"}]
    BY DEF ReviewReceipt, BooksInv, Safe, TypeOK, Key
  <2>2. CASE b
    BY <2>1, <2>2, CreditBalances DEF ReviewReceipt
  <2>3. CASE ~b
    <3>1. UNCHANGED <<creditKeys, wallet>>
      BY <2>3 DEF ReviewReceipt
    <3>2. Credited' = Credited
      BY <2>1, <2>3, <3>1 DEF Credited
    <3> QED BY <2>1, <3>1, <3>2 DEF BooksInv, BooksBalance
  <2> QED BY <2>2, <2>3
<1>9. CASE \E x \in Session : Load(x)
  BY <1>9, BooksFrame DEF Load, billVars
<1>10. CASE \E v \in Viewer : ViewPanel(v)
  BY <1>10, BooksFrame DEF ViewPanel, billVars
<1>11. CASE \E v \in Viewer : LiveSettle(v)
  <2> PICK v \in Viewer : LiveSettle(v)
    BY <1>11
  <2>1. UNCHANGED creditVars
    BY DEF LiveSettle
  <2>2. \E S \in SUBSET Service, current \in [Service -> Nat] :
            Charge(S, current) /\ wallet' = wallet - Fees(S, current)
    BY LiveIs DEF BooksInv
  <2> QED BY <2>1, <2>2, ChargeBalances
<1>12. CASE \E k \in Unlocked : CreditUnlocked(k)
  <2> PICK k \in Unlocked : CreditUnlocked(k)
    BY <1>12
  <2>1. k \notin creditKeys /\ creditKeys' = creditKeys \cup {k} /\ charged' = charged
        /\ wallet' = (IF Amount[k] # 0 THEN copy[k].wallet ELSE wallet) + Amount[k]
        /\ (Amount[k] # 0 => copy[k].wallet = wallet)
    BY DEF CreditUnlocked
  <2>2. k \in Key /\ Credit(k)
    BY <2>1, LedgerAssumption DEF Credit, Key
  <2> QED BY <2>1, <2>2, CreditBalances
<1> QED BY <1>1, <1>2, <1>3, <1>4, <1>5, <1>6, <1>7, <1>8, <1>9, <1>10, <1>11, <1>12
        DEF Next, ServiceStep

\* Until the first such write, the books balance.
LEMMA WalletStep == WalletInv /\ [Next]_vars => WalletInv'
<1> SUFFICES ASSUME WalletInv, [Next]_vars PROVE WalletInv'
  OBVIOUS
<1>1. Safe' /\ CreditsMatch'
  BY SafeStep, MatchStep DEF WalletInv
<1>2. ASSUME "wallet" \notin lapses' PROVE BooksBalance'
  <2>1. BooksInv
    BY <1>2, LapsesGrow DEF WalletInv, WalletBalances, BooksInv
  <2> QED BY <1>1, <1>2, <2>1, BooksStep
<1> QED BY <1>1, <1>2 DEF WalletInv, WalletBalances

\* The account starts with its opening balance and nothing on the books.
LEMMA WalletInit == Init => WalletInv
<1> SUFFICES ASSUME Init PROVE BooksBalance /\ CreditsMatch
  BY SafeInit DEF WalletInv, WalletBalances
<1>1. CreditsMatch /\ Credited = {}
  BY DEF Init, CreditsMatch, Credited
<1>2. SumFunction(charged) = 0
  <2> DEFINE zero == [s \in Service |-> 0]
  <2>1. charged = zero /\ DOMAIN zero = Service
    BY DEF Init
  <2>2. SumFunctionOnSet(zero, Service) = SumFunctionOnSet(zero, Service)
                                          + SumFunctionOnSet(zero, Service)
    BY SumGrows, LedgerAssumption
  <2>3. SumFunctionOnSet(zero, Service) \in Int
    BY SumType, LedgerAssumption
  <2>4. SumFunctionOnSet(zero, Service) = 0
    BY <2>2, <2>3
  <2> QED BY <2>1, <2>4 DEF SumFunction, SumFunctionOnSet
<1>3. wallet = Opening /\ Opening \in Int
  BY LedgerAssumption DEF Init
<1> QED BY <1>1, <1>2, <1>3, SumNone DEF BooksBalance

(***************************************************************************)
(* The guard of a reader.                                                  *)
(***************************************************************************)
\* Without resets the records follow the panel's counter, and a reading lies
\* between the record it marks and the counter.
Following ==
    /\ resets = 0
    /\ \A s \in Service : life[s] <= used[s] /\ used[s] <= counter[s] /\ counter[s] = traffic[s]
    /\ \A r \in Reader : /\ reader[r].mark <= reader[r].seen
                         /\ reader[r].svc # NoService => reader[r].seen <= counter[reader[r].svc]

\* Recording readings between the record and the counter keeps it that way.
LEMMA FollowingRecord ==
  ASSUME TypeOK, NEW S \in SUBSET Service, NEW reading \in [Service -> Nat],
         RecordUsage(S, reading), NEW s \in Service, life[s] <= used[s], used[s] <= counter[s],
         s \in S => used[s] <= reading[s] /\ reading[s] <= counter[s]
  PROVE  life'[s] <= used'[s] /\ used'[s] <= counter[s]
<1>1. life[s] \in Nat /\ used[s] \in Nat /\ reading[s] \in Nat
  BY DEF TypeOK
<1>2. /\ life'[s] = IF s \in S THEN Lifetime(s) + Growth(s, reading[s]) ELSE life[s]
      /\ used'[s] = IF s \in S THEN reading[s] ELSE used[s]
  BY DEF RecordUsage
<1>3. Lifetime(s) = used[s]
  BY <1>1 DEF Lifetime, Larger
<1>4. s \in S => Growth(s, reading[s]) = reading[s] - used[s]
  BY <1>1 DEF Growth
<1> QED BY <1>1, <1>2, <1>3, <1>4

\* A reader that rechecks the row it has read records such readings only.
LEMMA FollowingReaders ==
  ASSUME Guarded = Reader, Safe, Following, NEW r \in Reader,
         Record(r) \/ \E s \in Service : ReadPanel(r, s)
  PROVE  Following'
<1>1. CASE \E s \in Service : ReadPanel(r, s)
  <2> PICK s \in Service : ReadPanel(r, s)
    BY <1>1
  <2>1. /\ UNCHANGED <<life, used, counter, traffic, resets>>
        /\ reader' = [reader EXCEPT ![r] = [svc |-> s, seen |-> counter[s], mark |-> used[s]]]
    BY DEF ReadPanel, panelVars, usageVars
  <2>2. reader \in [Reader -> [svc : Service \cup {NoService}, seen : Nat, mark : Nat]]
        /\ counter[s] \in Nat /\ used[s] \in Nat
    BY DEF Safe, TypeOK
  <2> QED BY <2>1, <2>2 DEF Following
<1>2. CASE Record(r)
  <2> DEFINE x == reader[r].svc
             reading == [y \in Service |-> reader[r].seen]
  <2>1. /\ x \in Service /\ UNCHANGED panelVars
        /\ reader' = [reader EXCEPT ![r] = Resting]
        /\ \/ UNCHANGED usageVars
           \/ RecordUsage({x}, reading) /\ used[x] = reader[r].mark
    <3>1. x \in Service \cup {NoService} /\ x # NoService
      BY <1>2 DEF Record, Safe, TypeOK
    <3> QED BY <1>2, <3>1 DEF Record
  <2>2. \A v \in Reader : /\ reader'[v].mark <= reader'[v].seen
                          /\ reader'[v].svc # NoService
                               => reader'[v].seen <= counter'[reader'[v].svc]
    <3>1. reader \in [Reader -> [svc : Service \cup {NoService}, seen : Nat, mark : Nat]]
      BY DEF Safe, TypeOK
    <3>2. \A v \in Reader : reader'[v] = IF v = r THEN Resting ELSE reader[v]
      BY <2>1, <3>1
    <3>3. counter' = counter
      BY <2>1 DEF panelVars
    <3>4. Resting.svc = NoService /\ Resting.mark = 0 /\ Resting.seen = 0
      BY DEF Resting
    <3> SUFFICES ASSUME NEW v \in Reader
                 PROVE  /\ reader'[v].mark <= reader'[v].seen
                        /\ reader'[v].svc # NoService
                             => reader'[v].seen <= counter'[reader'[v].svc]
      OBVIOUS
    <3>5. CASE v = r
      BY <3>2, <3>4, <3>5
    <3>6. CASE v # r
      BY <3>2, <3>3, <3>6 DEF Following
    <3> QED BY <3>5, <3>6
  <2>3. resets' = resets /\ counter' = counter /\ traffic' = traffic
    BY <2>1 DEF panelVars
  <2>4. CASE UNCHANGED usageVars
    <3>1. life' = life /\ used' = used
      BY <2>4 DEF usageVars
    <3> QED BY <2>2, <2>3, <3>1 DEF Following
  <2>5. CASE RecordUsage({x}, reading) /\ used[x] = reader[r].mark
    <3>1. reading \in [Service -> Nat] /\ {x} \in SUBSET Service
      BY <2>1 DEF Safe, TypeOK
    <3>2. used[x] <= reading[x] /\ reading[x] <= counter[x]
      <4>1. x # NoService
        BY <2>1, LedgerAssumption
      <4>2. reader[r].mark <= reader[r].seen /\ reader[r].seen <= counter[x]
        BY <4>1 DEF Following
      <4> QED BY <2>1, <2>5, <4>2
    <3>3. \A s \in Service : life'[s] <= used'[s] /\ used'[s] <= counter[s]
      <4> SUFFICES ASSUME NEW s \in Service
                   PROVE  life'[s] <= used'[s] /\ used'[s] <= counter[s]
        OBVIOUS
      <4> HIDE DEF x, reading
      <4>1. TypeOK /\ life[s] <= used[s] /\ used[s] <= counter[s]
        BY DEF Safe, Following
      <4> QED BY <2>5, <3>1, <3>2, <4>1, FollowingRecord
    <3> QED BY <2>2, <2>3, <3>3 DEF Following
  <2> QED BY <2>1, <2>4, <2>5
<1> QED BY <1>1, <1>2

\* So every step of a ledger with such readers keeps the records in line.
LEMMA FollowingStep ==
  ASSUME Guarded = Reader, Viewer = {}, MaxResets = 0
  PROVE  Safe /\ Following /\ [Next]_vars => Following'
<1> SUFFICES ASSUME Safe, Following, [Next]_vars PROVE Following'
  OBVIOUS
<1>1. CASE UNCHANGED vars
  BY <1>1 DEF Following, vars, panelVars, usageVars
<1>2. CASE \E s \in Service : ServiceStep(s)
  <2> PICK s \in Service : ServiceStep(s)
    BY <1>2
  <2>1. CASE Consume(s)
    <3>1. /\ counter' = [counter EXCEPT ![s] = @ + 1] /\ traffic' = [traffic EXCEPT ![s] = @ + 1]
          /\ UNCHANGED <<life, used, resets, reader>>
          /\ counter \in [Service -> Nat] /\ traffic \in [Service -> Nat]
          /\ used \in [Service -> Nat]
          /\ reader \in [Reader -> [svc : Service \cup {NoService}, seen : Nat, mark : Nat]]
      BY <2>1 DEF Consume, usageVars, Safe, TypeOK
    <3> QED BY <3>1 DEF Following
  <2>2. CASE ResetCounter(s)
    BY <2>2 DEF ResetCounter, Following
  <2>3. CASE Create(s) \/ Disable(s) \/ Enable(s) \/ Delete(s)
    BY <2>3 DEF Create, Disable, Enable, SetState, Delete, Following, panelVars, usageVars
  <2> QED BY <2>1, <2>2, <2>3 DEF ServiceStep
<1>3. CASE \E r \in Reader : Record(r) \/ \E s \in Service : ReadPanel(r, s)
  BY <1>3, FollowingReaders
<1>4. CASE \/ \E Up \in SUBSET Server : Cycle(Up)
           \/ SwitchToVolume \/ SwitchToPayg
           \/ \E rate \in Rates, sv \in Server : UpdatePolicy(sv, rate)
           \/ \E k \in Transfer : CreditTransfer(k)
           \/ \E k \in Receipt : SubmitReceipt(k) \/ \E b \in BOOLEAN : ReviewReceipt(k, b)
           \/ \E x \in Session : Load(x)
           \/ \E k \in Unlocked : CreditUnlocked(k)
  BY <1>4 DEF Cycle, SwitchToVolume, SwitchToPayg, UpdatePolicy, CreditTransfer, SubmitReceipt,
     ReviewReceipt, Load, CreditUnlocked, Following, panelVars, usageVars
<1>5. CASE \E rate \in Rates : SaveRates(rate)
  <2> DEFINE live == {s \in Service : Live(s)}
  <2>1. UNCHANGED <<panelVars, reader>> /\ RecordUsage(live, counter)
    BY <1>5 DEF SaveRates
  <2>2. \A s \in Service : life'[s] <= used'[s] /\ used'[s] <= counter[s]
    <3> SUFFICES ASSUME NEW s \in Service
                 PROVE  life'[s] <= used'[s] /\ used'[s] <= counter[s]
      OBVIOUS
    <3>1. /\ TypeOK /\ live \in SUBSET Service /\ counter \in [Service -> Nat]
          /\ life[s] <= used[s] /\ used[s] <= counter[s] /\ counter[s] <= counter[s]
      BY DEF Safe, TypeOK, Following
    <3> QED BY <2>1, <3>1, FollowingRecord
  <2> QED BY <2>1, <2>2 DEF Following, panelVars
<1> QED BY <1>1, <1>2, <1>3, <1>4, <1>5 DEF Next

(***************************************************************************)
(* The theorems.                                                           *)
(***************************************************************************)
\* Every variable keeps its type: a meter never carries a whole Toman, a rate
\* is always one the owner set.
THEOREM Types == Spec => []TypeOK
<1>1. Safe => TypeOK
  BY DEF Safe
<1> QED BY <1>1, SafeInit, SafeStep, PTL DEF Spec

\* The event key of an earlier settlement never makes settle pass over traffic
\* that has not been paid for.
THEOREM StaysBillable == Spec => []UsageStaysBillable
<1>1. Safe => UsageStaysBillable
  <2> SUFFICES ASSUME Safe, NEW s \in Service, Lifetime(s) > meter[s].checkpoint
               PROVE  Lifetime(s) \notin usageKeys[s]
    BY DEF UsageStaysBillable, Billable
  <2>1. Lifetime(s) \in Nat /\ meter[s].checkpoint \in Nat
        /\ \A k \in usageKeys[s] : k <= meter[s].checkpoint
    BY Values DEF Safe, TypeOK, Metering
  <2> QED BY <2>1
<1> QED BY <1>1, SafeInit, SafeStep, PTL DEF Spec

\* When every config is on a server assigned to the account, traffic recorded
\* under PAYG costs the tariff in force when it was recorded, to the byte,
\* through any sequence of readings, tariff edits, switches, deletions and live
\* views, up to a live view that settles under a mode the account has left or
\* a join that changes the rate without settling.
THEOREM BilledExactly ==
  ASSUME \A s \in Service : Home[s] \in Assigned
  PROVE  Spec => []BilledAtItsRate
<1>1. Init => IInv
  BY SafeInit, BilledInit DEF IInv
<1>2. IInv => BilledAtItsRate
  BY DEF IInv, NoLapse, BilledAtItsRate
<1>3. IInv /\ [Next]_vars => IInv'
  BY BilledStep
<1> QED BY <1>1, <1>2, <1>3, PTL DEF Spec

\* The wallet is the opening balance plus every credit once, less what the
\* services were charged, for any number of services, credits and sessions,
\* up to the first session that loaded the account without its lock and writes
\* over a balance another one has changed since.
THEOREM Balances == Spec => []WalletBalances
<1>1. WalletInv => WalletBalances
  BY DEF WalletInv
<1> QED BY <1>1, WalletInit, WalletStep, PTL DEF Spec

\* Where every reader drops a reading whose row has changed since, as the Mini
\* App does, and no panel resets a counter, no service is ever taken to have
\* used more than it transferred.  The other readers are refuted by TLC; a live
\* view reads without the guard too, so there is none.
THEOREM GuardSuffices ==
  ASSUME Guarded = Reader, Viewer = {}, MaxResets = 0
  PROVE  Spec => []NeverInflated
<1>1. Init => Safe /\ Following
  <2>1. Init => Following
    BY DEF Init, Following, Resting
  <2> QED BY <2>1, SafeInit
<1>2. Safe /\ Following /\ [Next]_vars => (Safe /\ Following)'
  BY SafeStep, FollowingStep
<1>3. Safe /\ Following => NeverInflated
  <2> SUFFICES ASSUME Safe, Following, NEW s \in Service PROVE Lifetime(s) <= traffic[s]
    BY DEF NeverInflated
  <2>1. life[s] \in Nat /\ used[s] \in Nat /\ traffic[s] \in Nat
    BY DEF Safe, TypeOK
  <2> QED BY <2>1 DEF Following, Lifetime, Larger
<1> QED BY <1>1, <1>2, <1>3, PTL DEF Spec
=============================================================================

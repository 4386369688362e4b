------------------------------- MODULE Orders -------------------------------
(***************************************************************************)
(* Retail orders of D BOT: how an order is paid for, provisioned on a      *)
(* remote panel, reviewed, retried and closed, and what every step does to *)
(* the buyer's wallet (users.wallet_balance) and to a discount code.       *)
(*                                                                         *)
(* The bot and the API are asyncio programs over one PostgreSQL database   *)
(* (READ COMMITTED).  A handler that awaits something between reading and  *)
(* writing is a task with one action per await point; a handler that holds *)
(* its row locks from its first read to its commit is a single action.     *)
(* Row locks are not variables: who holds one follows from the tasks.      *)
(***************************************************************************)
EXTENDS Integers, FiniteSets, Functions

CONSTANTS
    User, Order, Worker,    \* customers, purchases, concurrent asyncio tasks
    ApiLoop,                \* the one task that runs the API's worker_loop
    NoUser, NoOrder,
    Owner,                  \* [Order -> User]
    Kind,                   \* [Order -> Kinds]: how the order is paid for
    Price,                  \* [Order -> Nat]: final amount in Toman
    Discounted,             \* the orders placed with the discount code
    MaxUses, PerUserLimit,  \* DiscountCode.max_uses and .per_user_limit
    MaxOpenOrders,          \* open Mini App orders per user (10 in the code)
    Opening,                \* [User -> Nat]: wallet balances at the start
    Referrer,               \* [User -> User \cup {NoUser}]
    Commission,             \* [Order -> Nat]: int(amount*percent/100)
    MaxCrashes, MaxAsked    \* bounds of the model

\* wallet, card: Mini App checkout; chatcard, chatwallet, crypto: buy_payment
\* and the NOWPayments webhook; renewcard, chatrenew: renew_pay; topup:
\* wallet_receipt.
Kinds == {"wallet", "card", "chatcard", "chatwallet", "crypto",
          "renewcard", "chatrenew", "topup"}
Statuses == {"none", "miniapp_queued", "waiting_receipt", "waiting_crypto",
             "processing", "paid", "failed", "rejected", "cancelled",
             "deleted"}

ASSUME OrdersAssumption ==
    /\ ApiLoop \in Worker /\ NoUser \notin User /\ NoOrder \notin Order
    /\ IsFiniteSet(Order)
    /\ Owner \in [Order -> User] /\ Kind \in [Order -> Kinds]
    /\ Price \in [Order -> Nat] /\ Discounted \subseteq Order
    /\ MaxUses \in Nat \ {0} /\ PerUserLimit \in Nat \ {0}
    /\ MaxOpenOrders \in Nat /\ Opening \in [User -> Nat]
    /\ Referrer \in [User -> User \cup {NoUser}]
    /\ \A u \in User : Referrer[u] # u
    /\ Commission \in [Order -> Nat]
    /\ MaxCrashes \in Nat /\ MaxAsked \in Nat

VARIABLES
    status,     \* orders.status; "none" before the row, "deleted" after it
    receipt,    \* orders.receipt_file_id is set
    delivered,  \* services created, renewed or top-ups credited per order
    remote,     \* creations or renewals the panel carried out per order
    asked,      \* history: how often somebody asked for the build of an order
    wallet,     \* users.wallet_balance
    bonuses,    \* referral_commission rows of wallet_transactions per order
    used,       \* discount_codes.used_count
    usage,      \* the orders that hold a discount_usages row
    task,       \* what each worker is doing
    crashes

vars == <<status, receipt, delivered, remote, asked, wallet, bonuses,
          used, usage, task, crashes>>
moneyVars == <<wallet, bonuses>>
codeVars == <<used, usage>>

(***************************************************************************)
(* Tasks and the row locks they hold.                                      *)
(***************************************************************************)
MiniApp == {"wallet", "card"}
\* Orders that process_approved_order_background provisions.
Provisioned == {"wallet", "card", "chatcard", "renewcard"}
\* Renewals insert no client_services row.
Renewal == {"renewcard", "chatrenew"}
\* Discount rows whose source names the order can be released again.
Releasable == {"wallet", "card", "renewcard"}

Pipeline == {"building", "built", "crediting"}
Pcs == Pipeline \cup {"idle", "scheduled", "quoting", "failing", "marking",
                      "back", "cancel", "reject"}
Idle == [pc |-> "idle", order |-> NoOrder, seen |-> 0, ref |-> 0, bonus |-> 0]

\* Mutant: a rejection that does not lock the order.
HoldsOrderNotReject(t, o) ==
    /\ t.order = o
    /\ \/ t.pc \in Pipeline /\ Kind[o] \in Provisioned
       \/ t.pc = "crediting" /\ Kind[o] = "crypto"
       \/ t.pc = "cancel"

\* SELECT ... FOR UPDATE on the order row (a crypto order only from the
\* flush of its new status on).
HoldsOrder(t, o) ==
    /\ t.order = o
    /\ \/ t.pc \in Pipeline /\ Kind[o] \in Provisioned
       \/ t.pc = "crediting" /\ Kind[o] = "crypto"
       \/ t.pc \in {"cancel", "reject"} /\ Kind[o] # "topup"
OrderFree(o) == \A w \in Worker : ~HoldsOrder(task[w], o)

\* Mutant: pay:wallet reads the buyer without FOR UPDATE.
HoldsUserNever(t, u) == FALSE

\* SELECT ... FOR UPDATE on the buyer, held by pay:wallet through the build.
HoldsUser(t, u) ==
    /\ t.pc \in Pipeline
    /\ Kind[t.order] = "chatwallet" /\ Owner[t.order] = u
UserUnlocked(u) == \A w \in Worker : ~HoldsUser(task[w], u)

\* FOR KEY SHARE on the buyer, taken by the foreign key of an inserted row:
\* the order of a chat renewal, the service of any other purchase.
SharesUser(t, u) ==
    /\ t.pc \in Pipeline /\ Owner[t.order] = u
    /\ Kind[t.order] = "chatrenew" \/ (t.pc = "crediting" /\ Kind[t.order] \notin Renewal)
UserLockable(u) ==
    UserUnlocked(u) /\ \A w \in Worker : ~SharesUser(task[w], u)

\* Mutant: the discount code is checked without FOR UPDATE.
HoldsCodeNever(t) == FALSE

\* FOR UPDATE on the discount code, taken by apply_discount_amount.
HoldsCode(t) ==
    /\ t.pc \in Pipeline /\ t.order \in Discounted
    /\ Kind[t.order] \in {"chatwallet", "chatrenew"}
CodeFree == \A w \in Worker : ~HoldsCode(task[w])

(***************************************************************************)
(* Discount codes.                                                         *)
(***************************************************************************)
CodeUsable(u) ==
    /\ used < MaxUses
    /\ Cardinality({o \in usage : Owner[o] = u}) < PerUserLimit

\* What placing order o asks of the code, and does to it.
CodeAccepts(o) == o \in Discounted => CodeFree /\ CodeUsable(Owner[o])
MarkUsed(o) ==
    IF o \in Discounted THEN used' = used + 1 /\ usage' = usage \cup {o}
    ELSE UNCHANGED codeVars

\* release_order_discount_usage reads used_count and the usage row without a
\* lock, and its transaction later writes the absolute value back.
NoRow == -1
ReadCode(o) == IF o \in usage /\ Kind[o] \in Releasable THEN used ELSE NoRow
\* Mutant: used_count is decremented without the max(..., 0).
ReleaseUnclamped(o, seen) ==
    IF seen = NoRow THEN UNCHANGED codeVars
    ELSE CodeFree /\ used' = seen - 1 /\ usage' = usage \ {o}
Release(o, seen) ==
    IF seen = NoRow THEN UNCHANGED codeVars
    ELSE /\ CodeFree
         /\ used' = IF seen = 0 THEN 0 ELSE seen - 1
         /\ usage' = usage \ {o}

(***************************************************************************)
(* Placing an order.                                                       *)
(***************************************************************************)
OpenOrders(u) ==
    {o \in Order : Owner[o] = u /\ Kind[o] \in MiniApp
        /\ status[o] \in {"waiting_receipt", "miniapp_queued", "processing"}}

\* Mutant: the balance is not compared with the price.
CheckoutUnfunded(o) ==
    /\ Kind[o] = "wallet" /\ UserLockable(Owner[o])
    /\ status[o] = "none"
    /\ CodeAccepts(o)
    /\ wallet' = [wallet EXCEPT ![Owner[o]] = @ - Price[o]]
    /\ status' = [status EXCEPT ![o] = "miniapp_queued"]
    /\ asked' = [asked EXCEPT ![o] = @ + 1]
    /\ MarkUsed(o)
    /\ UNCHANGED <<receipt, delivered, remote, bonuses, task, crashes>>

\* POST /checkout.  A repeated request finds the row by its checkout_key and
\* returns it: it changes nothing, so only the first one is a step.
Checkout(o) ==
    LET u == Owner[o] IN
    /\ Kind[o] \in MiniApp
    /\ UserLockable(u)
    /\ status[o] = "none"
    /\ Cardinality(OpenOrders(u)) < MaxOpenOrders
    /\ CodeAccepts(o)
    /\ IF Kind[o] = "wallet"
       THEN /\ wallet[u] >= Price[o]
            /\ wallet' = [wallet EXCEPT ![u] = @ - Price[o]]
            /\ status' = [status EXCEPT ![o] = "miniapp_queued"]
            /\ asked' = [asked EXCEPT ![o] = @ + 1]
       ELSE /\ status' = [status EXCEPT ![o] = "waiting_receipt"]
            /\ UNCHANGED <<wallet, asked>>
    /\ MarkUsed(o)
    /\ UNCHANGED <<receipt, delivered, remote, bonuses, task, crashes>>

\* pay:card and pay:crypto of buy_payment (which locks the user first), the
\* card path of renew_pay, and wallet_receipt (placed with its photo).
PlaceOrder(o) ==
    /\ status[o] = "none"
    /\ \/ Kind[o] \in {"chatcard", "crypto"} /\ UserLockable(Owner[o])
       \/ Kind[o] \in {"renewcard", "topup"} /\ UserUnlocked(Owner[o])
    /\ CodeAccepts(o)
    /\ status' = [status EXCEPT ![o] =
           IF Kind[o] = "crypto" THEN "waiting_crypto" ELSE "waiting_receipt"]
    /\ receipt' = [receipt EXCEPT ![o] = Kind[o] = "topup"]
    /\ MarkUsed(o)
    /\ UNCHANGED <<delivered, remote, asked, moneyVars, task, crashes>>

\* The receipt photo: under the order lock in the Mini App, which refuses a
\* second one; with neither check nor lock in the chat.
UploadReceipt(o) ==
    /\ OrderFree(o)
    /\ \/ Kind[o] = "card" /\ status[o] = "waiting_receipt"
       \/ Kind[o] \in {"chatcard", "renewcard"}
          /\ status[o] \notin {"none", "deleted"}
    /\ ~receipt[o]
    /\ receipt' = [receipt EXCEPT ![o] = TRUE]
    /\ UNCHANGED <<status, delivered, remote, asked, moneyVars, codeVars,
                   task, crashes>>

(***************************************************************************)
(* Cancelling: the Mini App deletes a card order that has no receipt, under *)
(* its lock; the chat's back buttons test the status without one.          *)
(***************************************************************************)
Start(w, pc, o, seen) ==
    /\ task[w] = Idle
    /\ task' = [task EXCEPT ![w] =
           [pc |-> pc, order |-> o, seen |-> seen, ref |-> 0, bonus |-> 0]]
Finish(w) == task' = [task EXCEPT ![w] = Idle]

CancelBegin(w, o) ==
    /\ Kind[o] = "card" /\ w # ApiLoop /\ OrderFree(o)
    /\ status[o] \in {"waiting_receipt", "cancelled"} /\ ~receipt[o]
    /\ Start(w, "cancel", o, ReadCode(o))
    /\ UNCHANGED <<status, receipt, delivered, remote, asked, moneyVars,
                   codeVars, crashes>>

\* Mutant: the reservation of the discount code is not released.
CancelCommitKeeping(w) ==
    /\ task[w].pc = "cancel"
    /\ status' = [status EXCEPT ![task[w].order] = "deleted"]
    /\ Finish(w)
    /\ UNCHANGED <<receipt, delivered, remote, asked, moneyVars, codeVars,
                   crashes>>

CancelCommit(w) ==
    LET o == task[w].order IN
    /\ task[w].pc = "cancel"
    /\ Release(o, task[w].seen)
    /\ status' = [status EXCEPT ![o] = "deleted"]
    /\ Finish(w)
    /\ UNCHANGED <<receipt, delivered, remote, asked, moneyVars, crashes>>

BackRead(w, o) ==
    /\ Kind[o] \in {"chatcard", "renewcard"} /\ w # ApiLoop
    /\ status[o] = "waiting_receipt"
    /\ Start(w, "back", o, ReadCode(o))
    /\ UNCHANGED <<status, receipt, delivered, remote, asked, moneyVars,
                   codeVars, crashes>>

BackCommit(w) ==
    LET o == task[w].order IN
    /\ task[w].pc = "back"
    /\ OrderFree(o)
    /\ Release(o, task[w].seen)
    /\ status' = [status EXCEPT ![o] = "cancelled"]
    /\ Finish(w)
    /\ UNCHANGED <<receipt, delivered, remote, asked, moneyVars, crashes>>

(***************************************************************************)
(* Review and provisioning.                                                *)
(***************************************************************************)
\* A reviewer's buttons hang on the receipt, or on the notice of a failure.
HasButtons(o) == receipt[o] \/ status[o] = "failed"

\* Mutant: a paid order can be approved again.
ApproveAgain(w, o) ==
    /\ Kind[o] \in Provisioned /\ w # ApiLoop
    /\ OrderFree(o) /\ HasButtons(o)
    /\ status[o] \in {"waiting_receipt", "failed", "paid"}
    /\ asked[o] < MaxAsked
    /\ status' = [status EXCEPT ![o] = "processing"]
    /\ asked' = [asked EXCEPT ![o] = @ + 1]
    /\ Start(w, "scheduled", o, 0)
    /\ UNCHANGED <<receipt, delivered, remote, moneyVars, codeVars, crashes>>

\* approve_order_cb commits "processing" and schedules the provisioning.
Approve(w, o) ==
    /\ Kind[o] \in Provisioned /\ w # ApiLoop
    /\ OrderFree(o) /\ HasButtons(o)
    /\ status[o] \in {"waiting_receipt", "failed"}
    /\ asked[o] < MaxAsked
    /\ status' = [status EXCEPT ![o] = "processing"]
    /\ asked' = [asked EXCEPT ![o] = @ + 1]
    /\ Start(w, "scheduled", o, 0)
    /\ UNCHANGED <<receipt, delivered, remote, moneyVars, codeVars, crashes>>

\* process_wallet_queue takes one queued order and awaits its provisioning.
QueueTake(o) ==
    /\ Kind[o] = "wallet" /\ OrderFree(o)
    /\ status[o] = "miniapp_queued"
    /\ status' = [status EXCEPT ![o] = "processing"]
    /\ Start(ApiLoop, "scheduled", o, 0)
    /\ UNCHANGED <<receipt, delivered, remote, asked, moneyVars, codeVars,
                   crashes>>

\* process_approved_order_background locks the order for the whole build. Its
\* own "processing" is uncommitted and disappears with a rollback.
ProvisionBegin(w) ==
    LET o == task[w].order IN
    /\ task[w].pc = "scheduled"
    /\ OrderFree(o)
    /\ IF status[o] \in {"paid", "deleted"} THEN Finish(w)
       ELSE task' = [task EXCEPT ![w].pc = "building"]
    /\ UNCHANGED <<status, receipt, delivered, remote, asked, moneyVars,
                   codeVars, crashes>>

\* pay:wallet locks the buyer, checks the balance and builds at once.
ChatBuyBegin(w, o) ==
    /\ Kind[o] = "chatwallet" /\ w # ApiLoop
    /\ status[o] = "none" /\ UserLockable(Owner[o])
    /\ asked[o] < MaxAsked
    /\ wallet[Owner[o]] >= Price[o]
    /\ CodeAccepts(o)
    /\ asked' = [asked EXCEPT ![o] = @ + 1]
    /\ Start(w, "building", o, wallet[Owner[o]])
    /\ UNCHANGED <<status, receipt, delivered, remote, moneyVars, codeVars,
                   crashes>>

\* The wallet path of renew_pay reads the buyer without a lock, quotes the
\* price, and inserts the order only then.
RenewRead(w, o) ==
    /\ Kind[o] = "chatrenew" /\ w # ApiLoop
    /\ status[o] = "none" /\ \A x \in Worker : task[x].order # o
    /\ asked[o] < MaxAsked
    /\ asked' = [asked EXCEPT ![o] = @ + 1]
    /\ Start(w, "quoting", o, wallet[Owner[o]])
    /\ UNCHANGED <<status, receipt, delivered, remote, moneyVars, codeVars,
                   crashes>>

RenewPlace(w) ==
    LET o == task[w].order IN
    /\ task[w].pc = "quoting"
    /\ task[w].seen >= Price[o]
    /\ UserUnlocked(Owner[o]) /\ CodeAccepts(o)
    /\ task' = [task EXCEPT ![w].pc = "building"]
    /\ UNCHANGED <<status, receipt, delivered, remote, asked, moneyVars,
                   codeVars, crashes>>

RenewRefuse(w) ==
    LET o == task[w].order IN
    /\ task[w].pc = "quoting"
    /\ \/ task[w].seen < Price[o]
       \/ o \in Discounted /\ CodeFree /\ ~CodeUsable(Owner[o])
    /\ Finish(w)
    /\ UNCHANGED <<status, receipt, delivered, remote, asked, moneyVars,
                   codeVars, crashes>>

\* The NOWPayments webhook: the order is read without a lock, the payment
\* verified, and the service built.
IpnBegin(w, o) ==
    /\ Kind[o] = "crypto" /\ w # ApiLoop
    /\ status[o] = "waiting_crypto"
    /\ asked[o] < MaxAsked
    /\ asked' = [asked EXCEPT ![o] = @ + 1]
    /\ Start(w, "building", o, 0)
    /\ UNCHANGED <<status, receipt, delivered, remote, moneyVars, codeVars,
                   crashes>>

\* The panel created or renewed the client.
RemoteDone(w) ==
    LET o == task[w].order IN
    /\ task[w].pc = "building"
    /\ remote' = [remote EXCEPT ![o] = @ + 1]
    /\ task' = [task EXCEPT ![w].pc = "built"]
    /\ UNCHANGED <<status, receipt, delivered, asked, moneyVars, codeVars,
                   crashes>>

\* Mutant: an ambiguous failure of the panel is retried.
RemoteFailRetried(w) ==
    /\ task[w].pc = "building"
    /\ \E done \in {0, 1} :
           remote' = [remote EXCEPT ![task[w].order] = @ + done]
    /\ UNCHANGED <<status, receipt, delivered, asked, moneyVars, codeVars,
                   task, crashes>>

\* The panel refused, or its answer was lost after it had done the work.  The
\* transaction rolls back; only process_approved_order_background goes on to
\* record the failure.
RemoteFail(w) ==
    LET o == task[w].order IN
    /\ task[w].pc = "building"
    /\ \E done \in {0, 1} : remote' = [remote EXCEPT ![o] = @ + done]
    /\ IF Kind[o] \in Provisioned
       THEN task' = [task EXCEPT ![w].pc = "failing"]
       ELSE Finish(w)
    /\ UNCHANGED <<status, receipt, delivered, asked, moneyVars, codeVars,
                   crashes>>

\* apply_purchase_commission: a referrer with a paid order of his own earns
\* it.  His balance is read here, without a lock, and written at the commit,
\* after two Telegram messages.  Chat renewals pay no commission.
CommissionOf(o) ==
    LET r == Referrer[Owner[o]] IN
    IF /\ r # NoUser /\ Kind[o] # "chatrenew"
       /\ \E x \in Order : Owner[x] = r /\ status[x] = "paid"
    THEN Commission[o] ELSE 0

ReadReferrer(w) ==
    LET o == task[w].order
        r == Referrer[Owner[o]]
    IN
    /\ task[w].pc = "built"
    /\ Kind[o] \in Renewal \cup {"chatwallet"} \/ UserUnlocked(Owner[o])
    /\ Kind[o] = "crypto" => OrderFree(o)
    /\ task' = [task EXCEPT ![w].pc = "crediting",
                            ![w].bonus = CommissionOf(o),
                            ![w].ref = IF CommissionOf(o) > 0 THEN wallet[r] ELSE 0]
    /\ UNCHANGED <<status, receipt, delivered, remote, asked, moneyVars,
                   codeVars, crashes>>

\* The purchases of the chat debit the balance they read when they began; a
\* renewal the discount pays for in full leaves the wallet alone.
PaysFromSeen(o) == Kind[o] \in {"chatwallet", "chatrenew"}
WalletAfter(t) ==
    LET o == t.order IN
    [u \in User |->
        IF u = Owner[o] /\ PaysFromSeen(o) /\ Price[o] > 0 THEN t.seen - Price[o]
        ELSE IF t.bonus > 0 /\ u = Referrer[Owner[o]] THEN t.ref + t.bonus
        ELSE wallet[u]]

\* One transaction: service, status, commission, debit and discount row.
Commit(w) ==
    LET o == task[w].order IN
    /\ task[w].pc = "crediting"
    /\ Kind[o] = "chatrenew" => UserUnlocked(Owner[o])
    /\ task[w].bonus > 0 => UserUnlocked(Referrer[Owner[o]])
    /\ status' = [status EXCEPT ![o] = "paid"]
    /\ delivered' = [delivered EXCEPT ![o] = @ + 1]
    /\ wallet' = WalletAfter(task[w])
    /\ bonuses' = IF task[w].bonus > 0 THEN [bonuses EXCEPT ![o] = @ + 1]
                  ELSE bonuses
    /\ IF PaysFromSeen(o) THEN MarkUsed(o) ELSE UNCHANGED codeVars
    /\ Finish(w)
    /\ UNCHANGED <<receipt, remote, asked, crashes>>

\* The except branch reads the status in a new session, without a lock ...
HandlerRead(w) ==
    LET o == task[w].order IN
    /\ task[w].pc = "failing"
    /\ IF status[o] \in {"paid", "deleted"} THEN Finish(w)
       ELSE task' = [task EXCEPT ![w].pc = "marking"]
    /\ UNCHANGED <<status, receipt, delivered, remote, asked, moneyVars,
                   codeVars, crashes>>

\* ... and then writes it; the UPDATE waits for whoever holds the row.
HandlerWrite(w) ==
    LET o == task[w].order IN
    /\ task[w].pc = "marking"
    /\ OrderFree(o)
    /\ status' = [status EXCEPT ![o] = "failed"]
    /\ Finish(w)
    /\ UNCHANGED <<receipt, delivered, remote, asked, moneyVars, codeVars,
                   crashes>>

\* Mutant: an interrupted order goes back into the queue.
RecoverBlindly(o) ==
    /\ Kind[o] = "wallet" /\ task[ApiLoop] = Idle
    /\ status[o] = "processing" /\ OrderFree(o)
    /\ status' = [status EXCEPT ![o] = "miniapp_queued"]
    /\ UNCHANGED <<receipt, delivered, remote, asked, moneyVars, codeVars,
                   task, crashes>>

\* Mutant: the recovery selects the card orders.
RecoverCards(o) ==
    /\ Kind[o] = "card" /\ task[ApiLoop] = Idle
    /\ status[o] = "processing" /\ OrderFree(o)
    /\ status' = [status EXCEPT ![o] = "failed"]
    /\ UNCHANGED <<receipt, delivered, remote, asked, moneyVars, codeVars,
                   task, crashes>>

\* recover_stalled_wallet_orders, which runs in the worker loop before the
\* queue.  Nothing else depends on time, so the 15 minutes are left out.
Recover(o) ==
    /\ Kind[o] = "wallet" /\ task[ApiLoop] = Idle
    /\ status[o] = "processing" /\ OrderFree(o)
    /\ status' = [status EXCEPT ![o] = "failed"]
    /\ UNCHANGED <<receipt, delivered, remote, asked, moneyVars, codeVars,
                   task, crashes>>

(***************************************************************************)
(* Rejecting, and top-ups.                                                 *)
(***************************************************************************)
RejectBegin(w, o) ==
    /\ w # ApiLoop
    /\ \/ /\ Kind[o] \in Provisioned /\ OrderFree(o) /\ HasButtons(o)
          /\ status[o] \notin {"none", "deleted", "paid", "processing", "rejected"}
       \/ Kind[o] = "topup" /\ status[o] \notin {"none", "paid", "rejected"}
    /\ Start(w, "reject", o, ReadCode(o))
    /\ UNCHANGED <<status, receipt, delivered, remote, asked, moneyVars,
                   codeVars, crashes>>

RejectCommit(w) ==
    LET o == task[w].order IN
    /\ task[w].pc = "reject"
    /\ Release(o, task[w].seen)
    /\ status' = [status EXCEPT ![o] = "rejected"]
    /\ Finish(w)
    /\ UNCHANGED <<receipt, delivered, remote, asked, moneyVars, crashes>>

TopupApprove(o) ==
    LET u == Owner[o] IN
    /\ Kind[o] = "topup" /\ UserLockable(u)
    /\ status[o] = "waiting_receipt"
    /\ wallet' = [wallet EXCEPT ![u] = @ + Price[o]]
    /\ delivered' = [delivered EXCEPT ![o] = @ + 1]
    /\ status' = [status EXCEPT ![o] = "paid"]
    /\ UNCHANGED <<receipt, remote, asked, bonuses, codeVars, task, crashes>>

\* A process dies: what its tasks had not committed is gone, what the panel
\* did is not.
Crash(w) ==
    /\ crashes < MaxCrashes /\ task[w] # Idle
    /\ crashes' = crashes + 1
    /\ Finish(w)
    /\ UNCHANGED <<status, receipt, delivered, remote, asked, moneyVars,
                   codeVars>>

Init ==
    /\ status = [o \in Order |-> "none"]
    /\ receipt = [o \in Order |-> FALSE]
    /\ delivered = [o \in Order |-> 0]
    /\ remote = [o \in Order |-> 0]
    /\ asked = [o \in Order |-> 0]
    /\ wallet = Opening
    /\ bonuses = [o \in Order |-> 0]
    /\ used = 0 /\ usage = {}
    /\ task = [w \in Worker |-> Idle]
    /\ crashes = 0

\* The steps a running task takes on its own.
TaskStep(w) ==
    \/ ProvisionBegin(w) \/ RenewPlace(w) \/ RenewRefuse(w)
    \/ RemoteDone(w) \/ RemoteFail(w) \/ ReadReferrer(w) \/ Commit(w)
    \/ HandlerRead(w) \/ HandlerWrite(w)
    \/ CancelCommit(w) \/ BackCommit(w) \/ RejectCommit(w)

Next ==
    \/ \E o \in Order : \/ Checkout(o) \/ PlaceOrder(o) \/ UploadReceipt(o)
                        \/ QueueTake(o) \/ Recover(o) \/ TopupApprove(o)
    \/ \E w \in Worker, o \in Order :
           \/ CancelBegin(w, o) \/ BackRead(w, o) \/ Approve(w, o)
           \/ ChatBuyBegin(w, o) \/ RenewRead(w, o) \/ IpnBegin(w, o)
           \/ RejectBegin(w, o)
    \/ \E w \in Worker : TaskStep(w) \/ Crash(w)

Spec == Init /\ [][Next]_vars

\* asyncio runs every task; the API restarts worker_loop with the process.
Fairness ==
    /\ \A w \in Worker : WF_vars(TaskStep(w))
    /\ \A o \in Order : WF_vars(QueueTake(o)) /\ WF_vars(Recover(o))
FairSpec == Spec /\ Fairness

-----------------------------------------------------------------------------
(***************************************************************************)
(* What the orders must guarantee.                                         *)
(***************************************************************************)
TypeOK ==
    /\ status \in [Order -> Statuses] /\ receipt \in [Order -> BOOLEAN]
    /\ delivered \in [Order -> Nat] /\ remote \in [Order -> Nat]
    /\ asked \in [Order -> Nat] /\ bonuses \in [Order -> Nat]
    /\ wallet \in [User -> Int]
    /\ used \in Nat /\ usage \subseteq Order
    /\ crashes \in 0..MaxCrashes
    /\ task \in [Worker -> [pc : Pcs, order : Order \cup {NoOrder},
                            seen : Int, ref : Int, bonus : Nat]]
    /\ \A w \in Worker : task[w].pc # "idle" => task[w].order \in Order

\* A wallet moves by exactly what its owner topped up, bought and earned:
\* no concurrent handler overwrites another one's debit or credit.
Debited(o) ==
    CASE Kind[o] = "wallet" -> IF status[o] = "none" THEN 0 ELSE Price[o]
      [] PaysFromSeen(o) -> delivered[o] * Price[o]
      [] Kind[o] = "topup" -> -(delivered[o] * Price[o])
      [] OTHER -> 0
Earned(o) == bonuses[o] * Commission[o]
ExactFor(u) ==
    wallet[u] = Opening[u]
        - SumFunctionOnSet([o \in Order |-> Debited(o)],
                           {o \in Order : Owner[o] = u})
        + SumFunctionOnSet([o \in Order |-> Earned(o)],
                           {o \in Order : Referrer[Owner[o]] = u})
WalletExact == \A u \in User : ExactFor(u)

\* No balance is spent below zero, whatever runs concurrently.
NoOverdraft == \A u \in User : wallet[u] >= 0

\* The panel is asked to build an order at most once per request: once for the
\* purchase and once for every retry an operator ordered.  An interrupted
\* build is never repeated on the program's own account.
NoBlindRebuild == \A o \in Order : remote[o] <= asked[o]

\* A Mini App card order is delivered once, however often it is approved,
\* crashes or is retried, and exactly when it is paid.
DeliverOnce ==
    \A o \in Order : Kind[o] = "card" =>
        delivered[o] = IF status[o] = "paid" THEN 1 ELSE 0

PaidKept ==
    \A o \in Order : Kind[o] = "card" /\ status[o] = "paid" => status'[o] = "paid"
\* A paid Mini App card order stays paid: neither a late failure handler nor a
\* concurrent rejection or cancellation takes it back.
PaidIsFinal == [][PaidKept]_vars

\* The discount_usages row of a Mini App card order lives exactly as long as
\* the order may still be delivered.
UsageFollowsOrder ==
    \A o \in Discounted : Kind[o] = "card" =>
        (o \in usage <=> status[o] \notin {"none", "deleted", "rejected"})

\* A discount code is never in use more often than its max_uses, nor more
\* often than per_user_limit by one customer.
CustomersWithinLimit ==
    \A u \in User : Cardinality({o \in usage : Owner[o] = u}) <= PerUserLimit
CodeWithinLimit == Cardinality(usage) <= MaxUses /\ CustomersWithinLimit

\* Every wallet order the queue has taken the money for is delivered or
\* reaches a reviewer, whatever the panel does and whenever the API restarts.
QueueSettles ==
    \A o \in Order : Kind[o] = "wallet" =>
        (status[o] \in {"miniapp_queued", "processing"}
            ~> status[o] \in {"paid", "failed", "rejected"})
=============================================================================

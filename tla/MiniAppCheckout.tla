-------------------------- MODULE MiniAppCheckout --------------------------
(***************************************************************************)
(* Buying one plan in the mini app: the screen MiniAppCheckout, what it    *)
(* keeps in the tab's sessionStorage, its requests, and the orders on the  *)
(* server.  Renewing a service has a screen of its own, alike, with slots  *)
(* of its own in the storage.                                              *)
(*                                                                         *)
(* A purchase carries a key the screen made up and saved before it asked,  *)
(* so that asking again finds the order.  An answer may be lost ("failed"  *)
(* though carried out), late, or meet a screen that is gone.               *)
(***************************************************************************)
EXTENDS Naturals, Sequences

CONSTANTS
    Visits,     \* bound: what the buyer's sittings may be about
    MaxKeys,    \* bound: crypto.randomUUID
    MaxHttp,    \* bound: requests in flight at a time
    MaxOrders   \* bound: purchases that reach the server

ASSUME CheckoutAssumption ==
    /\ Visits \subseteq SUBSET {"card", "wallet", "tracking", "header", "reload", "review", "on"}
    /\ MaxKeys \in Nat \ {0} /\ MaxHttp \in Nat \ {0} /\ MaxOrders \in Nat \ {0}

VARIABLES
    visit,      \* what this sitting may be about, besides what every sitting is
    screen,     \* the checkout, or Closed
    storage,    \* the two entries of sessionStorage: key and order, 0 is none
    minted,     \* the keys made up so far are 1..minted
    calls,      \* the requests in flight
    orders,     \* the orders of the plan on the server, in the order of their id
    trouble     \* history: something happened that may lose an order

checkoutVars == <<visit, screen, storage, minted, calls, orders, trouble>>

Key == 1..MaxKeys
Slot == 1..MaxHttp
Id == 0..MaxOrders
Method == {"card", "wallet"}
\* waiting and uploaded are waiting_receipt without and with its receipt.
Status == {"waiting", "uploaded", "queued", "processing", "failed", "rejected",
           "paid", "deleted"}
Settled == {"rejected", "paid", "deleted"}
Polled == {"uploaded", "queued", "processing"}

\* order = 0 means none.  timer: what refresh will find when the interval of
\* the last commit that changed the order calls it; the interval keeps the
\* busy and restoring of that commit.
Closed == [on |-> FALSE, key |-> 0, quote |-> FALSE, order |-> 0, status |-> "deleted",
           initial |-> 0, busy |-> FALSE, restoring |-> FALSE, checking |-> FALSE,
           timer |-> "none"]
Free == [op |-> "free", from |-> "live", key |-> 0, method |-> "card", id |-> 0,
         flag |-> FALSE, ans |-> "failed", status |-> "deleted"]

\* setOrder, and the effect that polls an order which others work on.
Showing(s, o, st) ==
    [s EXCEPT !.order = o, !.status = st,
              !.timer = IF o = s.order /\ st = s.status THEN @
                        ELSE IF o = 0 \/ st \notin Polled THEN "none"
                        ELSE IF s.busy \/ s.restoring THEN "deaf" ELSE "live"]

Mint == minted < MaxKeys /\ minted' = minted + 1

HasRoom == \E i \in Slot : calls[i] = Free
Put(c, op, key, method, id, flag) ==
    LET i == CHOOSE i \in Slot : c[i] = Free
    IN  [c EXCEPT ![i] = [op |-> op, from |-> "live", key |-> key, method |-> method,
                          id |-> id, flag |-> flag, ans |-> "waiting", status |-> "deleted"]]
Send(op, key, method, id, flag) == HasRoom /\ calls' = Put(calls, op, key, method, id, flag)

\* The screen is gone: nobody waits for its reads, the replies to the rest of
\* what it asked still come.
Left(c) ==
    [i \in Slot |->
       IF c[i].op \in {"free", "restore", "quote", "refresh"} THEN Free
       ELSE [c[i] EXCEPT !.from = IF @ = "live" THEN "left" ELSE @]]
Leaves == screen' = Closed /\ calls' = Left(calls)

-----------------------------------------------------------------------------
(* The screen.                                                             *)

\* Bound: a buyer goes on buying after trouble in some sittings only.
GoesOn == trouble => "on" \in visit

\* What the worker and the admins do with an order.
Steps == {<<"queued", "processing">>, <<"uploaded", "processing">>, <<"uploaded", "rejected">>,
          <<"processing", "paid">>, <<"processing", "failed">>,
          <<"failed", "processing">>, <<"failed", "rejected">>}
\* The list of tracking may be a step behind (but for a retry); what is paid is
\* not on it.
Behind(o) ==
    {st \in {"processing", IF orders[o].method = "card" THEN "uploaded" ELSE "queued"} :
        <<st, orders[o].status>> \in Steps}
Listed(o) == Behind(o) \cup ({orders[o].status} \ {"waiting", "paid", "deleted"})

\* A plan of the list (o = 0), or an order that tracking shows; its own order
\* is read again.  A new service of the browser's tab makes up a key.
Mount(o) ==
    /\ ~screen.on /\ GoesOn
    /\ o # 0 => "tracking" \in visit
    /\ IF storage.key = 0 THEN Mint ELSE UNCHANGED minted
    /\ LET id == IF o # 0 THEN o ELSE storage.order
           s  == [Closed EXCEPT !.on = TRUE, !.initial = o, !.restoring = id # 0,
                                !.key = IF storage.key = 0 THEN minted + 1 ELSE storage.key]
       IN  /\ IF o = 0 THEN screen' = s ELSE \E st \in Listed(o) : screen' = Showing(s, o, st)
           /\ IF id = 0 THEN UNCHANGED calls ELSE Send("restore", 0, "card", id, FALSE)
    /\ UNCHANGED <<visit, storage, orders, trouble>>

Price ==
    /\ screen.on /\ screen.order = 0 /\ ~screen.quote /\ ~screen.busy /\ ~screen.restoring
    /\ Send("quote", 0, "card", 0, FALSE)
    /\ screen' = [screen EXCEPT !.busy = TRUE]
    /\ UNCHANGED <<visit, storage, minted, orders, trouble>>

\* As if the key were saved with the answer.
SavedLate(key) == storage
\* The key is saved before the request is sent.
Saved(key) == [storage EXCEPT !.key = key]

Purchase(m) ==
    /\ GoesOn /\ screen.on /\ screen.order = 0 /\ screen.quote /\ ~screen.busy /\ ~screen.restoring
    /\ storage' = Saved(screen.key)
    /\ Send("checkout", screen.key, m, 0, FALSE)
    /\ screen' = [screen EXCEPT !.busy = TRUE]
    /\ UNCHANGED <<visit, minted, orders, trouble>>

\* refresh: by the header of the page (open = FALSE), by the button, or by the
\* interval, whose refresh still sees the screen of an earlier commit.
CanRefresh == screen.on /\ screen.order # 0 /\ ~screen.checking /\ HasRoom
AskStatus(open) ==
    /\ CanRefresh /\ ~screen.busy /\ ~screen.restoring
    /\ IF open THEN screen.status \notin {"waiting", "uploaded"} ELSE "header" \in visit
    /\ Send("refresh", 0, "card", screen.order, open)
    /\ screen' = [screen EXCEPT !.checking = TRUE]
    /\ UNCHANGED <<visit, storage, minted, orders, trouble>>
Poll ==
    /\ CanRefresh /\ screen.timer = "live"
    /\ Send("refresh", 0, "card", screen.order, TRUE)
    /\ screen' = [screen EXCEPT !.checking = TRUE]
    /\ UNCHANGED <<visit, storage, minted, orders, trouble>>

Upload ==
    /\ screen.on /\ screen.status = "waiting" /\ screen.order # 0
    /\ ~screen.busy /\ ~screen.restoring
    /\ Send("upload", 0, "card", screen.order, FALSE)
    /\ screen' = [screen EXCEPT !.busy = TRUE]
    /\ UNCHANGED <<visit, storage, minted, orders, trouble>>

\* The button leaves the screen when the order is cancelled, "back" does not.
Cancel(exit) ==
    /\ screen.on /\ screen.status = "waiting" /\ screen.order # 0
    /\ ~screen.busy /\ ~screen.restoring
    /\ Send("cancel", 0, "card", screen.order, exit)
    /\ screen' = [screen EXCEPT !.busy = TRUE]
    /\ UNCHANGED <<visit, storage, minted, orders, trouble>>

\* clearStorage and a new key.  An order opened from tracking may not be the
\* one the tab keeps track of.
Anew(s) == [Showing(s, 0, "deleted") EXCEPT !.key = minted + 1]
Empty == [key |-> 0, order |-> 0]
OfAnother(o) == storage.key # 0 /\ orders[o].key # storage.key

Fresh ==
    /\ screen.on /\ screen.order # 0 /\ screen.status \in {"rejected", "paid"}
    /\ ~screen.restoring
    /\ Mint /\ storage' = Empty
    /\ screen' = [Anew(screen) EXCEPT !.quote = FALSE]
    /\ trouble' = (trouble \/ (screen.initial = screen.order /\ OfAnother(screen.order)))
    /\ UNCHANGED <<visit, calls, orders>>

DropQuote ==
    /\ screen.on /\ screen.order = 0 /\ screen.quote /\ ~screen.busy /\ ~screen.restoring
    /\ screen' = [screen EXCEPT !.quote = FALSE]
    /\ UNCHANGED <<visit, storage, minted, calls, orders, trouble>>

\* Back from any other step, another page of the app, the delivered service.
Leave == screen.on /\ Leaves /\ UNCHANGED <<visit, storage, minted, orders, trouble>>

\* The tab is loaded again, or closed: then its storage is gone too.  What it
\* sent is still carried out, or not.
Gone ==
    /\ "reload" \in visit
    /\ screen' = Closed
    /\ calls' = [i \in Slot |->
         IF calls[i].op \in {"checkout", "upload", "cancel"} /\ calls[i].ans = "waiting"
         THEN [calls[i] EXCEPT !.from = "gone"] ELSE Free]
    /\ UNCHANGED <<visit, minted, orders>>
Reload == Gone /\ UNCHANGED <<storage, trouble>>
CloseTab == Gone /\ storage' = Empty /\ trouble' = TRUE

-----------------------------------------------------------------------------
(* The server.  It may refuse any request; an answer may be lost.          *)

Answer(i, st, id) ==
    \/ calls' = [calls EXCEPT ![i].ans = "done", ![i].status = st, ![i].id = id]
    \/ calls' = [calls EXCEPT ![i].ans = "failed"]
Refuse(i) ==
    /\ calls[i].ans = "waiting"
    /\ calls' = [calls EXCEPT ![i].ans = "failed"]
    /\ UNCHANGED <<visit, screen, storage, minted, orders, trouble>>

WithKey(k) == {o \in DOMAIN orders : orders[o].key = k /\ orders[o].status # "deleted"}

ServeRead(i) ==
    /\ calls[i].ans = "waiting"
    /\ \/ calls[i].op = "quote" /\ calls' = [calls EXCEPT ![i].ans = "done"]
       \/ /\ calls[i].op \in {"restore", "refresh"}
          /\ orders[calls[i].id].status # "deleted"
          /\ calls' = [calls EXCEPT ![i].ans = "done", ![i].status = orders[calls[i].id].status]
    /\ UNCHANGED <<visit, screen, storage, minted, orders, trouble>>

\* POST /checkout finds the order of the key or creates it; the same key with
\* another method (or name) is refused.
ServeKnown(i) ==
    /\ calls[i].ans = "waiting" /\ calls[i].op = "checkout"
    /\ \E o \in WithKey(calls[i].key) :
          orders[o].method = calls[i].method /\ Answer(i, orders[o].status, o)
    /\ UNCHANGED <<visit, screen, storage, minted, orders, trouble>>
\* As if the server had a name of its own for it.
NewStatusUnknown(m) == IF m = "card" THEN "waiting" ELSE "wallet"
NewStatus(m) == IF m = "card" THEN "waiting" ELSE "queued"
\* It is trouble when the buyer has gone on since, or had cancelled the order
\* of an earlier request with this key.
ServeNew(i) ==
    LET k == calls[i].key
        st == NewStatus(calls[i].method)
    IN  /\ calls[i].ans = "waiting" /\ calls[i].op = "checkout"
        /\ Len(orders) < MaxOrders /\ WithKey(k) = {}
        /\ orders' = Append(orders, [key |-> k, method |-> calls[i].method, status |-> st])
        /\ Answer(i, st, Len(orders) + 1)
        /\ trouble' = \/ trouble
                      \/ calls[i].from # "live" /\ k # storage.key
                      \/ \E o \in DOMAIN orders : orders[o].key = k
        /\ UNCHANGED <<visit, screen, storage, minted>>

SetStatus(o, st) == orders' = [orders EXCEPT ![o].status = st]

\* A receipt that is there already is not sent again.
ServeUpload(i) ==
    LET o == calls[i].id
        st == IF orders[o].status = "waiting" THEN "uploaded" ELSE orders[o].status
    IN  /\ calls[i].ans = "waiting" /\ calls[i].op = "upload"
        /\ st # "deleted" /\ SetStatus(o, st) /\ Answer(i, st, o)
        /\ UNCHANGED <<visit, screen, storage, minted, trouble>>

\* The row of a cancelled order is deleted; one that is gone is cancelled.
ServeCancel(i) ==
    LET o == calls[i].id
    IN  /\ calls[i].ans = "waiting" /\ calls[i].op = "cancel"
        /\ orders[o].status \in {"waiting", "deleted"}
        /\ SetStatus(o, "deleted") /\ Answer(i, "deleted", o)
        /\ UNCHANGED <<visit, screen, storage, minted, trouble>>

Work(o) ==
    /\ \E st \in Status :
          /\ <<orders[o].status, st>> \in Steps /\ SetStatus(o, st)
          /\ st \in {"failed", "rejected"} => "review" \in visit
    /\ UNCHANGED <<visit, screen, storage, minted, calls, trouble>>

-----------------------------------------------------------------------------
(* The replies.                                                            *)

Done(i, op) == calls[i].op = op /\ calls[i].ans = "done" /\ calls[i].from # "gone"
Removed(i) == [calls EXCEPT ![i] = Free]
Forget(i) == calls' = Removed(i)
IsLive(i) == calls[i].from = "live"

\* The order of the storage cannot be read: the tab forgets it.  One that
\* tracking showed stays on the screen.
RestoreFails(i) ==
    /\ calls[i].op = "restore" /\ calls[i].ans = "failed" /\ Forget(i)
    /\ IF screen.initial # 0
       THEN screen' = [screen EXCEPT !.restoring = FALSE] /\ UNCHANGED <<storage, minted, trouble>>
       ELSE /\ Mint /\ storage' = Empty
            /\ screen' = Anew([screen EXCEPT !.restoring = FALSE])
            /\ trouble' = (trouble \/ orders[calls[i].id].status # "deleted")
    /\ UNCHANGED <<visit, orders>>
Restored(i) ==
    /\ Done(i, "restore") /\ Forget(i)
    /\ screen' = Showing([screen EXCEPT !.restoring = FALSE], calls[i].id, calls[i].status)
    /\ UNCHANGED <<visit, storage, minted, orders, trouble>>

Quoted(i) ==
    /\ Done(i, "quote") /\ Forget(i)
    /\ screen' = [screen EXCEPT !.busy = FALSE, !.quote = TRUE]
    /\ UNCHANGED <<visit, storage, minted, orders, trouble>>

\* As if the flag were only reset on success.
CheckedOnSuccess(s) == s
Checked(s) == [s EXCEPT !.checking = FALSE]

\* Whatever else fails only ends the wait.
Fails(i) ==
    /\ calls[i].op \notin {"free", "restore"}
    /\ calls[i].ans = "failed" \/ (calls[i].ans = "done" /\ calls[i].from = "gone")
    /\ Forget(i)
    /\ screen' = IF ~IsLive(i) THEN screen
                 ELSE IF calls[i].op = "refresh" THEN Checked(screen)
                 ELSE [screen EXCEPT !.busy = FALSE]
    /\ UNCHANGED <<visit, storage, minted, orders, trouble>>

\* The delivered service takes the place of any checkout.
Purchased(i) ==
    LET r == calls[i]  paid == r.status = "paid"
    IN  /\ Done(i, "checkout")
        /\ storage' = IF paid THEN Empty ELSE [storage EXCEPT !.order = r.id]
        /\ IF paid THEN screen' = Closed /\ calls' = Left(Removed(i))
           ELSE /\ Forget(i)
                /\ screen' = IF IsLive(i) THEN Showing([screen EXCEPT !.busy = FALSE], r.id, r.status)
                             ELSE screen
        /\ trouble' = (trouble \/ (~IsLive(i) /\ r.key # storage.key))
        /\ UNCHANGED <<visit, minted, orders>>

Refreshed(i) ==
    LET r == calls[i]  paid == r.status = "paid"
    IN  /\ Done(i, "refresh")
        /\ storage' = IF paid THEN Empty ELSE storage
        /\ IF paid /\ r.flag THEN screen' = Closed /\ calls' = Left(Removed(i))
           ELSE Forget(i) /\ screen' = Showing([screen EXCEPT !.checking = FALSE], r.id, r.status)
        /\ trouble' = \/ trouble \/ r.id # screen.order
                      \/ paid /\ screen.initial = r.id /\ OfAnother(r.id)
        /\ UNCHANGED <<visit, minted, orders>>

Uploaded(i) ==
    /\ Done(i, "upload") /\ Forget(i)
    /\ screen' = IF IsLive(i) THEN Showing([screen EXCEPT !.busy = FALSE], calls[i].id, calls[i].status)
                 ELSE screen
    /\ UNCHANGED <<visit, storage, minted, orders, trouble>>

\* onBack closes the checkout of the page, whichever it is by now.
Cancelled(i) ==
    /\ Done(i, "cancel") /\ storage' = Empty
    /\ IF calls[i].flag THEN screen' = Closed /\ calls' = Left(Removed(i)) /\ UNCHANGED minted
       ELSE /\ Forget(i)
            /\ IF IsLive(i) THEN Mint /\ screen' = Anew([screen EXCEPT !.busy = FALSE])
               ELSE UNCHANGED <<screen, minted>>
    /\ trouble' = \/ trouble
                  \/ (~IsLive(i) \/ screen.initial = calls[i].id) /\ OfAnother(calls[i].id)
                  \/ ~IsLive(i) /\ screen.on /\ screen.order # calls[i].id
    /\ UNCHANGED <<visit, orders>>

-----------------------------------------------------------------------------
CheckoutInit ==
    /\ visit \in Visits /\ screen = Closed /\ storage = Empty /\ minted = 0
    /\ calls = [i \in Slot |-> Free] /\ orders = <<>> /\ trouble = FALSE

Serve(i) == ServeRead(i) \/ ServeKnown(i) \/ ServeNew(i) \/ ServeUpload(i) \/ ServeCancel(i)
Reply(i) ==
    \/ RestoreFails(i) \/ Restored(i) \/ Quoted(i) \/ Fails(i)
    \/ Purchased(i) \/ Refreshed(i) \/ Uploaded(i) \/ Cancelled(i)

CheckoutNext ==
    \/ \E o \in {0} \cup DOMAIN orders : Mount(o)
    \/ Price \/ (\E m \in Method \cap visit : Purchase(m)) \/ Poll \/ Upload
    \/ (\E b \in BOOLEAN : AskStatus(b)) \/ (\E b \in BOOLEAN : Cancel(b))
    \/ Fresh \/ DropQuote \/ Leave \/ Reload \/ CloseTab
    \/ (\E o \in DOMAIN orders : Work(o))
    \/ (\E i \in Slot : Refuse(i) \/ Serve(i) \/ Reply(i))

CheckoutSpec == CheckoutInit /\ [][CheckoutNext]_checkoutVars

\* Every request is answered and its reply handled, and a read that is asked
\* again and again succeeds in the end.  The interval of a visible tab keeps
\* calling (Poll), however often another refresh is under way when it does.
CheckoutFairness ==
    /\ \A i \in Slot : WF_checkoutVars(Refuse(i) \/ Serve(i)) /\ WF_checkoutVars(Reply(i))
                       /\ SF_checkoutVars(ServeRead(i))
    /\ SF_checkoutVars(Poll)

-----------------------------------------------------------------------------
Calls ==
    [op : {"free", "restore", "quote", "checkout", "refresh", "upload", "cancel"},
     from : {"live", "left", "gone"}, key : 0..MaxKeys, method : Method, id : Id,
     flag : BOOLEAN, ans : {"waiting", "done", "failed"}, status : Status]
Screens ==
    [on : BOOLEAN, key : 0..MaxKeys, quote : BOOLEAN, order : Id, status : Status,
     initial : Id, busy : BOOLEAN, restoring : BOOLEAN, checking : BOOLEAN,
     timer : {"none", "live", "deaf"}]

\* The type invariant.
CheckoutTypeOK ==
    /\ visit \in Visits /\ screen \in Screens /\ storage \in [key : 0..MaxKeys, order : Id]
    /\ minted \in 0..MaxKeys /\ calls \in [Slot -> Calls] /\ trouble \in BOOLEAN
    /\ orders \in Seq([key : Key, method : Method, status : Status])
    /\ Len(orders) <= MaxOrders

\* What the tab knows of each order: an open one carries the key it saved.
Book ==
    [o \in DOMAIN orders |->
       IF orders[o].status \in Settled THEN "settled"
       ELSE IF orders[o].key = storage.key THEN "open" ELSE "forgotten"]

\* However often the buyer asks, leaves the checkout, comes back and loads the
\* page again, and whichever answers to a purchase are lost, one purchase makes
\* one order and the tab keeps track of it, but for the cases of trouble (such
\* as a stored order that cannot be read): MiniAppCheckout with the keys of
\* POST /checkout implements BuyOnce.
B == INSTANCE BuyOnce WITH book <- Book
BuysOnce == B!Spec

\* The result of an order on the screen.
Unseen == screen.on /\ screen.status \in Polled /\ orders[screen.order].status \in {"paid", "rejected"}

\* The screen of an order that was placed or restored here (its interval sees
\* an idle screen) comes to show the result without the buyer's help.
ShowsOutcome == (Unseen /\ screen.timer = "live") ~> ~Unseen

\* docs/MINIAPP_CHECKOUT_FA.md:13 says so of every order on the screen: its
\* status is read about every six seconds.
ShowsEveryOutcome == Unseen ~> ~Unseen
=============================================================================

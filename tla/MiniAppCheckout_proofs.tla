----------------------- MODULE MiniAppCheckout_proofs -----------------------
(***************************************************************************)
(* For every number of keys, requests and orders, the checkout of the mini *)
(* app implements BuyOnce: while nothing goes astray, what the buyer asks  *)
(* for once is ordered once, and his tab knows the order that is open.     *)
(***************************************************************************)
EXTENDS MiniAppCheckout, SequenceTheorems, TLAPS

-----------------------------------------------------------------------------
(* The inductive invariant.                                                *)

Asks == {"quote", "checkout", "upload", "cancel"}
Placed == DOMAIN orders

\* Whatever is referred to is there.
Known ==
    /\ screen.order \in {0} \cup Placed /\ screen.initial \in {0} \cup Placed
    /\ storage.order \in {0} \cup Placed
    /\ IF screen.on THEN screen.key \in Key ELSE screen = Closed
    /\ \A i \in Slot :
          /\ calls[i].op \in {"restore", "refresh", "upload", "cancel"} => calls[i].id \in Placed
          /\ calls[i].op = "checkout" => calls[i].key \in Key
          /\ calls[i].op = "checkout" /\ calls[i].ans = "done" =>
                calls[i].id \in Placed /\ orders[calls[i].id].key = calls[i].key

\* A settled order stays as it is, so whoever has read so is right.
Final ==
    /\ screen.order # 0 /\ screen.status \in Settled =>
          orders[screen.order].status = screen.status
    /\ \A i \in Slot : calls[i].op \notin {"free", "quote"} /\ calls[i].ans = "done" =>
          /\ calls[i].status \in Settled => orders[calls[i].id].status = calls[i].status
          /\ calls[i].op = "cancel" => calls[i].status = "deleted"

\* The screen asks for one thing at a time, and reads its order again first.
Alone ==
    /\ \A i \in Slot :
          /\ calls[i].op # "free" /\ IsLive(i) => screen.on
          /\ calls[i].op \in {"restore", "quote", "refresh"} => IsLive(i)
          /\ calls[i].op \in Asks /\ IsLive(i) => screen.busy /\ ~screen.restoring
          /\ calls[i].op = "restore" => screen.restoring
          /\ calls[i].op = "refresh" => ~screen.restoring
    /\ \A i, j \in Slot : i # j =>
          /\ ~(calls[i].op \in Asks /\ IsLive(i) /\ calls[j].op \in Asks /\ IsLive(j))
          /\ ~(calls[i].op = "restore" /\ calls[j].op = "restore")
    /\ screen.restoring => screen.timer # "live" /\ screen.order = screen.initial

\* The screen goes on with the key of the tab.
SameKey == screen.on /\ storage.key # 0 => screen.key = storage.key

\* An order's key is its own, and the tab's while the order is open.
OwnKey == \A o, p \in Placed : orders[o].key = orders[p].key => o = p
OpenKey == \A o \in Placed : orders[o].status \notin Settled => orders[o].key = storage.key
StoredKey == storage.order # 0 => orders[storage.order].key = storage.key

\* So is the key of the order on the screen, unless tracking showed it.
ShownKey ==
    screen.order \notin {0, screen.initial} /\ storage.key # 0 =>
        orders[screen.order].key = storage.key

\* What is asked now is about the order on the screen, or about the next one.
AskedKey ==
    \A i \in Slot : IsLive(i) =>
        /\ calls[i].op = "checkout" => screen.order = 0 /\ calls[i].key = storage.key
        /\ calls[i].op \in {"upload", "cancel"} =>
              \/ screen.order = calls[i].id
              \/ screen.order = 0 /\ storage.key = 0
        /\ calls[i].op = "restore" =>
              calls[i].id = IF screen.initial # 0 THEN screen.initial ELSE storage.order

Kept == ~trouble => OwnKey /\ OpenKey /\ StoredKey /\ ShownKey /\ AskedKey

CheckoutInv == CheckoutTypeOK /\ Known /\ Final /\ Alone /\ SameKey /\ Kept

-----------------------------------------------------------------------------
(* Types and operators.                                                    *)

Asking(op, key, method, id, flag) ==
    [op |-> op, from |-> "live", key |-> key, method |-> method, id |-> id,
     flag |-> flag, ans |-> "waiting", status |-> "deleted"]

\* The rows of the orders.
LEMMA Rows ==
    ASSUME CheckoutTypeOK
    PROVE  /\ Placed = 1..Len(orders) /\ Placed \subseteq Id /\ Len(orders) \in Nat
           /\ \A o \in Placed : /\ orders[o].key \in Key /\ orders[o].method \in Method
                              /\ orders[o].status \in Status
  <1>1. orders \in Seq([key : Key, method : Method, status : Status])
    BY DEF CheckoutTypeOK
  <1>2. Placed = 1..Len(orders) /\ Len(orders) \in Nat /\ Len(orders) <= MaxOrders
    BY <1>1 DEF Placed, CheckoutTypeOK
  <1>3. \A o \in Placed : orders[o] \in [key : Key, method : Method, status : Status]
    BY <1>1, <1>2, ElementOfSeq
  <1> QED  BY <1>2, <1>3, CheckoutAssumption DEF Id

\* A request that is sent takes a slot that is free.
LEMMA SendEffect ==
    ASSUME HasRoom
    PROVE  \E i \in Slot : calls[i] = Free /\ i = CHOOSE j \in Slot : calls[j] = Free
  BY DEF HasRoom

\* Of c, d keeps some requests, and none in the name of the screen.
Gives(c, d) ==
    \A i \in Slot :
       \/ d[i] = Free
       \/ /\ c[i].op \in {"checkout", "upload", "cancel"} /\ d[i].from # "live"
          /\ d[i].op = c[i].op /\ d[i].key = c[i].key /\ d[i].id = c[i].id
          /\ d[i].ans = c[i].ans /\ d[i].status = c[i].status

\* Once the screen is gone nothing is asked in its name.
LEMMA LeftEffect ==
    ASSUME NEW c \in [Slot -> Calls]
    PROVE  Left(c) \in [Slot -> Calls] /\ Gives(c, Left(c))
  <1> DEFINE new(i) == IF c[i].op \in {"free", "restore", "quote", "refresh"} THEN Free
                       ELSE [c[i] EXCEPT !.from = IF @ = "live" THEN "left" ELSE @]
  <1>1. Free \in Calls
    BY CheckoutAssumption DEF Free, Calls, Method, Id, Status
  <1>2. \A i \in Slot :
           /\ new(i) \in Calls
           /\ \/ new(i) = Free
              \/ /\ c[i].op \in {"checkout", "upload", "cancel"}
                 /\ new(i).from # "live"
                 /\ new(i).op = c[i].op /\ new(i).key = c[i].key
                 /\ new(i).id = c[i].id /\ new(i).ans = c[i].ans
                 /\ new(i).status = c[i].status
    <2> SUFFICES ASSUME NEW i \in Slot
                 PROVE  /\ new(i) \in Calls
                        /\ \/ new(i) = Free
                           \/ /\ c[i].op \in {"checkout", "upload", "cancel"}
                              /\ new(i).from # "live"
                              /\ new(i).op = c[i].op /\ new(i).key = c[i].key
                              /\ new(i).id = c[i].id /\ new(i).ans = c[i].ans
                              /\ new(i).status = c[i].status
      OBVIOUS
    <2>1. c[i] \in Calls
      OBVIOUS
    <2> QED  BY <1>1, <2>1 DEF Calls
  <1>3. Left(c) = [i \in Slot |-> new(i)]
    BY DEF Left
  <1> HIDE DEF new
  <1> QED  BY <1>2, <1>3 DEF Gives

\* What the screen shows, and that it polls only while it is idle.
LEMMA ShowingEffect ==
    ASSUME NEW s \in Screens, NEW o \in Id, NEW st \in Status
    PROVE  /\ Showing(s, o, st) \in Screens
           /\ Showing(s, o, st).order = o /\ Showing(s, o, st).status = st
           /\ Showing(s, o, st).on = s.on /\ Showing(s, o, st).key = s.key
           /\ Showing(s, o, st).initial = s.initial /\ Showing(s, o, st).busy = s.busy
           /\ Showing(s, o, st).restoring = s.restoring
           /\ s.restoring /\ s.timer # "live" => Showing(s, o, st).timer # "live"
  BY DEF Showing, Screens

\* An order's status changes, its key never does.
LEMMA SetStatusEffect ==
    ASSUME CheckoutTypeOK, NEW o \in Placed, NEW st \in Status, SetStatus(o, st)
    PROVE  /\ orders' \in Seq([key : Key, method : Method, status : Status])
           /\ Len(orders') = Len(orders) /\ Placed' = Placed
           /\ \A p \in Placed :
                 /\ orders'[p].key = orders[p].key
                 /\ orders'[p].status = IF p = o THEN st ELSE orders[p].status
  <1> DEFINE R == [key : Key, method : Method, status : Status]
  <1>1. /\ orders \in Seq(R) /\ orders' = [orders EXCEPT ![o].status = st]
        /\ Placed = 1..Len(orders) /\ Len(orders) \in Nat
        /\ \A p \in Placed : orders[p] \in R
    BY Rows, ElementOfSeq DEF CheckoutTypeOK, SetStatus
  <1>2. [orders[o] EXCEPT !.status = st] \in R
    BY <1>1
  <1>3. orders' = [orders EXCEPT ![o] = [orders[o] EXCEPT !.status = st]]
    BY <1>1
  <1>4. orders' \in Seq(R) /\ Len(orders') = Len(orders) /\ DOMAIN orders' = DOMAIN orders
    <2> HIDE DEF R
    <2> QED  BY <1>1, <1>2, <1>3, ExceptSeq
  <1>5. \A p \in Placed : orders'[p] = IF p = o THEN [orders[o] EXCEPT !.status = st]
                                       ELSE orders[p]
    BY <1>3 DEF Placed
  <1>6. \A p \in Placed : /\ orders'[p].key = orders[p].key
                          /\ orders'[p].status = IF p = o THEN st ELSE orders[p].status
    BY <1>1, <1>5
  <1> QED  BY <1>4, <1>6 DEF Placed

\* Whatever was answered about an order names it.
LEMMA DoneKnown ==
    ASSUME CheckoutInv
    PROVE  \A i \in Slot : calls[i].op \notin {"free", "quote"} /\ calls[i].ans = "done" =>
              calls[i].id \in Placed
  BY DEF CheckoutInv, CheckoutTypeOK, Calls, Known

\* What is ordered is the last row.
LEMMA AppendEffect ==
    ASSUME CheckoutTypeOK, NEW k \in Key, NEW m \in Method, NEW st \in Status,
           orders' = Append(orders, [key |-> k, method |-> m, status |-> st]),
           Len(orders) < MaxOrders
    PROVE  /\ orders' \in Seq([key : Key, method : Method, status : Status])
           /\ Len(orders') <= MaxOrders
           /\ Placed' = Placed \cup {Len(orders) + 1} /\ Len(orders) + 1 \notin Placed
           /\ Len(orders) + 1 \in Id \ {0}
           /\ \A p \in Placed : orders'[p] = orders[p]
           /\ orders'[Len(orders) + 1].key = k /\ orders'[Len(orders) + 1].status = st
  <1> DEFINE r == [key |-> k, method |-> m, status |-> st]
             R == [key : Key, method : Method, status : Status]
  <1>1. orders \in Seq(R) /\ r \in R /\ Placed = 1..Len(orders) /\ Len(orders) \in Nat
    BY Rows DEF CheckoutTypeOK
  <1>2. /\ orders' \in Seq(R) /\ Len(orders') = Len(orders) + 1
        /\ \A p \in 1..Len(orders) : orders'[p] = orders[p]
        /\ orders'[Len(orders) + 1] = r
    <2> HIDE DEF R, r
    <2>1. orders' = Append(orders, r)
      BY DEF r
    <2> QED  BY <1>1, <2>1, AppendProperties
  <1>3. Placed' = 1..(Len(orders) + 1)
    BY <1>2 DEF Placed
  <1> QED  BY <1>1, <1>2, <1>3, CheckoutAssumption DEF Id

\* A request that is answered.
Answered(i, st, id) ==
    \A j \in Slot :
       /\ calls'[j].op = calls[j].op /\ calls'[j].from = calls[j].from
       /\ calls'[j].key = calls[j].key
       /\ \/ calls'[j].id = calls[j].id
             /\ calls'[j].status = calls[j].status
             /\ (calls'[j].ans = calls[j].ans \/ calls'[j].ans = "failed")
          \/ j = i /\ calls'[j].id = id /\ calls'[j].status = st

\* Only the answer of the request itself changes.
LEMMA AnswerEffect ==
    ASSUME CheckoutTypeOK, NEW i \in Slot, NEW st \in Status, NEW id \in Id,
           Answer(i, st, id)
    PROVE  calls' \in [Slot -> Calls] /\ Answered(i, st, id)
  <1> DEFINE done == [calls[i] EXCEPT !.ans = "done", !.status = st, !.id = id]
             failed == [calls[i] EXCEPT !.ans = "failed"]
  <1>1. calls \in [Slot -> Calls] /\ calls[i] \in Calls
    BY DEF CheckoutTypeOK
  <1>2. PICK c \in {done, failed} : calls' = [calls EXCEPT ![i] = c]
    BY DEF Answer
  <1>3. /\ c \in Calls /\ c.op = calls[i].op /\ c.from = calls[i].from /\ c.key = calls[i].key
        /\ \/ c.id = calls[i].id /\ c.status = calls[i].status /\ c.ans = "failed"
           \/ c.id = id /\ c.status = st
    BY <1>1 DEF Calls
  <1> HIDE DEF done, failed
  <1>4. calls'[i] = c /\ \A j \in Slot \ {i} : calls'[j] = calls[j]
    BY <1>1, <1>2
  <1>5. calls' \in [Slot -> Calls]
    BY <1>1, <1>2, <1>3
  <1> QED  BY <1>3, <1>4, <1>5 DEF Answered

\* An empty slot.
LEMMA FreeCall == Free \in Calls
  BY CheckoutAssumption DEF Free, Calls, Method, Id, Status

\* A reply that is handled frees its slot and no other.
LEMMA ForgetEffect ==
    ASSUME CheckoutTypeOK, NEW i \in Slot
    PROVE  /\ Removed(i) \in [Slot -> Calls]
           /\ Removed(i)[i] = Free /\ Removed(i)[i].op = "free"
           /\ \A j \in Slot \ {i} : Removed(i)[j] = calls[j]
  BY FreeCall DEF CheckoutTypeOK, Removed, Free

\* A reply that closes the screen.
LEMMA ClosingEffect ==
    ASSUME CheckoutTypeOK, NEW i \in Slot
    PROVE  Left(Removed(i)) \in [Slot -> Calls] /\ Gives(calls, Left(Removed(i)))
  <1>1. Left(Removed(i)) \in [Slot -> Calls] /\ Gives(Removed(i), Left(Removed(i)))
    BY ForgetEffect, LeftEffect
  <1>2. Removed(i)[i] = Free /\ \A j \in Slot \ {i} : Removed(i)[j] = calls[j]
    BY ForgetEffect
  <1>3. Free.op = "free"
    BY DEF Free
  <1> QED  BY <1>1, <1>2, <1>3 DEF Gives

\* The checkout that is closed.
LEMMA ClosedScreen == Closed \in Screens /\ Closed.order = 0 /\ Closed.timer = "none"
  <1>1. 0 \in Id /\ "deleted" \in Status /\ 0 \in 0..MaxKeys
    BY CheckoutAssumption DEF Id, Status
  <1> QED  BY <1>1 DEF Closed, Screens

\* What is mounted anew has no order.
LEMMA AnewEffect ==
    ASSUME NEW s \in Screens, CheckoutTypeOK, Mint
    PROVE  /\ Anew(s) \in Screens /\ Anew(s).order = 0 /\ Anew(s).key \in Key
           /\ Anew(s).on = s.on /\ Anew(s).initial = s.initial /\ Anew(s).busy = s.busy
           /\ Anew(s).restoring = s.restoring
           /\ s.restoring /\ s.timer # "live" => Anew(s).timer # "live"
           /\ minted' \in 0..MaxKeys
  <1>1. 0 \in Id /\ "deleted" \in Status
    BY CheckoutAssumption DEF Id, Status
  <1>2. minted + 1 \in Key /\ minted' = minted + 1
    BY CheckoutAssumption DEF Mint, CheckoutTypeOK, Key
  <1>3. minted + 1 \in 0..MaxKeys /\ Anew(s) = [Showing(s, 0, "deleted") EXCEPT !.key = minted + 1]
    BY <1>2 DEF Key, Anew
  <1>4. /\ Showing(s, 0, "deleted") \in Screens
        /\ Showing(s, 0, "deleted").order = 0
        /\ Showing(s, 0, "deleted").on = s.on
        /\ Showing(s, 0, "deleted").initial = s.initial
        /\ Showing(s, 0, "deleted").busy = s.busy
        /\ Showing(s, 0, "deleted").restoring = s.restoring
        /\ s.restoring /\ s.timer # "live" => Showing(s, 0, "deleted").timer # "live"
    BY <1>1, ShowingEffect
  <1> QED  BY <1>2, <1>3, <1>4 DEF Screens

\* Nothing is open once the order that has the tab's key is settled.
LEMMA NothingOpen ==
    ASSUME CheckoutInv, ~trouble, NEW o \in Placed, orders[o].status \in Settled,
           storage.key # 0 => orders[o].key = storage.key
    PROVE  \A p \in Placed : orders[p].status \in Settled
  <1>1. \A p \in Placed : orders[p].key # 0
    BY Rows DEF CheckoutInv, Key
  <1> QED  BY <1>1 DEF CheckoutInv, Kept, OwnKey, OpenKey

-----------------------------------------------------------------------------
(* Steps of the book.                                                      *)

Marks == {"settled", "open", "forgotten"}
Implements == [B!Next]_<<Book, trouble>>

\* A mark for each of 1..n.
LEMMA MarksSeq ==
    ASSUME NEW n \in Nat, NEW f, f = [o \in 1..n |-> f[o]], \A o \in 1..n : f[o] \in Marks
    PROVE  f \in Seq(Marks) /\ Len(f) = n
  <1>1. f \in Seq(Marks)
    OBVIOUS
  <1> QED  BY <1>1

\* The book has one mark per order.
LEMMA BookRows ==
    ASSUME CheckoutTypeOK
    PROVE  /\ Book \in Seq(Marks) /\ Len(Book) = Len(orders) /\ DOMAIN Book = Placed
           /\ Book = [o \in Placed |-> Book[o]]
           /\ \A o \in Placed :
                 /\ Book[o] = "settled" <=> orders[o].status \in Settled
                 /\ Book[o] = "open" <=>
                       orders[o].status \notin Settled /\ orders[o].key = storage.key
                 /\ Book[o] \in Marks
  <1>1. DOMAIN Book = Placed /\ Placed = 1..Len(orders) /\ Len(orders) \in Nat
    BY Rows DEF Book, Placed
  <1>2. \A o \in Placed : Book[o] =
           IF orders[o].status \in Settled THEN "settled"
           ELSE IF orders[o].key = storage.key THEN "open" ELSE "forgotten"
    BY DEF Book, Placed
  <1>3. \A o \in Placed : Book[o] \in Marks
    BY <1>2 DEF Marks
  <1>4. Book = [o \in Placed |-> Book[o]]
    BY DEF Book, Placed
  <1>5. Book \in Seq(Marks)
    BY <1>1, <1>3, <1>4
  <1>6. Len(Book) = Len(orders)
    BY <1>1, <1>5
  <1> QED  BY <1>1, <1>2, <1>3, <1>4, <1>5, <1>6

\* No order is placed or settled, and without trouble none is lost.
LEMMA SteadyBook ==
    ASSUME CheckoutTypeOK, CheckoutTypeOK', orders' = orders,
           ~trouble' => /\ ~trouble
                        /\ \/ storage'.key = storage.key
                           \/ \A p \in Placed : orders[p].status \in Settled
    PROVE  Implements
  <1>1. CASE trouble'
    <2>1. trouble' = TRUE
      BY <1>1 DEF CheckoutTypeOK
    <2>2. DOMAIN Book' = DOMAIN Book
      BY DEF Book
    <2>3. \A o \in DOMAIN Book : Book'[o] # Book[o] => {Book[o], Book'[o]} = {"open", "forgotten"}
      BY DEF Book
    <2> QED  BY <2>1, <2>2, <2>3 DEF Implements, B!Next, B!Astray
  <1>2. CASE ~trouble'
    <2>1. trouble' = trouble
      BY <1>2 DEF CheckoutTypeOK
    <2>2. Book' = Book
      BY <1>2 DEF Book, Placed
    <2> QED  BY <2>1, <2>2 DEF Implements
  <1> QED  BY <1>1, <1>2

\* The status of one order changes.
LEMMA SettledBook ==
    ASSUME CheckoutTypeOK, UNCHANGED <<storage, trouble>>, NEW o \in Placed, NEW st \in Status,
           Placed' = Placed,
           \A p \in Placed : /\ orders'[p].key = orders[p].key
                             /\ orders'[p].status = IF p = o THEN st ELSE orders[p].status,
           orders[o].status \in Settled => st = orders[o].status
    PROVE  Implements
  <1>1. /\ Book' = [p \in Placed |-> IF orders'[p].status \in Settled THEN "settled"
                                     ELSE IF orders'[p].key = storage'.key THEN "open"
                                     ELSE "forgotten"]
        /\ Book = [p \in Placed |-> IF orders[p].status \in Settled THEN "settled"
                                    ELSE IF orders[p].key = storage.key THEN "open"
                                    ELSE "forgotten"]
    BY DEF Book, Placed
  <1>2. CASE st \in Settled
    <2>1. Book' = [Book EXCEPT ![o] = "settled"]
      BY <1>1, <1>2
    <2>2. o \in DOMAIN Book
      BY <1>1
    <2> QED  BY <2>1, <2>2 DEF Implements, B!Next, B!Settle
  <1>3. CASE st \notin Settled
    <2>1. Book' = Book
      BY <1>1, <1>3
    <2> QED  BY <2>1 DEF Implements
  <1> QED  BY <1>2, <1>3

\* An order is placed: while nothing went astray it is the only open one.
LEMMA PlacedBook ==
    ASSUME CheckoutTypeOK, CheckoutTypeOK', UNCHANGED storage, NEW k \in Key,
           Placed' = Placed \cup {Len(orders) + 1}, Len(orders) + 1 \notin Placed,
           \A p \in Placed : orders'[p] = orders[p],
           orders'[Len(orders) + 1].key = k, orders'[Len(orders) + 1].status \notin Settled,
           WithKey(k) = {}, trouble => trouble', k # storage.key => trouble'
    PROVE  Implements
  <1> DEFINE new == Len(orders) + 1
             mark == IF k = storage.key THEN "open" ELSE "forgotten"
  <1>1. Book \in Seq(Marks) /\ Len(Book) = Len(orders) /\ DOMAIN Book = Placed
    BY BookRows
  <1>2. /\ Len(orders) \in Nat /\ Placed = 1..Len(orders) /\ Placed' = 1..new
        /\ new \in Nat /\ mark \in Marks
    BY Rows DEF Marks
  <1>3. Book' \in Seq(Marks) /\ Len(Book') = new
    <2>1. Book' = [o \in 1..new |-> Book'[o]]
      BY <1>2 DEF Book, Placed
    <2>2. \A o \in 1..new : Book'[o] \in Marks
      BY <1>2 DEF Book, Placed, Marks
    <2> QED  BY <1>2, <2>1, <2>2, MarksSeq
  <1>4. \A p \in Placed : Book'[p] = Book[p]
    BY DEF Book, Placed
  <1>5. Book'[new] = mark
    BY DEF Book, Placed
  <1> HIDE DEF mark
  <1>6. Book' = Append(Book, mark)
    <2>1. /\ Append(Book, mark) \in Seq(Marks) /\ Len(Append(Book, mark)) = new
          /\ \A p \in Placed : Append(Book, mark)[p] = Book[p]
          /\ Append(Book, mark)[new] = mark
      BY <1>1, <1>2, AppendProperties
    <2>2. \A p \in 1..new : Book'[p] = Append(Book, mark)[p]
      BY <1>2, <1>4, <1>5, <2>1
    <2> QED  BY <1>3, <2>1, <2>2, SeqEqual
  <1>7. CASE k = storage.key
    <2>1. B!Open = {}
      <3>1. \A o \in Placed : orders[o].key = k => orders[o].status \in Settled
        BY DEF WithKey, Placed, Settled
      <3> QED  BY <1>1, <1>7, <3>1, BookRows DEF B!Open
    <2>2. B!Enter
      BY <1>6, <1>7, <2>1 DEF B!Enter, mark
    <2> QED  BY <2>2 DEF Implements, B!Next, B!Place, B!Astray, CheckoutTypeOK
  <1>8. CASE k # storage.key
    <2>1. trouble' = TRUE /\ Book' = Append(Book, "forgotten")
      BY <1>6, <1>8 DEF mark, CheckoutTypeOK
    <2> QED  BY <2>1 DEF Implements, B!Next, B!Astray
  <1> QED  BY <1>7, <1>8

-----------------------------------------------------------------------------
(* The steps, one lemma per action (or per outcome of one): the invariant  *)
(* is preserved, and the book takes a step of BuyOnce or none.             *)

\* Asking for the price.
LEMMA PriceStep ==
    ASSUME CheckoutInv, Price
    PROVE  CheckoutInv' /\ Implements
  <1>1. PICK i \in Slot : calls[i] = Free /\ i = CHOOSE j \in Slot : calls[j] = Free
    BY SendEffect DEF Price, Send
  <1>2. calls' = [calls EXCEPT ![i] = Asking("quote", 0, "card", 0, FALSE)]
    BY <1>1 DEF Price, Send, Put, Asking
  <1>3. calls' \in [Slot -> Calls]
    BY <1>2, CheckoutAssumption
       DEF CheckoutInv, CheckoutTypeOK, Screens, Asking, Calls, Method, Id, Status, Known,
           Placed
  <1>4. /\ screen' = [screen EXCEPT !.busy = TRUE]
        /\ UNCHANGED <<visit, storage, minted, orders, trouble>>
        /\ screen.on /\ screen.order = 0 /\ ~screen.busy /\ ~screen.restoring
    BY DEF Price
  <1>5. CheckoutTypeOK'
    BY <1>1, <1>2, <1>3, <1>4 DEF CheckoutInv, CheckoutTypeOK, Screens, Closed
  <1>6. Known'
    BY <1>1, <1>2, <1>3, <1>4
       DEF CheckoutInv, CheckoutTypeOK, Screens, Known, Placed, Asking, Closed
  <1>7. Final'
    BY <1>1, <1>2, <1>3, <1>4
       DEF CheckoutInv, CheckoutTypeOK, Screens, Known, Final, Asking, Closed
  <1>8. Alone'
    BY <1>1, <1>2, <1>3, <1>4, ZenonT(60)
       DEF CheckoutInv, CheckoutTypeOK, Screens, Alone, IsLive, Asks, Asking, Closed
  <1>9. SameKey'
    BY <1>1, <1>2, <1>3, <1>4 DEF CheckoutInv, CheckoutTypeOK, Screens, SameKey, Closed
  <1>10. Kept'
    BY <1>1, <1>2, <1>3, <1>4
       DEF CheckoutInv, CheckoutTypeOK, Screens, Known, Kept, OwnKey, OpenKey, StoredKey,
           ShownKey, AskedKey, Placed, IsLive, Asking, Closed
  <1>11. Implements
    BY <1>1, <1>2, <1>3, <1>4, <1>5, SteadyBook DEF CheckoutInv
  <1> QED  BY <1>5, <1>6, <1>7, <1>8, <1>9, <1>10, <1>11 DEF CheckoutInv

\* The key is saved before the request: it is the tab's, or nothing is open.
LEMMA PurchaseStep ==
    ASSUME CheckoutInv, NEW m \in Method, Purchase(m)
    PROVE  CheckoutInv' /\ Implements
  <1>1. PICK i \in Slot : calls[i] = Free /\ i = CHOOSE j \in Slot : calls[j] = Free
    BY SendEffect DEF Purchase, Send
  <1>2. calls' = [calls EXCEPT ![i] = Asking("checkout", screen.key, m, 0, FALSE)]
    BY <1>1 DEF Purchase, Send, Put, Asking
  <1>3. calls' \in [Slot -> Calls]
    BY <1>2, CheckoutAssumption
       DEF CheckoutInv, CheckoutTypeOK, Screens, Asking, Calls, Method, Id, Status, Known,
           Placed
  <1>4. /\ screen' = [screen EXCEPT !.busy = TRUE]
        /\ storage' = [storage EXCEPT !.key = screen.key]
        /\ UNCHANGED <<visit, minted, orders, trouble>>
        /\ screen.on /\ screen.order = 0 /\ ~screen.busy /\ ~screen.restoring
    BY DEF Purchase, Saved
  <1>5. screen.key \in Key /\ (storage.key = 0 \/ storage.key = screen.key)
    BY <1>4 DEF CheckoutInv, Known, SameKey
  <1>6. CheckoutTypeOK'
    BY <1>1, <1>2, <1>3, <1>4, <1>5 DEF CheckoutInv, CheckoutTypeOK, Screens, Closed, Key
  <1>7. Known'
    BY <1>1, <1>2, <1>3, <1>4, <1>5
       DEF CheckoutInv, CheckoutTypeOK, Screens, Known, Placed, Asking, Closed, Key
  <1>8. Final'
    BY <1>1, <1>2, <1>3, <1>4, <1>5
       DEF CheckoutInv, CheckoutTypeOK, Screens, Known, Final, Asking, Closed
  <1>9. Alone'
    BY <1>1, <1>2, <1>3, <1>4, <1>5, ZenonT(60)
       DEF CheckoutInv, CheckoutTypeOK, Screens, Alone, IsLive, Asks, Asking, Closed
  <1>10. SameKey'
    BY <1>1, <1>2, <1>3, <1>4, <1>5 DEF CheckoutInv, CheckoutTypeOK, Screens, SameKey, Closed
  <1>11. Kept'
    <2> SUFFICES ASSUME ~trouble
                 PROVE  OwnKey' /\ OpenKey' /\ StoredKey' /\ ShownKey' /\ AskedKey'
      BY <1>4 DEF Kept
    <2>1. OwnKey /\ OpenKey /\ StoredKey /\ ShownKey /\ AskedKey
      BY DEF CheckoutInv, Kept
    <2>2. OwnKey' /\ ShownKey'
      BY <1>4, <2>1 DEF CheckoutInv, CheckoutTypeOK, Screens, OwnKey, ShownKey, Placed
    <2>3. \A o \in Placed : orders[o].key \in Key
      BY Rows DEF CheckoutInv
    <2>4. OpenKey'
      BY <1>4, <1>5, <2>1, <2>3 DEF CheckoutInv, CheckoutTypeOK, OpenKey, Placed, Key
    <2>5. StoredKey'
      BY <1>4, <1>5, <2>1, <2>3 DEF CheckoutInv, CheckoutTypeOK, Known, StoredKey, Placed, Key
    <2>6. AskedKey'
      BY <1>1, <1>2, <1>3, <1>4, <1>5, <2>1
         DEF CheckoutInv, CheckoutTypeOK, Screens, Alone, AskedKey, IsLive, Asking, Asks, Key
    <2> QED  BY <2>2, <2>4, <2>5, <2>6
  <1>12. Implements
    <2>1. \A o \in Placed : orders[o].key # 0
      BY Rows DEF CheckoutInv, Key
    <2>2. ~trouble /\ storage.key = 0 => \A o \in Placed : orders[o].status \in Settled
      BY <2>1 DEF CheckoutInv, Kept, OpenKey
    <2>3. storage.key # 0 => storage'.key = storage.key
      BY <1>4, <1>5 DEF CheckoutInv, CheckoutTypeOK
    <2> QED  BY <1>4, <1>6, <2>2, <2>3, SteadyBook DEF CheckoutInv
  <1> QED  BY <1>6, <1>7, <1>8, <1>9, <1>10, <1>11, <1>12 DEF CheckoutInv

\* Asking for the status again.
LEMMA AskStatusStep ==
    ASSUME CheckoutInv, NEW open \in BOOLEAN, AskStatus(open)
    PROVE  CheckoutInv' /\ Implements
  <1>1. PICK i \in Slot : calls[i] = Free /\ i = CHOOSE j \in Slot : calls[j] = Free
    BY SendEffect DEF AskStatus, CanRefresh
  <1>2. calls' = [calls EXCEPT ![i] = Asking("refresh", 0, "card", screen.order, open)]
    BY <1>1 DEF AskStatus, Send, Put, Asking
  <1>3. calls' \in [Slot -> Calls]
    BY <1>2, CheckoutAssumption
       DEF CheckoutInv, CheckoutTypeOK, Screens, Asking, Calls, Method, Id, Status, Known,
           Placed
  <1>4. /\ screen' = [screen EXCEPT !.checking = TRUE]
        /\ UNCHANGED <<visit, storage, minted, orders, trouble>>
        /\ screen.on /\ screen.order # 0 /\ ~screen.restoring
    BY DEF AskStatus, CanRefresh
  <1>5. CheckoutTypeOK'
    BY <1>1, <1>2, <1>3, <1>4 DEF CheckoutInv, CheckoutTypeOK, Screens, Closed
  <1>6. Known'
    BY <1>1, <1>2, <1>3, <1>4
       DEF CheckoutInv, CheckoutTypeOK, Screens, Known, Placed, Asking, Closed
  <1>7. Final'
    BY <1>1, <1>2, <1>3, <1>4
       DEF CheckoutInv, CheckoutTypeOK, Screens, Known, Final, Asking, Closed
  <1>8. Alone'
    BY <1>1, <1>2, <1>3, <1>4
       DEF CheckoutInv, CheckoutTypeOK, Screens, Alone, IsLive, Asks, Asking, Closed
  <1>9. SameKey'
    BY <1>1, <1>2, <1>3, <1>4 DEF CheckoutInv, CheckoutTypeOK, Screens, SameKey, Closed
  <1>10. Kept'
    BY <1>1, <1>2, <1>3, <1>4
       DEF CheckoutInv, CheckoutTypeOK, Screens, Known, Kept, OwnKey, OpenKey, StoredKey,
           ShownKey, AskedKey, Placed, IsLive, Asking, Closed
  <1>11. Implements
    BY <1>1, <1>2, <1>3, <1>4, <1>5, SteadyBook DEF CheckoutInv
  <1> QED  BY <1>5, <1>6, <1>7, <1>8, <1>9, <1>10, <1>11 DEF CheckoutInv

\* The interval calls an idle screen only, so never one that is being restored.
LEMMA PollStep ==
    ASSUME CheckoutInv, Poll
    PROVE  CheckoutInv' /\ Implements
  <1>1. PICK i \in Slot : calls[i] = Free /\ i = CHOOSE j \in Slot : calls[j] = Free
    BY SendEffect DEF Poll, CanRefresh
  <1>2. calls' = [calls EXCEPT ![i] = Asking("refresh", 0, "card", screen.order, TRUE)]
    BY <1>1 DEF Poll, Send, Put, Asking
  <1>3. calls' \in [Slot -> Calls]
    BY <1>2, CheckoutAssumption
       DEF CheckoutInv, CheckoutTypeOK, Screens, Asking, Calls, Method, Id, Status, Known,
           Placed
  <1>4. /\ screen' = [screen EXCEPT !.checking = TRUE]
        /\ UNCHANGED <<visit, storage, minted, orders, trouble>>
        /\ screen.on /\ screen.order # 0 /\ ~screen.restoring
    BY DEF Poll, CanRefresh, CheckoutInv, Alone
  <1>5. CheckoutTypeOK'
    BY <1>1, <1>2, <1>3, <1>4 DEF CheckoutInv, CheckoutTypeOK, Screens, Closed
  <1>6. Known'
    BY <1>1, <1>2, <1>3, <1>4
       DEF CheckoutInv, CheckoutTypeOK, Screens, Known, Placed, Asking, Closed
  <1>7. Final'
    BY <1>1, <1>2, <1>3, <1>4
       DEF CheckoutInv, CheckoutTypeOK, Screens, Known, Final, Asking, Closed
  <1>8. Alone'
    BY <1>1, <1>2, <1>3, <1>4
       DEF CheckoutInv, CheckoutTypeOK, Screens, Alone, IsLive, Asks, Asking, Closed
  <1>9. SameKey'
    BY <1>1, <1>2, <1>3, <1>4 DEF CheckoutInv, CheckoutTypeOK, Screens, SameKey, Closed
  <1>10. Kept'
    BY <1>1, <1>2, <1>3, <1>4
       DEF CheckoutInv, CheckoutTypeOK, Screens, Known, Kept, OwnKey, OpenKey, StoredKey,
           ShownKey, AskedKey, Placed, IsLive, Asking, Closed
  <1>11. Implements
    BY <1>1, <1>2, <1>3, <1>4, <1>5, SteadyBook DEF CheckoutInv
  <1> QED  BY <1>5, <1>6, <1>7, <1>8, <1>9, <1>10, <1>11 DEF CheckoutInv

\* The receipt.
LEMMA UploadStep ==
    ASSUME CheckoutInv, Upload
    PROVE  CheckoutInv' /\ Implements
  <1>1. PICK i \in Slot : calls[i] = Free /\ i = CHOOSE j \in Slot : calls[j] = Free
    BY SendEffect DEF Upload, Send
  <1>2. calls' = [calls EXCEPT ![i] = Asking("upload", 0, "card", screen.order, FALSE)]
    BY <1>1 DEF Upload, Send, Put, Asking
  <1>3. calls' \in [Slot -> Calls]
    BY <1>2, CheckoutAssumption
       DEF CheckoutInv, CheckoutTypeOK, Screens, Asking, Calls, Method, Id, Status, Known,
           Placed
  <1>4. /\ screen' = [screen EXCEPT !.busy = TRUE]
        /\ UNCHANGED <<visit, storage, minted, orders, trouble>>
        /\ screen.on /\ screen.order # 0 /\ ~screen.busy /\ ~screen.restoring
    BY DEF Upload
  <1>5. CheckoutTypeOK'
    BY <1>1, <1>2, <1>3, <1>4 DEF CheckoutInv, CheckoutTypeOK, Screens, Closed
  <1>6. Known'
    BY <1>1, <1>2, <1>3, <1>4
       DEF CheckoutInv, CheckoutTypeOK, Screens, Known, Placed, Asking, Closed
  <1>7. Final'
    BY <1>1, <1>2, <1>3, <1>4
       DEF CheckoutInv, CheckoutTypeOK, Screens, Known, Final, Asking, Closed
  <1>8. Alone'
    BY <1>1, <1>2, <1>3, <1>4, ZenonT(60)
       DEF CheckoutInv, CheckoutTypeOK, Screens, Alone, IsLive, Asks, Asking, Closed
  <1>9. SameKey'
    BY <1>1, <1>2, <1>3, <1>4 DEF CheckoutInv, CheckoutTypeOK, Screens, SameKey, Closed
  <1>10. Kept'
    BY <1>1, <1>2, <1>3, <1>4
       DEF CheckoutInv, CheckoutTypeOK, Screens, Known, Kept, OwnKey, OpenKey, StoredKey,
           ShownKey, AskedKey, Placed, IsLive, Asking, Closed
  <1>11. Implements
    BY <1>1, <1>2, <1>3, <1>4, <1>5, SteadyBook DEF CheckoutInv
  <1> QED  BY <1>5, <1>6, <1>7, <1>8, <1>9, <1>10, <1>11 DEF CheckoutInv

\* Cancelling.
LEMMA CancelStep ==
    ASSUME CheckoutInv, NEW exit \in BOOLEAN, Cancel(exit)
    PROVE  CheckoutInv' /\ Implements
  <1>1. PICK i \in Slot : calls[i] = Free /\ i = CHOOSE j \in Slot : calls[j] = Free
    BY SendEffect DEF Cancel, Send
  <1>2. calls' = [calls EXCEPT ![i] = Asking("cancel", 0, "card", screen.order, exit)]
    BY <1>1 DEF Cancel, Send, Put, Asking
  <1>3. calls' \in [Slot -> Calls]
    BY <1>2, CheckoutAssumption
       DEF CheckoutInv, CheckoutTypeOK, Screens, Asking, Calls, Method, Id, Status, Known,
           Placed
  <1>4. /\ screen' = [screen EXCEPT !.busy = TRUE]
        /\ UNCHANGED <<visit, storage, minted, orders, trouble>>
        /\ screen.on /\ screen.order # 0 /\ ~screen.busy /\ ~screen.restoring
    BY DEF Cancel
  <1>5. CheckoutTypeOK'
    BY <1>1, <1>2, <1>3, <1>4 DEF CheckoutInv, CheckoutTypeOK, Screens, Closed
  <1>6. Known'
    BY <1>1, <1>2, <1>3, <1>4
       DEF CheckoutInv, CheckoutTypeOK, Screens, Known, Placed, Asking, Closed
  <1>7. Final'
    BY <1>1, <1>2, <1>3, <1>4
       DEF CheckoutInv, CheckoutTypeOK, Screens, Known, Final, Asking, Closed
  <1>8. Alone'
    BY <1>1, <1>2, <1>3, <1>4
       DEF CheckoutInv, CheckoutTypeOK, Screens, Alone, IsLive, Asks, Asking, Closed
  <1>9. SameKey'
    BY <1>1, <1>2, <1>3, <1>4 DEF CheckoutInv, CheckoutTypeOK, Screens, SameKey, Closed
  <1>10. Kept'
    BY <1>1, <1>2, <1>3, <1>4
       DEF CheckoutInv, CheckoutTypeOK, Screens, Known, Kept, OwnKey, OpenKey, StoredKey,
           ShownKey, AskedKey, Placed, IsLive, Asking, Closed
  <1>11. Implements
    BY <1>1, <1>2, <1>3, <1>4, <1>5, SteadyBook DEF CheckoutInv
  <1> QED  BY <1>5, <1>6, <1>7, <1>8, <1>9, <1>10, <1>11 DEF CheckoutInv

\* Back from the price.
LEMMA DropQuoteStep ==
    ASSUME CheckoutInv, DropQuote
    PROVE  CheckoutInv' /\ Implements
  <1>1. /\ screen' = [screen EXCEPT !.quote = FALSE]
        /\ UNCHANGED <<visit, storage, minted, calls, orders, trouble>>
        /\ screen.on
    BY DEF DropQuote
  <1>2. CheckoutTypeOK'
    BY <1>1 DEF CheckoutInv, CheckoutTypeOK, Screens, Closed
  <1>3. Known'
    BY <1>1 DEF CheckoutInv, CheckoutTypeOK, Screens, Known, Placed, Closed
  <1>4. Final'
    BY <1>1 DEF CheckoutInv, CheckoutTypeOK, Screens, Known, Final, Closed
  <1>5. Alone'
    BY <1>1 DEF CheckoutInv, CheckoutTypeOK, Screens, Alone, IsLive, Asks, Closed
  <1>6. SameKey'
    BY <1>1 DEF CheckoutInv, CheckoutTypeOK, Screens, SameKey, Closed
  <1>7. Kept'
    BY <1>1
       DEF CheckoutInv, CheckoutTypeOK, Screens, Known, Kept, OwnKey, OpenKey, StoredKey,
           ShownKey, AskedKey, Placed, IsLive, Closed
  <1>8. Implements
    BY <1>1, <1>2, SteadyBook DEF CheckoutInv
  <1> QED  BY <1>2, <1>3, <1>4, <1>5, <1>6, <1>7, <1>8 DEF CheckoutInv

\* The screen is gone, what it asked is not.
LEMMA LeaveStep ==
    ASSUME CheckoutInv, Leave
    PROVE  CheckoutInv' /\ Implements
  <1>1. /\ screen' = Closed /\ calls' = Left(calls)
        /\ UNCHANGED <<visit, storage, minted, orders, trouble>>
    BY DEF Leave, Leaves
  <1>2. calls' \in [Slot -> Calls] /\ Gives(calls, calls')
    BY <1>1, LeftEffect DEF CheckoutInv, CheckoutTypeOK
  <1>3. CheckoutTypeOK'
    BY <1>1, <1>2, CheckoutAssumption
       DEF CheckoutInv, CheckoutTypeOK, Screens, Closed, Id, Status
  <1>4. Known'
    BY <1>1, <1>2, CheckoutAssumption
       DEF CheckoutInv, CheckoutTypeOK, Screens, Known, Placed, Closed, Free, Gives
  <1>5. Final'
    BY <1>1, <1>2, CheckoutAssumption
       DEF CheckoutInv, CheckoutTypeOK, Screens, Known, Final, Closed, Free, Gives
  <1>6. Alone'
    BY <1>1, <1>2, CheckoutAssumption
       DEF CheckoutInv, CheckoutTypeOK, Screens, Alone, IsLive, Asks, Closed, Free, Gives
  <1>7. SameKey'
    BY <1>1, <1>2, CheckoutAssumption DEF CheckoutInv, CheckoutTypeOK, Screens, SameKey, Closed
  <1>8. Kept'
    BY <1>1, <1>2, CheckoutAssumption
       DEF CheckoutInv, CheckoutTypeOK, Screens, Known, Kept, OwnKey, OpenKey, StoredKey,
           ShownKey, AskedKey, Placed, IsLive, Closed, Free, Gives
  <1>9. Implements
    BY <1>1, <1>2, CheckoutAssumption, <1>3, SteadyBook DEF CheckoutInv
  <1> QED  BY <1>3, <1>4, <1>5, <1>6, <1>7, <1>8, <1>9 DEF CheckoutInv

\* The page is loaded again, or the tab is closed, which is trouble.
LEMMA GoneStep ==
    ASSUME CheckoutInv, 
           UNCHANGED <<storage, trouble>> \/ (storage' = Empty /\ trouble' = TRUE), Gone
    PROVE  CheckoutInv' /\ Implements
  <1>1. screen' = Closed /\ UNCHANGED <<visit, minted, orders>>
    BY DEF Gone
  <1>2. calls' \in [Slot -> Calls] /\ Gives(calls, calls')
    <2> DEFINE kept(i) == calls[i].op \in {"checkout", "upload", "cancel"} /\ calls[i].ans = "waiting"
               new(i) == IF kept(i) THEN [calls[i] EXCEPT !.from = "gone"] ELSE Free
    <2>1. Free \in Calls
      BY CheckoutAssumption DEF Free, Calls, Method, Id, Status
    <2>2. \A i \in Slot : calls[i] \in Calls
      BY DEF CheckoutInv, CheckoutTypeOK
    <2>3. \A i \in Slot :
             /\ new(i) \in Calls
             /\ \/ new(i) = Free
                \/ /\ kept(i) /\ new(i).from = "gone"
                   /\ new(i).op = calls[i].op /\ new(i).key = calls[i].key
                   /\ new(i).id = calls[i].id /\ new(i).ans = calls[i].ans
                   /\ new(i).status = calls[i].status
      BY <2>1, <2>2 DEF Calls
    <2>4. calls' = [i \in Slot |-> new(i)]
      BY DEF Gone
    <2> HIDE DEF new
    <2> QED  BY <2>3, <2>4 DEF Gives
  <1>3. trouble' \in BOOLEAN /\ (~trouble' => ~trouble /\ storage' = storage)
    BY DEF CheckoutInv, CheckoutTypeOK
  <1>4. CheckoutTypeOK'
    BY <1>1, <1>2, <1>3, CheckoutAssumption
       DEF CheckoutInv, CheckoutTypeOK, Screens, Closed, Id, Status, Empty
  <1>5. Known'
    BY <1>1, <1>2, <1>3, CheckoutAssumption
       DEF CheckoutInv, CheckoutTypeOK, Screens, Known, Placed, Closed, Free, Gives, Empty
  <1>6. Final'
    BY <1>1, <1>2, <1>3, CheckoutAssumption
       DEF CheckoutInv, CheckoutTypeOK, Screens, Known, Final, Closed, Free, Gives
  <1>7. Alone'
    BY <1>1, <1>2, <1>3, CheckoutAssumption
       DEF CheckoutInv, CheckoutTypeOK, Screens, Alone, IsLive, Asks, Closed, Free, Gives
  <1>8. SameKey'
    BY <1>1, <1>2, <1>3, CheckoutAssumption
       DEF CheckoutInv, CheckoutTypeOK, Screens, SameKey, Closed
  <1>9. Kept'
    BY <1>1, <1>2, <1>3, CheckoutAssumption
       DEF CheckoutInv, CheckoutTypeOK, Screens, Known, Kept, OwnKey, OpenKey, StoredKey,
           ShownKey, AskedKey, Placed, IsLive, Closed, Free, Gives
  <1>10. Implements
    BY <1>1, <1>2, <1>3, CheckoutAssumption, <1>4, SteadyBook DEF CheckoutInv
  <1> QED  BY <1>4, <1>5, <1>6, <1>7, <1>8, <1>9, <1>10 DEF CheckoutInv

\* A request the server refuses.
LEMMA RefuseStep ==
    ASSUME CheckoutInv, NEW i \in Slot, Refuse(i)
    PROVE  CheckoutInv' /\ Implements
  <1>1. /\ calls' = [calls EXCEPT ![i].ans = "failed"]
        /\ UNCHANGED <<visit, screen, storage, minted, orders, trouble>>
    BY DEF Refuse
  <1>2. calls' \in [Slot -> Calls]
    BY <1>1, ZenonT(60) DEF CheckoutInv, CheckoutTypeOK, Calls
  <1>3. CheckoutTypeOK'
    BY <1>1, <1>2 DEF CheckoutInv, CheckoutTypeOK, Screens
  <1>4. Known'
    BY <1>1, <1>2 DEF CheckoutInv, CheckoutTypeOK, Screens, Known, Placed, Calls
  <1>5. Final'
    BY <1>1, <1>2 DEF CheckoutInv, CheckoutTypeOK, Screens, Known, Final, Calls
  <1>6. Alone'
    BY <1>1, <1>2 DEF CheckoutInv, CheckoutTypeOK, Screens, Alone, IsLive, Asks, Calls
  <1>7. SameKey'
    BY <1>1, <1>2 DEF CheckoutInv, CheckoutTypeOK, Screens, SameKey
  <1>8. Kept'
    BY <1>1, <1>2
       DEF CheckoutInv, CheckoutTypeOK, Screens, Known, Kept, OwnKey, OpenKey, StoredKey,
           ShownKey, AskedKey, Placed, IsLive, Calls
  <1>9. Implements
    BY <1>1, <1>2, <1>3, SteadyBook DEF CheckoutInv
  <1> QED  BY <1>3, <1>4, <1>5, <1>6, <1>7, <1>8, <1>9 DEF CheckoutInv

\* A read answers with the status of the moment.
LEMMA ServeReadStep ==
    ASSUME CheckoutInv, NEW i \in Slot, ServeRead(i)
    PROVE  CheckoutInv' /\ Implements
  <1> DEFINE id == calls[i].id
             st == IF calls[i].op = "quote" THEN calls[i].status ELSE orders[id].status
  <1>1. UNCHANGED <<visit, screen, storage, minted, orders, trouble>>
        /\ calls[i].op \in {"quote", "restore", "refresh"}
    BY DEF ServeRead
  <1>2. st \in Status /\ id \in Id /\ calls[i] \in Calls /\ calls \in [Slot -> Calls]
    BY <1>1, Rows DEF CheckoutInv, Known, CheckoutTypeOK, Calls
  <1>3. calls' = [calls EXCEPT ![i] = [calls[i] EXCEPT !.ans = "done", !.status = st]]
    BY <1>2 DEF ServeRead, Calls
  <1> HIDE DEF st
  <1>4. LET c == [calls[i] EXCEPT !.ans = "done", !.status = st]
        IN  c \in Calls /\ c.op = calls[i].op /\ c.from = calls[i].from /\ c.key = calls[i].key
            /\ c.id = id /\ c.status = st
    BY <1>2 DEF Calls
  <1>5. calls' \in [Slot -> Calls] /\ Answered(i, st, id)
    BY <1>2, <1>3, <1>4 DEF Answered
  <1>6. calls[i].op # "quote" => st = orders[id].status
    BY DEF st
  <1>7. CheckoutTypeOK'
    BY <1>1, <1>2, <1>5, <1>6 DEF CheckoutInv, CheckoutTypeOK, Screens
  <1>8. Known'
    BY <1>1, <1>2, <1>5, <1>6 DEF CheckoutInv, Known, Placed, Answered
  <1>9. Final'
    BY <1>1, <1>2, <1>5, <1>6 DEF CheckoutInv, Known, Final, Answered
  <1>10. Alone'
    BY <1>1, <1>2, <1>5, <1>6 DEF CheckoutInv, Alone, IsLive, Asks, Answered
  <1>11. SameKey'
    BY <1>1, <1>2, <1>5, <1>6 DEF CheckoutInv, SameKey
  <1>12. Kept'
    BY <1>1, <1>2, <1>5, <1>6
       DEF CheckoutInv, Known, Kept, OwnKey, OpenKey, StoredKey, ShownKey, AskedKey, Placed,
           IsLive, Answered
  <1>13. Implements
    BY <1>1, <1>2, <1>5, <1>6, <1>7, SteadyBook DEF CheckoutInv
  <1> QED  BY <1>7, <1>8, <1>9, <1>10, <1>11, <1>12, <1>13 DEF CheckoutInv

\* The order of the key is found.
LEMMA ServeKnownStep ==
    ASSUME CheckoutInv, NEW i \in Slot, ServeKnown(i)
    PROVE  CheckoutInv' /\ Implements
  <1>1. /\ UNCHANGED <<visit, screen, storage, minted, orders, trouble>>
        /\ calls[i].op = "checkout"
    BY DEF ServeKnown
  <1>2. PICK o \in Placed : orders[o].key = calls[i].key /\ Answer(i, orders[o].status, o)
    BY DEF ServeKnown, WithKey, Placed
  <1>3. orders[o].status \in Status /\ o \in Id
    BY Rows DEF CheckoutInv
  <1>4. calls' \in [Slot -> Calls] /\ Answered(i, orders[o].status, o)
    BY <1>2, <1>3, AnswerEffect DEF CheckoutInv
  <1>5. CheckoutTypeOK'
    BY <1>1, <1>2, <1>3, <1>4 DEF CheckoutInv, CheckoutTypeOK, Screens
  <1>6. Known'
    BY <1>1, <1>2, <1>3, <1>4 DEF CheckoutInv, Known, Placed, Answered
  <1>7. Final'
    BY <1>1, <1>2, <1>3, <1>4 DEF CheckoutInv, Known, Final, Answered
  <1>8. Alone'
    BY <1>1, <1>2, <1>3, <1>4 DEF CheckoutInv, Alone, IsLive, Asks, Answered
  <1>9. SameKey'
    BY <1>1, <1>2, <1>3, <1>4 DEF CheckoutInv, SameKey
  <1>10. Kept'
    BY <1>1, <1>2, <1>3, <1>4
       DEF CheckoutInv, Known, Kept, OwnKey, OpenKey, StoredKey, ShownKey, AskedKey, Placed,
           IsLive, Answered
  <1>11. Implements
    BY <1>1, <1>2, <1>3, <1>4, <1>5, SteadyBook DEF CheckoutInv
  <1> QED  BY <1>5, <1>6, <1>7, <1>8, <1>9, <1>10, <1>11 DEF CheckoutInv

\* A key without an order makes one: the tab's, unless it was given up.
LEMMA ServeNewStep ==
    ASSUME CheckoutInv, NEW i \in Slot, ServeNew(i)
    PROVE  CheckoutInv' /\ Implements
  <1> DEFINE k == calls[i].key
             st == NewStatus(calls[i].method)
             new == Len(orders) + 1
  <1>1. /\ UNCHANGED <<visit, screen, storage, minted>>
        /\ calls[i].op = "checkout" /\ WithKey(k) = {} /\ Len(orders) < MaxOrders
        /\ orders' = Append(orders, [key |-> k, method |-> calls[i].method, status |-> st])
        /\ Answer(i, st, new)
        /\ trouble' = \/ trouble
                      \/ calls[i].from # "live" /\ k # storage.key
                      \/ \E o \in DOMAIN orders : orders[o].key = k
    BY DEF ServeNew
  <1>2. k \in Key /\ calls[i].method \in Method /\ st \in Status \ Settled
    BY <1>1 DEF CheckoutInv, Known, CheckoutTypeOK, Calls, NewStatus, Status, Settled
  <1> HIDE DEF k, st
  <1>3. /\ orders' \in Seq([key : Key, method : Method, status : Status])
        /\ Len(orders') <= MaxOrders
        /\ Placed' = Placed \cup {new} /\ new \notin Placed /\ new \in Id \ {0}
        /\ \A p \in Placed : orders'[p] = orders[p]
        /\ orders'[new].key = k /\ orders'[new].status = st
    BY <1>1, <1>2, AppendEffect DEF CheckoutInv
  <1> HIDE DEF new
  <1>4. calls' \in [Slot -> Calls] /\ Answered(i, st, new)
    BY <1>1, <1>2, <1>3, AnswerEffect DEF CheckoutInv
  <1>5. trouble' \in BOOLEAN
    BY <1>1 DEF CheckoutInv, CheckoutTypeOK
  <1>6. k = calls[i].key
    BY DEF k
  <1>7. CheckoutTypeOK'
    BY <1>1, <1>2, <1>3, <1>4, <1>5, <1>6 DEF CheckoutInv, CheckoutTypeOK, Screens
  <1>8. Known'
    BY <1>1, <1>2, <1>3, <1>4, <1>5, <1>6 DEF CheckoutInv, Known, Placed, Answered
  <1>9. Final'
    <2>1. UNCHANGED screen /\ calls[i].op = "checkout" /\ st \notin Settled
      BY <1>1, <1>2
    <2> QED  BY <1>3, <1>4, <2>1, DoneKnown DEF CheckoutInv, Known, Final, Answered
  <1>10. Alone'
    <2>1. UNCHANGED screen
      BY <1>1
    <2> QED  BY <1>4, <2>1 DEF CheckoutInv, Alone, IsLive, Asks, Answered
  <1>11. SameKey'
    BY <1>1, <1>2, <1>3, <1>4, <1>5, <1>6 DEF CheckoutInv, SameKey
  <1>12. Kept'
    BY <1>1, <1>2, <1>3, <1>4, <1>5, <1>6
       DEF CheckoutInv, Known, Kept, OwnKey, OpenKey, StoredKey, ShownKey, AskedKey, Placed,
           IsLive, Answered
  <1>13. Implements
    <2>1. k # storage.key => trouble'
      BY <1>1, <1>6 DEF CheckoutInv, CheckoutTypeOK, Kept, AskedKey, IsLive
    <2>2. trouble => trouble'
      BY <1>1
    <2>3. UNCHANGED storage /\ WithKey(k) = {} /\ st \notin Settled
      BY <1>1, <1>2
    <2> QED  BY <1>2, <1>3, <1>7, <2>1, <2>2, <2>3, PlacedBook DEF CheckoutInv, new
  <1> QED  BY <1>7, <1>8, <1>9, <1>10, <1>11, <1>12, <1>13 DEF CheckoutInv

\* A receipt settles nothing.
LEMMA ServeUploadStep ==
    ASSUME CheckoutInv, NEW i \in Slot, ServeUpload(i)
    PROVE  CheckoutInv' /\ Implements
  <1> DEFINE o == calls[i].id
             st == IF orders[o].status = "waiting" THEN "uploaded" ELSE orders[o].status
  <1>1. /\ UNCHANGED <<visit, screen, storage, minted, trouble>>
        /\ calls[i].op = "upload" /\ SetStatus(o, st) /\ Answer(i, st, o)
    BY DEF ServeUpload
  <1>2. o \in Placed /\ o \in Id /\ st \in Status
    BY <1>1, Rows DEF CheckoutInv, Known, Status
  <1>3. /\ orders[o].status \in Settled => st = orders[o].status
        /\ st \in Settled => st = orders[o].status
    BY DEF Settled
  <1> HIDE DEF st
  <1>4. /\ orders' \in Seq([key : Key, method : Method, status : Status])
        /\ Len(orders') = Len(orders) /\ Placed' = Placed
        /\ \A p \in Placed :
              /\ orders'[p].key = orders[p].key
              /\ orders'[p].status = IF p = o THEN st ELSE orders[p].status
    BY <1>1, <1>2, SetStatusEffect DEF CheckoutInv
  <1>5. calls' \in [Slot -> Calls] /\ Answered(i, st, o)
    BY <1>1, <1>2, AnswerEffect DEF CheckoutInv
  <1>6. CheckoutTypeOK'
    BY <1>1, <1>2, <1>3, <1>4, <1>5 DEF CheckoutInv, CheckoutTypeOK, Screens
  <1>7. Known'
    BY <1>1, <1>2, <1>3, <1>4, <1>5 DEF CheckoutInv, Known, Placed, Answered
  <1>8. Final'
    BY <1>1, <1>2, <1>3, <1>4, <1>5, DoneKnown DEF CheckoutInv, Known, Final, Answered
  <1>9. Alone'
    BY <1>1, <1>2, <1>3, <1>4, <1>5 DEF CheckoutInv, Alone, IsLive, Asks, Answered
  <1>10. SameKey'
    BY <1>1, <1>2, <1>3, <1>4, <1>5 DEF CheckoutInv, SameKey
  <1>11. Kept'
    BY <1>1, <1>2, <1>3, <1>4, <1>5
       DEF CheckoutInv, Known, Kept, OwnKey, OpenKey, StoredKey, ShownKey, AskedKey, Placed,
           IsLive, Answered
  <1>12. Implements
    BY <1>1, <1>2, <1>3, <1>4, SettledBook DEF CheckoutInv
  <1> QED  BY <1>6, <1>7, <1>8, <1>9, <1>10, <1>11, <1>12 DEF CheckoutInv

\* A cancelled order is settled.
LEMMA ServeCancelStep ==
    ASSUME CheckoutInv, NEW i \in Slot, ServeCancel(i)
    PROVE  CheckoutInv' /\ Implements
  <1> DEFINE o == calls[i].id
  <1>1. /\ UNCHANGED <<visit, screen, storage, minted, trouble>>
        /\ calls[i].op = "cancel" /\ SetStatus(o, "deleted") /\ Answer(i, "deleted", o)
        /\ orders[o].status \in {"waiting", "deleted"}
    BY DEF ServeCancel
  <1>2. o \in Placed /\ o \in Id /\ "deleted" \in Status
    BY <1>1, Rows DEF CheckoutInv, Known, Status
  <1>3. orders[o].status \in Settled => orders[o].status = "deleted"
    BY <1>1 DEF Settled
  <1>4. /\ orders' \in Seq([key : Key, method : Method, status : Status])
        /\ Len(orders') = Len(orders) /\ Placed' = Placed
        /\ \A p \in Placed :
              /\ orders'[p].key = orders[p].key
              /\ orders'[p].status = IF p = o THEN "deleted" ELSE orders[p].status
    BY <1>1, <1>2, SetStatusEffect DEF CheckoutInv
  <1>5. calls' \in [Slot -> Calls] /\ Answered(i, "deleted", o)
    BY <1>1, <1>2, AnswerEffect DEF CheckoutInv
  <1>6. CheckoutTypeOK'
    BY <1>1, <1>2, <1>3, <1>4, <1>5 DEF CheckoutInv, CheckoutTypeOK, Screens
  <1>7. Known'
    BY <1>1, <1>2, <1>3, <1>4, <1>5 DEF CheckoutInv, Known, Placed, Answered
  <1>8. Final'
    BY <1>1, <1>2, <1>3, <1>4, <1>5, DoneKnown DEF CheckoutInv, Known, Final, Answered, Settled
  <1>9. Alone'
    BY <1>1, <1>2, <1>3, <1>4, <1>5 DEF CheckoutInv, Alone, IsLive, Asks, Answered
  <1>10. SameKey'
    BY <1>1, <1>2, <1>3, <1>4, <1>5 DEF CheckoutInv, SameKey
  <1>11. Kept'
    BY <1>1, <1>2, <1>3, <1>4, <1>5
       DEF CheckoutInv, Known, Kept, OwnKey, OpenKey, StoredKey, ShownKey, AskedKey, Placed,
           IsLive, Answered, Settled
  <1>12. Implements
    BY <1>1, <1>2, <1>3, <1>4, SettledBook DEF CheckoutInv
  <1> QED  BY <1>6, <1>7, <1>8, <1>9, <1>10, <1>11, <1>12 DEF CheckoutInv

\* The worker and the admins move an open order on.
LEMMA WorkStep ==
    ASSUME CheckoutInv, NEW o \in Placed, Work(o)
    PROVE  CheckoutInv' /\ Implements
  <1>1. UNCHANGED <<visit, screen, storage, minted, calls, trouble>>
    BY DEF Work
  <1>2. PICK st \in Status : <<orders[o].status, st>> \in Steps /\ SetStatus(o, st)
    BY DEF Work
  <1>3. orders[o].status \notin Settled
    BY <1>2 DEF Steps, Settled
  <1>4. /\ orders' \in Seq([key : Key, method : Method, status : Status])
        /\ Len(orders') = Len(orders) /\ Placed' = Placed
        /\ \A p \in Placed :
              /\ orders'[p].key = orders[p].key
              /\ orders'[p].status = IF p = o THEN st ELSE orders[p].status
    BY <1>2, SetStatusEffect DEF CheckoutInv
  <1>5. CheckoutTypeOK'
    BY <1>1, <1>3, <1>4 DEF CheckoutInv, CheckoutTypeOK, Screens
  <1>6. Known'
    BY <1>1, <1>3, <1>4 DEF CheckoutInv, Known, Placed
  <1>7. Final'
    BY <1>1, <1>3, <1>4, DoneKnown DEF CheckoutInv, Known, Final
  <1>8. Alone'
    BY <1>1, <1>3, <1>4 DEF CheckoutInv, Alone, IsLive, Asks
  <1>9. SameKey'
    BY <1>1, <1>3, <1>4 DEF CheckoutInv, SameKey
  <1>10. Kept'
    BY <1>1, <1>3, <1>4
       DEF CheckoutInv, Known, Kept, OwnKey, OpenKey, StoredKey, ShownKey, AskedKey, Placed,
           IsLive
  <1>11. Implements
    BY <1>1, <1>2, <1>3, <1>4, SettledBook DEF CheckoutInv
  <1> QED  BY <1>5, <1>6, <1>7, <1>8, <1>9, <1>10, <1>11 DEF CheckoutInv

\* The order of the tab, or the one that tracking showed, is read again.
LEMMA RestoredStep ==
    ASSUME CheckoutInv, NEW i \in Slot, Restored(i)
    PROVE  CheckoutInv' /\ Implements
  <1> DEFINE id == calls[i].id
             st == calls[i].status
  <1>1. /\ Done(i, "restore") /\ calls' = Removed(i)
        /\ screen' = Showing([screen EXCEPT !.restoring = FALSE], id, st)
        /\ UNCHANGED <<visit, storage, minted, orders, trouble>>
    BY DEF Restored, Forget
  <1>2. /\ calls' \in [Slot -> Calls] /\ calls'[i].op = "free"
        /\ \A j \in Slot \ {i} : calls'[j] = calls[j]
    BY <1>1, ForgetEffect DEF CheckoutInv
  <1>3. calls[i].op = "restore" /\ calls[i].ans = "done"
    BY <1>1 DEF Done
  <1>4. id \in Placed /\ id \in Id \ {0} /\ st \in Status
    BY <1>3, Rows DEF CheckoutInv, Known, CheckoutTypeOK, Calls
  <1>5. screen.on /\ screen.restoring /\ IsLive(i)
    BY <1>3 DEF CheckoutInv, Alone
  <1>6. [screen EXCEPT !.restoring = FALSE] \in Screens
    BY DEF CheckoutInv, CheckoutTypeOK, Screens
  <1>7. /\ screen' \in Screens
        /\ screen'.order = id /\ screen'.status = st
        /\ screen'.on = screen.on /\ screen'.key = screen.key
        /\ screen'.initial = screen.initial
        /\ screen'.busy = screen.busy /\ screen'.restoring = FALSE
    BY <1>1, <1>4, <1>6, ShowingEffect DEF CheckoutInv, CheckoutTypeOK, Screens
  <1>8. UNCHANGED <<visit, storage, minted, orders, trouble>>
    BY <1>1
  <1>9. CheckoutTypeOK'
    BY <1>2, <1>3, <1>4, <1>5, <1>7, <1>8 DEF CheckoutInv, CheckoutTypeOK, Screens
  <1>10. Known'
    BY <1>2, <1>3, <1>4, <1>5, <1>7, <1>8 DEF CheckoutInv, Known, Placed
  <1>11. Final'
    BY <1>2, <1>3, <1>4, <1>5, <1>7, <1>8 DEF CheckoutInv, Known, Final
  <1>12. Alone'
    BY <1>2, <1>3, <1>4, <1>5, <1>7, <1>8 DEF CheckoutInv, Alone, IsLive, Asks
  <1>13. SameKey'
    BY <1>2, <1>3, <1>4, <1>5, <1>7, <1>8 DEF CheckoutInv, SameKey
  <1>14. Kept'
    <2> SUFFICES ASSUME ~trouble'
                 PROVE  OwnKey' /\ OpenKey' /\ StoredKey' /\ ShownKey' /\ AskedKey'
      BY DEF Kept
    <2>1. ~trouble /\ OwnKey /\ OpenKey /\ StoredKey /\ ShownKey /\ AskedKey
      BY <1>2, <1>3, <1>4, <1>5, <1>7, <1>8 DEF CheckoutInv, Kept
    <2>2. OwnKey' /\ OpenKey' /\ StoredKey'
      BY <1>2, <1>3, <1>4, <1>5, <1>7, <1>8, <2>1
         DEF CheckoutInv, Known, OwnKey, OpenKey, StoredKey, Placed
    <2>3. ShownKey'
      BY <1>2, <1>3, <1>4, <1>5, <1>7, <1>8, <2>1
         DEF CheckoutInv, Known, StoredKey, ShownKey, AskedKey, Placed, IsLive
    <2>4. AskedKey'
      BY <1>2, <1>3, <1>4, <1>5, <1>7, <1>8, <2>1
         DEF CheckoutInv, Known, Alone, AskedKey, Asks, IsLive
    <2> QED  BY <2>2, <2>3, <2>4
  <1>15. Implements
    BY <1>2, <1>3, <1>4, <1>5, <1>7, <1>8, <1>9, SteadyBook DEF CheckoutInv
  <1> QED  BY <1>9, <1>10, <1>11, <1>12, <1>13, <1>14, <1>15 DEF CheckoutInv

\* The price.
LEMMA QuotedStep ==
    ASSUME CheckoutInv, NEW i \in Slot, Quoted(i)
    PROVE  CheckoutInv' /\ Implements
  <1>1. /\ Done(i, "quote") /\ calls' = Removed(i)
        /\ screen' = [screen EXCEPT !.busy = FALSE, !.quote = TRUE]
        /\ UNCHANGED <<visit, storage, minted, orders, trouble>>
    BY DEF Quoted, Forget
  <1>2. /\ calls' \in [Slot -> Calls] /\ calls'[i].op = "free"
        /\ \A j \in Slot \ {i} : calls'[j] = calls[j]
    BY <1>1, ForgetEffect DEF CheckoutInv
  <1>3. calls[i].op = "quote" /\ IsLive(i) /\ screen.on
    BY <1>1 DEF Done, CheckoutInv, Alone
  <1>4. /\ screen' \in Screens
        /\ screen'.order = screen.order /\ screen'.status = screen.status
        /\ screen'.on = screen.on /\ screen'.key = screen.key
        /\ screen'.initial = screen.initial
        /\ screen'.busy = FALSE /\ screen'.restoring = screen.restoring
        /\ screen'.timer = screen.timer
    BY <1>1 DEF CheckoutInv, CheckoutTypeOK, Screens
  <1>5. CheckoutTypeOK'
    BY <1>1, <1>2, <1>3, <1>4 DEF CheckoutInv, CheckoutTypeOK, Screens
  <1>6. Known'
    BY <1>1, <1>2, <1>3, <1>4 DEF CheckoutInv, Known, Placed
  <1>7. Final'
    BY <1>1, <1>2, <1>3, <1>4 DEF CheckoutInv, Known, Final
  <1>8. Alone'
    BY <1>1, <1>2, <1>3, <1>4 DEF CheckoutInv, Alone, IsLive, Asks
  <1>9. SameKey'
    BY <1>1, <1>2, <1>3, <1>4 DEF CheckoutInv, SameKey
  <1>10. Kept'
    BY <1>1, <1>2, <1>3, <1>4
       DEF CheckoutInv, Known, Kept, OwnKey, OpenKey, StoredKey, ShownKey, AskedKey, Placed,
           IsLive
  <1>11. Implements
    BY <1>1, <1>2, <1>3, <1>4, <1>5, SteadyBook DEF CheckoutInv
  <1> QED  BY <1>5, <1>6, <1>7, <1>8, <1>9, <1>10, <1>11 DEF CheckoutInv

\* A failure ends the wait.
LEMMA FailsStep ==
    ASSUME CheckoutInv, NEW i \in Slot, Fails(i)
    PROVE  CheckoutInv' /\ Implements
  <1>1. /\ calls[i].op \notin {"free", "restore"} /\ calls' = Removed(i)
        /\ screen' = IF ~IsLive(i) THEN screen
                     ELSE IF calls[i].op = "refresh" THEN [screen EXCEPT !.checking = FALSE]
                     ELSE [screen EXCEPT !.busy = FALSE]
        /\ UNCHANGED <<visit, storage, minted, orders, trouble>>
    BY DEF Fails, Forget, Checked
  <1>2. /\ calls' \in [Slot -> Calls] /\ calls'[i].op = "free"
        /\ \A j \in Slot \ {i} : calls'[j] = calls[j]
    BY <1>1, ForgetEffect DEF CheckoutInv
  <1>3. IsLive(i) => screen.on
    BY <1>1 DEF CheckoutInv, Alone
  <1>4. calls[i].op # "refresh" => calls[i].op \in Asks
    BY <1>1 DEF CheckoutInv, CheckoutTypeOK, Calls, Asks
  <1>5. calls[i].op \notin {"free", "restore"} /\ UNCHANGED <<visit, storage, minted, orders, trouble>>
    BY <1>1
  <1>6. \/ UNCHANGED screen /\ ~IsLive(i)
        \/ /\ screen' \in Screens /\ screen.on
           /\ screen'.order = screen.order /\ screen'.status = screen.status
           /\ screen'.on = screen.on /\ screen'.key = screen.key
           /\ screen'.initial = screen.initial
           /\ screen'.restoring = screen.restoring
           /\ screen'.timer = screen.timer
           /\ IF calls[i].op \in Asks THEN IsLive(i) ELSE screen'.busy = screen.busy
    <2>1. screen \in Screens
      BY DEF CheckoutInv, CheckoutTypeOK
    <2>2. CASE ~IsLive(i)
      BY <1>1, <2>2
    <2>3. CASE IsLive(i) /\ calls[i].op = "refresh"
      BY <1>1, <1>3, <2>1, <2>3 DEF Screens, Asks
    <2>4. CASE IsLive(i) /\ calls[i].op # "refresh"
      BY <1>1, <1>3, <1>4, <2>1, <2>4 DEF Screens
    <2> QED  BY <2>2, <2>3, <2>4
  <1>7. CheckoutTypeOK'
    BY <1>2, <1>3, <1>4, <1>5, <1>6 DEF CheckoutInv, CheckoutTypeOK, Screens
  <1>8. Known'
    BY <1>2, <1>3, <1>4, <1>5, <1>6 DEF CheckoutInv, Known, Placed
  <1>9. Final'
    BY <1>2, <1>3, <1>4, <1>5, <1>6 DEF CheckoutInv, Known, Final
  <1>10. Alone'
    BY <1>2, <1>3, <1>4, <1>5, <1>6 DEF CheckoutInv, Alone, IsLive, Asks
  <1>11. SameKey'
    BY <1>2, <1>3, <1>4, <1>5, <1>6 DEF CheckoutInv, SameKey
  <1>12. Kept'
    BY <1>2, <1>3, <1>4, <1>5, <1>6
       DEF CheckoutInv, Known, Kept, OwnKey, OpenKey, StoredKey, ShownKey, AskedKey, Placed,
           IsLive
  <1>13. Implements
    BY <1>2, <1>3, <1>4, <1>5, <1>6, <1>7, SteadyBook DEF CheckoutInv
  <1> QED  BY <1>7, <1>8, <1>9, <1>10, <1>11, <1>12, <1>13 DEF CheckoutInv

\* The receipt is there.
LEMMA UploadedStep ==
    ASSUME CheckoutInv, NEW i \in Slot, Uploaded(i)
    PROVE  CheckoutInv' /\ Implements
  <1> DEFINE id == calls[i].id
             st == calls[i].status
  <1>1. /\ Done(i, "upload") /\ calls' = Removed(i)
        /\ screen' = IF IsLive(i) THEN Showing([screen EXCEPT !.busy = FALSE], id, st)
                     ELSE screen
        /\ UNCHANGED <<visit, storage, minted, orders, trouble>>
    BY DEF Uploaded, Forget
  <1>2. /\ calls' \in [Slot -> Calls] /\ calls'[i].op = "free"
        /\ \A j \in Slot \ {i} : calls'[j] = calls[j]
    BY <1>1, ForgetEffect DEF CheckoutInv
  <1>3. calls[i].op = "upload" /\ calls[i].ans = "done" /\ (IsLive(i) => screen.on)
    BY <1>1 DEF Done, CheckoutInv, Alone
  <1>4. id \in Placed /\ id \in Id \ {0} /\ st \in Status
    BY <1>3, Rows DEF CheckoutInv, Known, CheckoutTypeOK, Calls
  <1>5. [screen EXCEPT !.busy = FALSE] \in Screens
    BY DEF CheckoutInv, CheckoutTypeOK, Screens
  <1>6. IsLive(i) =>
        /\ screen' \in Screens
        /\ screen'.order = id /\ screen'.status = st
        /\ screen'.on = screen.on /\ screen'.key = screen.key
        /\ screen'.initial = screen.initial
        /\ screen'.busy = FALSE /\ screen'.restoring = screen.restoring
    BY <1>1, <1>4, <1>5, ShowingEffect DEF CheckoutInv, CheckoutTypeOK, Screens
  <1>7. IsLive(i) => ~screen.restoring
    BY <1>3 DEF CheckoutInv, Alone, Asks
  <1>8. UNCHANGED <<visit, storage, minted, orders, trouble>> /\ (~IsLive(i) => UNCHANGED screen)
    BY <1>1
  <1>9. CheckoutTypeOK'
    BY <1>2, <1>3, <1>4, <1>6, <1>7, <1>8 DEF CheckoutInv, CheckoutTypeOK, Screens
  <1>10. Known'
    BY <1>2, <1>3, <1>4, <1>6, <1>7, <1>8 DEF CheckoutInv, Known, Placed
  <1>11. Final'
    BY <1>2, <1>3, <1>4, <1>6, <1>7, <1>8 DEF CheckoutInv, Known, Final
  <1>12. Alone'
    BY <1>2, <1>3, <1>4, <1>6, <1>7, <1>8 DEF CheckoutInv, Alone, IsLive, Asks
  <1>13. SameKey'
    BY <1>2, <1>3, <1>4, <1>6, <1>7, <1>8 DEF CheckoutInv, SameKey
  <1>14. Kept'
    <2> SUFFICES ASSUME ~trouble'
                 PROVE  OwnKey' /\ OpenKey' /\ StoredKey' /\ ShownKey' /\ AskedKey'
      BY DEF Kept
    <2>1. ~trouble /\ OwnKey /\ OpenKey /\ StoredKey /\ ShownKey /\ AskedKey
      BY <1>2, <1>3, <1>4, <1>6, <1>7, <1>8 DEF CheckoutInv, Kept
    <2>2. OwnKey' /\ OpenKey' /\ StoredKey'
      BY <1>2, <1>3, <1>4, <1>6, <1>7, <1>8, <2>1
         DEF CheckoutInv, Known, OwnKey, OpenKey, StoredKey, Placed
    <2>3. ShownKey'
      BY <1>2, <1>3, <1>4, <1>6, <1>7, <1>8, <2>1
         DEF CheckoutInv, Known, StoredKey, ShownKey, AskedKey, Placed, IsLive
    <2>4. AskedKey'
      BY <1>2, <1>3, <1>4, <1>6, <1>7, <1>8, <2>1
         DEF CheckoutInv, Known, Alone, AskedKey, Asks, IsLive
    <2> QED  BY <2>2, <2>3, <2>4
  <1>15. Implements
    BY <1>2, <1>3, <1>4, <1>6, <1>7, <1>8, <1>9, SteadyBook DEF CheckoutInv
  <1> QED  BY <1>9, <1>10, <1>11, <1>12, <1>13, <1>14, <1>15 DEF CheckoutInv

\* A settled order makes room for the next one.
LEMMA FreshStep ==
    ASSUME CheckoutInv, Fresh
    PROVE  CheckoutInv' /\ Implements
  <1>1. /\ storage' = Empty /\ Mint
        /\ screen' = [Anew(screen) EXCEPT !.quote = FALSE]
        /\ screen.on /\ screen.order # 0 /\ screen.status \in {"rejected", "paid"}
        /\ ~screen.restoring
        /\ trouble' = (trouble \/ (screen.initial = screen.order /\ OfAnother(screen.order)))
        /\ UNCHANGED <<visit, calls, orders>>
    BY DEF Fresh
  <1>2. /\ Anew(screen) \in Screens /\ Anew(screen).order = 0 /\ Anew(screen).key \in Key
        /\ Anew(screen).on = screen.on /\ Anew(screen).initial = screen.initial
        /\ Anew(screen).busy = screen.busy /\ Anew(screen).restoring = screen.restoring
        /\ minted' \in 0..MaxKeys
    BY <1>1, AnewEffect DEF CheckoutInv, CheckoutTypeOK
  <1>3. /\ screen' \in Screens /\ screen'.order = 0 /\ screen'.key \in Key
        /\ screen'.on = screen.on /\ screen'.initial = screen.initial
        /\ screen'.busy = screen.busy /\ screen'.restoring = screen.restoring
    BY <1>1, <1>2 DEF Screens
  <1>4. storage'.key = 0 /\ storage'.order = 0 /\ storage' \in [key : 0..MaxKeys, order : Id]
    BY <1>1, CheckoutAssumption DEF Empty, Id
  <1>5. screen.order \in Placed /\ orders[screen.order].status \in Settled
    BY <1>1 DEF CheckoutInv, Known, Final, Settled
  <1>6. ~trouble' => ~trouble /\ \A p \in Placed : orders[p].status \in Settled
    BY <1>1, <1>5, NothingOpen DEF OfAnother, CheckoutInv, Kept, ShownKey
  <1>7. trouble' \in BOOLEAN
    BY <1>1 DEF CheckoutInv, CheckoutTypeOK
  <1>8. UNCHANGED <<visit, calls, orders>> /\ screen.on /\ screen.order # 0 /\ ~screen.restoring
    BY <1>1
  <1>9. CheckoutTypeOK'
    BY <1>3, <1>4, <1>5, <1>6, <1>7, <1>8, <1>2 DEF CheckoutInv, CheckoutTypeOK, Screens
  <1>10. Known'
    BY <1>3, <1>4, <1>5, <1>6, <1>7, <1>8 DEF CheckoutInv, Known, Placed
  <1>11. Final'
    BY <1>3, <1>4, <1>5, <1>6, <1>7, <1>8 DEF CheckoutInv, Known, Final
  <1>12. Alone'
    BY <1>3, <1>4, <1>5, <1>6, <1>7, <1>8 DEF CheckoutInv, Alone, IsLive, Asks
  <1>13. SameKey'
    BY <1>3, <1>4, <1>5, <1>6, <1>7, <1>8 DEF CheckoutInv, SameKey
  <1>14. Kept'
    <2> SUFFICES ASSUME ~trouble'
                 PROVE  OwnKey' /\ OpenKey' /\ StoredKey' /\ ShownKey' /\ AskedKey'
      BY DEF Kept
    <2>1. ~trouble /\ OwnKey /\ OpenKey /\ StoredKey /\ ShownKey /\ AskedKey
      BY <1>3, <1>4, <1>5, <1>6, <1>7, <1>8 DEF CheckoutInv, Kept
    <2>2. OwnKey' /\ OpenKey' /\ StoredKey'
      BY <1>3, <1>4, <1>5, <1>6, <1>7, <1>8, <2>1
         DEF CheckoutInv, Known, OwnKey, OpenKey, StoredKey, Placed
    <2>3. ShownKey'
      BY <1>3, <1>4, <1>5, <1>6, <1>7, <1>8, <2>1
         DEF CheckoutInv, Known, StoredKey, ShownKey, AskedKey, Placed, IsLive
    <2>4. AskedKey'
      BY <1>3, <1>4, <1>5, <1>6, <1>7, <1>8, <2>1
         DEF CheckoutInv, Known, Alone, AskedKey, Asks, IsLive
    <2> QED  BY <2>2, <2>3, <2>4
  <1>15. Implements
    BY <1>3, <1>4, <1>5, <1>6, <1>7, <1>8, <1>9, SteadyBook DEF CheckoutInv
  <1> QED  BY <1>9, <1>10, <1>11, <1>12, <1>13, <1>14, <1>15 DEF CheckoutInv

\* An order that tracking showed stays on the screen.
LEMMA RestoreFailsTrackedStep ==
    ASSUME CheckoutInv, NEW i \in Slot, screen.initial # 0, RestoreFails(i)
    PROVE  CheckoutInv' /\ Implements
  <1>1. /\ calls[i].op = "restore" /\ calls' = Removed(i)
        /\ screen' = [screen EXCEPT !.restoring = FALSE]
        /\ UNCHANGED <<visit, orders, storage, minted, trouble>>
    BY DEF RestoreFails, Forget
  <1>2. /\ calls' \in [Slot -> Calls] /\ calls'[i].op = "free"
        /\ \A j \in Slot \ {i} : calls'[j] = calls[j]
    BY <1>1, ForgetEffect DEF CheckoutInv
  <1>3. calls[i].op = "restore" /\ screen.on /\ IsLive(i)
        /\ UNCHANGED <<visit, storage, minted, orders, trouble>>
    BY <1>1 DEF CheckoutInv, Alone
  <1>4. /\ screen' \in Screens
        /\ screen'.order = screen.order /\ screen'.status = screen.status
        /\ screen'.on = screen.on /\ screen'.key = screen.key
        /\ screen'.initial = screen.initial
        /\ screen'.busy = screen.busy /\ screen'.restoring = FALSE
    BY <1>1 DEF CheckoutInv, CheckoutTypeOK, Screens
  <1>5. CheckoutTypeOK'
    BY <1>2, <1>3, <1>4 DEF CheckoutInv, CheckoutTypeOK, Screens
  <1>6. Known'
    BY <1>2, <1>3, <1>4 DEF CheckoutInv, Known, Placed
  <1>7. Final'
    BY <1>2, <1>3, <1>4 DEF CheckoutInv, Known, Final
  <1>8. Alone'
    BY <1>2, <1>3, <1>4 DEF CheckoutInv, Alone, IsLive, Asks
  <1>9. SameKey'
    BY <1>2, <1>3, <1>4 DEF CheckoutInv, SameKey
  <1>10. Kept'
    BY <1>2, <1>3, <1>4
       DEF CheckoutInv, Known, Kept, OwnKey, OpenKey, StoredKey, ShownKey, AskedKey, Placed,
           IsLive
  <1>11. Implements
    BY <1>2, <1>3, <1>4, <1>5, SteadyBook DEF CheckoutInv
  <1> QED  BY <1>5, <1>6, <1>7, <1>8, <1>9, <1>10, <1>11 DEF CheckoutInv

\* The order of the tab is forgotten: it was deleted, or it is trouble.
LEMMA RestoreFailsForgetsStep ==
    ASSUME CheckoutInv, NEW i \in Slot, screen.initial = 0, RestoreFails(i)
    PROVE  CheckoutInv' /\ Implements
  <1> DEFINE s == [screen EXCEPT !.restoring = FALSE]
             o == calls[i].id
  <1>1. /\ calls[i].op = "restore" /\ calls' = Removed(i)
        /\ Mint /\ storage' = Empty /\ screen' = Anew(s)
        /\ trouble' = (trouble \/ orders[o].status # "deleted")
        /\ UNCHANGED <<visit, orders>>
    BY DEF RestoreFails, Forget
  <1>2. /\ calls' \in [Slot -> Calls] /\ calls'[i].op = "free"
        /\ \A j \in Slot \ {i} : calls'[j] = calls[j]
    BY <1>1, ForgetEffect DEF CheckoutInv
  <1>3. calls[i].op = "restore" /\ screen.on /\ IsLive(i) /\ UNCHANGED <<visit, orders>>
        /\ o \in Placed
    BY <1>1 DEF CheckoutInv, Alone, Known
  <1>4. /\ s \in Screens /\ s.on = screen.on /\ s.initial = screen.initial
        /\ s.busy = screen.busy /\ s.restoring = FALSE
    BY DEF CheckoutInv, CheckoutTypeOK, Screens
  <1> HIDE DEF s
  <1>5. /\ screen' \in Screens /\ screen'.order = 0 /\ screen'.key \in Key
        /\ screen'.on = screen.on /\ screen'.initial = screen.initial
        /\ screen'.busy = screen.busy /\ screen'.restoring = FALSE
        /\ minted' \in 0..MaxKeys
    BY <1>1, <1>4, AnewEffect DEF CheckoutInv
  <1>6. storage'.key = 0 /\ storage'.order = 0 /\ storage' \in [key : 0..MaxKeys, order : Id]
    BY <1>1, CheckoutAssumption DEF Empty, Id
  <1>7. ~trouble' => ~trouble /\ \A p \in Placed : orders[p].status \in Settled
    <2> SUFFICES ASSUME ~trouble'
                 PROVE  ~trouble /\ \A p \in Placed : orders[p].status \in Settled
      OBVIOUS
    <2>1. ~trouble /\ orders[o].status \in Settled
      BY <1>1 DEF CheckoutInv, CheckoutTypeOK, Settled
    <2>2. orders[o].key = storage.key
      <3>1. o # 0
        BY <1>3, Rows DEF CheckoutInv
      <3> QED  BY <1>1, <1>3, <2>1, <3>1 DEF CheckoutInv, Known, Kept, StoredKey, AskedKey
    <2> QED  BY <1>3, <2>1, <2>2, NothingOpen
  <1>8. trouble' \in BOOLEAN
    BY <1>1 DEF CheckoutInv, CheckoutTypeOK
  <1>9. CheckoutTypeOK'
    BY <1>2, <1>3, <1>5, <1>6, <1>7, <1>8 DEF CheckoutInv, CheckoutTypeOK, Screens
  <1>10. Known'
    BY <1>2, <1>3, <1>5, <1>6, <1>7, <1>8 DEF CheckoutInv, Known, Placed
  <1>11. Final'
    BY <1>2, <1>3, <1>5, <1>6, <1>7, <1>8 DEF CheckoutInv, Known, Final
  <1>12. Alone'
    BY <1>2, <1>3, <1>5, <1>6, <1>7, <1>8 DEF CheckoutInv, Alone, IsLive, Asks
  <1>13. SameKey'
    BY <1>2, <1>3, <1>5, <1>6, <1>7, <1>8 DEF CheckoutInv, SameKey
  <1>14. Kept'
    <2> SUFFICES ASSUME ~trouble'
                 PROVE  OwnKey' /\ OpenKey' /\ StoredKey' /\ ShownKey' /\ AskedKey'
      BY DEF Kept
    <2>1. ~trouble /\ OwnKey /\ OpenKey /\ StoredKey /\ ShownKey /\ AskedKey
      BY <1>2, <1>3, <1>5, <1>6, <1>7 DEF CheckoutInv, Kept
    <2>2. OwnKey' /\ OpenKey' /\ StoredKey'
      BY <1>2, <1>3, <1>5, <1>6, <1>7, <2>1
         DEF CheckoutInv, Known, OwnKey, OpenKey, StoredKey, Placed
    <2>3. ShownKey'
      BY <1>2, <1>3, <1>5, <1>6, <1>7, <2>1
         DEF CheckoutInv, Known, StoredKey, ShownKey, AskedKey, Placed, IsLive
    <2>4. AskedKey'
      BY <1>2, <1>3, <1>5, <1>6, <1>7, <2>1
         DEF CheckoutInv, Known, Alone, AskedKey, Asks, IsLive
    <2> QED  BY <2>2, <2>3, <2>4
  <1>15. Implements
    BY <1>3, <1>7, <1>9, SteadyBook DEF CheckoutInv
  <1> QED  BY <1>9, <1>10, <1>11, <1>12, <1>13, <1>14, <1>15 DEF CheckoutInv

\* A purchase that is paid already leaves nothing open.
LEMMA PurchasedPaidStep ==
    ASSUME CheckoutInv, NEW i \in Slot, calls[i].status = "paid", Purchased(i)
    PROVE  CheckoutInv' /\ Implements
  <1> DEFINE o == calls[i].id
  <1>1. /\ Done(i, "checkout") /\ storage' = Empty /\ screen' = Closed
        /\ calls' = Left(Removed(i))
        /\ trouble' = (trouble \/ (~IsLive(i) /\ calls[i].key # storage.key))
        /\ UNCHANGED <<visit, minted, orders>>
    BY DEF Purchased
  <1>2. calls' \in [Slot -> Calls] /\ Gives(calls, calls')
    BY <1>1, ClosingEffect DEF CheckoutInv
  <1>3. /\ calls[i].op = "checkout" /\ calls[i].ans = "done"
        /\ o \in Placed /\ orders[o].key = calls[i].key /\ orders[o].status = "paid"
    BY <1>1 DEF Done, CheckoutInv, Known, Final, Settled
  <1>4. ~trouble' => ~trouble /\ \A p \in Placed : orders[p].status \in Settled
    <2> SUFFICES ASSUME ~trouble'
                 PROVE  ~trouble /\ \A p \in Placed : orders[p].status \in Settled
      OBVIOUS
    <2>1. ~trouble /\ orders[o].status \in Settled
      BY <1>1, <1>3 DEF CheckoutInv, CheckoutTypeOK, Settled
    <2>2. orders[o].key = storage.key
      BY <1>1, <1>3, <2>1 DEF CheckoutInv, Kept, AskedKey
    <2> QED  BY <1>3, <2>1, <2>2, NothingOpen
  <1>5. storage'.key = 0 /\ storage'.order = 0 /\ storage' \in [key : 0..MaxKeys, order : Id]
    BY <1>1, CheckoutAssumption DEF Empty, Id
  <1>6. trouble' \in BOOLEAN
    BY <1>1 DEF CheckoutInv, CheckoutTypeOK
  <1>7. screen' = Closed /\ UNCHANGED <<visit, minted, orders>>
    BY <1>1
  <1>8. CheckoutTypeOK'
    BY <1>2, <1>4, <1>5, <1>6, <1>7, CheckoutAssumption
       DEF CheckoutInv, CheckoutTypeOK, Screens, Closed, Id, Status
  <1>9. Known'
    BY <1>2, <1>4, <1>5, <1>6, <1>7, CheckoutAssumption
       DEF CheckoutInv, Known, Placed, Closed, Free, Gives
  <1>10. Final'
    BY <1>2, <1>4, <1>5, <1>6, <1>7, CheckoutAssumption
       DEF CheckoutInv, Known, Final, Closed, Free, Gives
  <1>11. Alone'
    BY <1>2, <1>4, <1>5, <1>6, <1>7, CheckoutAssumption
       DEF CheckoutInv, Alone, IsLive, Asks, Closed, Free, Gives
  <1>12. SameKey'
    BY <1>2, <1>4, <1>5, <1>6, <1>7, CheckoutAssumption DEF CheckoutInv, SameKey, Closed
  <1>13. Kept'
    BY <1>2, <1>4, <1>5, <1>6, <1>7, CheckoutAssumption
       DEF CheckoutInv, Known, Kept, OwnKey, OpenKey, StoredKey, ShownKey, AskedKey, Placed,
           IsLive, Closed, Free, Gives
  <1>14. Implements
    BY <1>2, <1>4, <1>5, <1>6, <1>7, CheckoutAssumption, <1>8, SteadyBook DEF CheckoutInv
  <1> QED  BY <1>8, <1>9, <1>10, <1>11, <1>12, <1>13, <1>14 DEF CheckoutInv

\* A purchase is kept as the tab's order.
LEMMA PurchasedOpenStep ==
    ASSUME CheckoutInv, NEW i \in Slot, calls[i].status # "paid", Purchased(i)
    PROVE  CheckoutInv' /\ Implements
  <1> DEFINE o == calls[i].id
             st == calls[i].status
  <1>1. /\ Done(i, "checkout") /\ storage' = [storage EXCEPT !.order = o]
        /\ calls' = Removed(i)
        /\ screen' = IF IsLive(i) THEN Showing([screen EXCEPT !.busy = FALSE], o, st)
                     ELSE screen
        /\ trouble' = (trouble \/ (~IsLive(i) /\ calls[i].key # storage.key))
        /\ UNCHANGED <<visit, minted, orders>>
    BY DEF Purchased, Forget
  <1>2. /\ calls' \in [Slot -> Calls] /\ calls'[i].op = "free"
        /\ \A j \in Slot \ {i} : calls'[j] = calls[j]
    BY <1>1, ForgetEffect DEF CheckoutInv
  <1>3. /\ calls[i].op = "checkout" /\ calls[i].ans = "done" /\ (IsLive(i) => screen.on)
        /\ o \in Placed /\ o \in Id \ {0} /\ st \in Status /\ orders[o].key = calls[i].key
    BY <1>1, Rows DEF Done, CheckoutInv, Alone, Known, CheckoutTypeOK, Calls, Id, Key
  <1>4. [screen EXCEPT !.busy = FALSE] \in Screens
    BY DEF CheckoutInv, CheckoutTypeOK, Screens
  <1>5. IsLive(i) =>
        /\ screen' \in Screens
        /\ screen'.order = o /\ screen'.status = st
        /\ screen'.on = screen.on /\ screen'.key = screen.key
        /\ screen'.initial = screen.initial
        /\ screen'.busy = FALSE /\ screen'.restoring = screen.restoring
    BY <1>1, <1>3, <1>4, ShowingEffect DEF CheckoutInv, CheckoutTypeOK, Screens
  <1>6. IsLive(i) => ~screen.restoring
    BY <1>3 DEF CheckoutInv, Alone, Asks
  <1>7. ~trouble' => ~trouble /\ orders[o].key = storage.key
    BY <1>1, <1>3 DEF CheckoutInv, CheckoutTypeOK, Kept, AskedKey
  <1>8. /\ storage' \in [key : 0..MaxKeys, order : Id]
        /\ storage'.key = storage.key /\ storage'.order = o /\ trouble' \in BOOLEAN
    BY <1>1, <1>3 DEF CheckoutInv, CheckoutTypeOK
  <1>9. UNCHANGED <<visit, minted, orders>> /\ (~IsLive(i) => UNCHANGED screen)
    BY <1>1
  <1>10. CheckoutTypeOK'
    BY <1>2, <1>3, <1>5, <1>6, <1>7, <1>8, <1>9 DEF CheckoutInv, CheckoutTypeOK, Screens
  <1>11. Known'
    BY <1>2, <1>3, <1>5, <1>6, <1>7, <1>8, <1>9 DEF CheckoutInv, Known, Placed
  <1>12. Final'
    BY <1>2, <1>3, <1>5, <1>6, <1>7, <1>8, <1>9 DEF CheckoutInv, Known, Final
  <1>13. Alone'
    BY <1>2, <1>3, <1>5, <1>6, <1>7, <1>8, <1>9 DEF CheckoutInv, Alone, IsLive, Asks
  <1>14. SameKey'
    BY <1>2, <1>3, <1>5, <1>6, <1>7, <1>8, <1>9 DEF CheckoutInv, SameKey
  <1>15. Kept'
    <2> SUFFICES ASSUME ~trouble'
                 PROVE  OwnKey' /\ OpenKey' /\ StoredKey' /\ ShownKey' /\ AskedKey'
      BY DEF Kept
    <2>1. ~trouble /\ OwnKey /\ OpenKey /\ StoredKey /\ ShownKey /\ AskedKey
      BY <1>2, <1>3, <1>5, <1>6, <1>7, <1>8, <1>9 DEF CheckoutInv, Kept
    <2>2. OwnKey' /\ OpenKey' /\ StoredKey'
      BY <1>2, <1>3, <1>5, <1>6, <1>7, <1>8, <1>9, <2>1
         DEF CheckoutInv, Known, OwnKey, OpenKey, StoredKey, Placed
    <2>3. ShownKey'
      BY <1>2, <1>3, <1>5, <1>6, <1>7, <1>8, <1>9, <2>1
         DEF CheckoutInv, Known, StoredKey, ShownKey, AskedKey, Placed, IsLive
    <2>4. ASSUME NEW j \in Slot, IsLive(j), j # i, calls[j].op = "restore",
                 screen.initial = 0
          PROVE  calls[j].id = o
      <3>1. calls[j].id = storage.order /\ storage.order \in Placed
        BY <2>1, <2>4 DEF CheckoutInv, Known, AskedKey
      <3>2. storage.order # 0
        BY <3>1, Rows DEF CheckoutInv
      <3> QED  BY <1>3, <1>7, <2>1, <3>1, <3>2 DEF OwnKey, StoredKey
    <2>5. AskedKey'
      BY <1>2, <1>3, <1>5, <1>6, <1>7, <1>8, <1>9, <2>1, <2>4
         DEF CheckoutInv, Known, Alone, AskedKey, Asks, IsLive
    <2> QED  BY <2>2, <2>3, <2>5
  <1>16. Implements
    BY <1>7, <1>8, <1>9, <1>10, SteadyBook DEF CheckoutInv
  <1> QED  BY <1>10, <1>11, <1>12, <1>13, <1>14, <1>15, <1>16 DEF CheckoutInv

\* The delivered service closes the checkout.
LEMMA RefreshedPaidStep ==
    ASSUME CheckoutInv, NEW i \in Slot, calls[i].status = "paid" /\ calls[i].flag, Refreshed(i)
    PROVE  CheckoutInv' /\ Implements
  <1> DEFINE o == calls[i].id
             st == calls[i].status
  <1>1. /\ Done(i, "refresh") /\ storage' = Empty /\ screen' = Closed
        /\ calls' = Left(Removed(i))
        /\ trouble' = \/ trouble \/ o # screen.order
                      \/ st = "paid" /\ screen.initial = o /\ OfAnother(o)
        /\ UNCHANGED <<visit, minted, orders>>
    BY DEF Refreshed
  <1>2. calls' \in [Slot -> Calls] /\ Gives(calls, calls')
    BY <1>1, ClosingEffect DEF CheckoutInv
  <1>3. /\ calls[i].op = "refresh" /\ calls[i].ans = "done" /\ IsLive(i)
        /\ screen.on /\ ~screen.restoring
        /\ o \in Placed /\ o \in Id \ {0} /\ st \in Status
        /\ st \in Settled => orders[o].status = st
    BY <1>1, Rows DEF Done, CheckoutInv, Alone, Known, Final, CheckoutTypeOK, Calls, Id
  <1>4. trouble' \in BOOLEAN /\ (~trouble' => ~trouble /\ o = screen.order)
    BY <1>1 DEF CheckoutInv, CheckoutTypeOK
  <1>5. ~trouble' /\ st = "paid" => \A p \in Placed : orders[p].status \in Settled
    <2> SUFFICES ASSUME ~trouble', st = "paid"
                 PROVE  \A p \in Placed : orders[p].status \in Settled
      OBVIOUS
    <2>1. orders[o].status \in Settled /\ ~trouble /\ o = screen.order
      BY <1>3, <1>4 DEF Settled
    <2>2. storage.key # 0 => orders[o].key = storage.key
      BY <1>1, <1>3, <2>1 DEF OfAnother, CheckoutInv, Kept, ShownKey
    <2> QED  BY <1>3, <2>1, <2>2, NothingOpen
  <1>6. storage'.key = 0 /\ storage'.order = 0 /\ storage' \in [key : 0..MaxKeys, order : Id]
    BY <1>1, CheckoutAssumption DEF Empty, Id
  <1>7. screen' = Closed /\ UNCHANGED <<visit, minted, orders>>
    BY <1>1
  <1>8. CheckoutTypeOK'
    BY <1>2, <1>4, <1>5, <1>6, <1>7, CheckoutAssumption
       DEF CheckoutInv, CheckoutTypeOK, Screens, Closed, Id, Status
  <1>9. Known'
    BY <1>2, <1>4, <1>5, <1>6, <1>7, CheckoutAssumption
       DEF CheckoutInv, Known, Placed, Closed, Free, Gives
  <1>10. Final'
    BY <1>2, <1>4, <1>5, <1>6, <1>7, CheckoutAssumption
       DEF CheckoutInv, Known, Final, Closed, Free, Gives
  <1>11. Alone'
    BY <1>2, <1>4, <1>5, <1>6, <1>7, CheckoutAssumption
       DEF CheckoutInv, Alone, IsLive, Asks, Closed, Free, Gives
  <1>12. SameKey'
    BY <1>2, <1>4, <1>5, <1>6, <1>7, CheckoutAssumption DEF CheckoutInv, SameKey, Closed
  <1>13. Kept'
    BY <1>2, <1>4, <1>5, <1>6, <1>7, CheckoutAssumption
       DEF CheckoutInv, Known, Kept, OwnKey, OpenKey, StoredKey, ShownKey, AskedKey, Placed,
           IsLive, Closed, Free, Gives
  <1>14. Implements
    BY <1>2, <1>4, <1>5, <1>6, <1>7, CheckoutAssumption, <1>8, SteadyBook DEF CheckoutInv
  <1> QED  BY <1>8, <1>9, <1>10, <1>11, <1>12, <1>13, <1>14 DEF CheckoutInv

\* The status is shown; a paid order leaves nothing open.
LEMMA RefreshedShownStep ==
    ASSUME CheckoutInv, NEW i \in Slot, ~(calls[i].status = "paid" /\ calls[i].flag), Refreshed(i)
    PROVE  CheckoutInv' /\ Implements
  <1> DEFINE o == calls[i].id
             st == calls[i].status
             s == [screen EXCEPT !.checking = FALSE]
  <1>1. /\ Done(i, "refresh") /\ storage' = IF st = "paid" THEN Empty ELSE storage
        /\ calls' = Removed(i)
        /\ screen' = Showing(s, o, st)
        /\ trouble' = \/ trouble \/ o # screen.order
                      \/ st = "paid" /\ screen.initial = o /\ OfAnother(o)
        /\ UNCHANGED <<visit, minted, orders>>
    BY DEF Refreshed, Forget
  <1>2. /\ calls' \in [Slot -> Calls] /\ calls'[i].op = "free"
        /\ \A j \in Slot \ {i} : calls'[j] = calls[j]
    BY <1>1, ForgetEffect DEF CheckoutInv
  <1>3. /\ calls[i].op = "refresh" /\ calls[i].ans = "done" /\ IsLive(i)
        /\ screen.on /\ ~screen.restoring
        /\ o \in Placed /\ o \in Id \ {0} /\ st \in Status
        /\ st \in Settled => orders[o].status = st
    BY <1>1, Rows DEF Done, CheckoutInv, Alone, Known, Final, CheckoutTypeOK, Calls, Id
  <1>4. trouble' \in BOOLEAN /\ (~trouble' => ~trouble /\ o = screen.order)
    BY <1>1 DEF CheckoutInv, CheckoutTypeOK
  <1>5. ~trouble' /\ st = "paid" => \A p \in Placed : orders[p].status \in Settled
    <2> SUFFICES ASSUME ~trouble', st = "paid"
                 PROVE  \A p \in Placed : orders[p].status \in Settled
      OBVIOUS
    <2>1. orders[o].status \in Settled /\ ~trouble /\ o = screen.order
      BY <1>3, <1>4 DEF Settled
    <2>2. storage.key # 0 => orders[o].key = storage.key
      BY <1>1, <1>3, <2>1 DEF OfAnother, CheckoutInv, Kept, ShownKey
    <2> QED  BY <1>3, <2>1, <2>2, NothingOpen
  <1>6. screen' = Showing(s, o, st) /\ o \in Id /\ st \in Status
    BY <1>1, <1>3
  <1>7. /\ s \in Screens /\ s.on = screen.on /\ s.key = screen.key
        /\ s.initial = screen.initial /\ s.busy = screen.busy
        /\ s.restoring = screen.restoring
    BY DEF CheckoutInv, CheckoutTypeOK, Screens
  <1> HIDE DEF s
  <1>8. /\ screen' \in Screens
        /\ screen'.order = o /\ screen'.status = st
        /\ screen'.on = screen.on /\ screen'.key = screen.key
        /\ screen'.initial = screen.initial
        /\ screen'.busy = screen.busy /\ screen'.restoring = screen.restoring
    BY <1>6, <1>7, ShowingEffect
  <1>9. /\ storage' \in [key : 0..MaxKeys, order : Id]
        /\ \/ storage' = storage
           \/ st = "paid" /\ storage'.key = 0 /\ storage'.order = 0
    BY <1>1, CheckoutAssumption DEF CheckoutInv, CheckoutTypeOK, Empty, Id
  <1>10. UNCHANGED <<visit, minted, orders>>
    BY <1>1
  <1>11. CheckoutTypeOK'
    BY <1>2, <1>3, <1>4, <1>8, <1>9, <1>10 DEF CheckoutInv, CheckoutTypeOK, Screens
  <1>12. Known'
    BY <1>2, <1>3, <1>4, <1>8, <1>9, <1>10 DEF CheckoutInv, Known, Placed
  <1>13. Final'
    BY <1>2, <1>3, <1>4, <1>8, <1>9, <1>10 DEF CheckoutInv, Known, Final
  <1>14. Alone'
    BY <1>2, <1>3, <1>4, <1>8, <1>9, <1>10 DEF CheckoutInv, Alone, IsLive, Asks
  <1>15. SameKey'
    BY <1>2, <1>3, <1>4, <1>8, <1>9, <1>10 DEF CheckoutInv, SameKey
  <1>16. Kept'
    <2> SUFFICES ASSUME ~trouble'
                 PROVE  OwnKey' /\ OpenKey' /\ StoredKey' /\ ShownKey' /\ AskedKey'
      BY DEF Kept
    <2>1. ~trouble /\ OwnKey /\ OpenKey /\ StoredKey /\ ShownKey /\ AskedKey
      BY <1>2, <1>3, <1>4, <1>5, <1>8, <1>9, <1>10 DEF CheckoutInv, Kept
    <2>2. OwnKey' /\ OpenKey' /\ StoredKey'
      BY <1>2, <1>3, <1>4, <1>5, <1>8, <1>9, <1>10, <2>1
         DEF CheckoutInv, Known, OwnKey, OpenKey, StoredKey, Placed
    <2>3. ShownKey'
      BY <1>2, <1>3, <1>4, <1>5, <1>8, <1>9, <1>10, <2>1
         DEF CheckoutInv, Known, StoredKey, ShownKey, AskedKey, Placed, IsLive
    <2>4. AskedKey'
      BY <1>2, <1>3, <1>4, <1>5, <1>8, <1>9, <1>10, <2>1
         DEF CheckoutInv, Known, Alone, AskedKey, Asks, IsLive
    <2> QED  BY <2>2, <2>3, <2>4
  <1>17. Implements
    BY <1>4, <1>5, <1>9, <1>10, <1>11, SteadyBook DEF CheckoutInv
  <1> QED  BY <1>11, <1>12, <1>13, <1>14, <1>15, <1>16, <1>17 DEF CheckoutInv

\* The cancelled order is forgotten and the checkout closed.
LEMMA CancelledClosingStep ==
    ASSUME CheckoutInv, NEW i \in Slot, calls[i].flag, Cancelled(i)
    PROVE  CheckoutInv' /\ Implements
  <1> DEFINE o == calls[i].id
  <1>1. /\ Done(i, "cancel") /\ storage' = Empty /\ screen' = Closed
        /\ calls' = Left(Removed(i)) /\ UNCHANGED <<visit, minted, orders>>
        /\ trouble' = \/ trouble
                      \/ (~IsLive(i) \/ screen.initial = o) /\ OfAnother(o)
                      \/ ~IsLive(i) /\ screen.on /\ screen.order # o
    BY DEF Cancelled
  <1>2. calls' \in [Slot -> Calls] /\ Gives(calls, calls')
    BY <1>1, ClosingEffect DEF CheckoutInv
  <1>3. /\ calls[i].op = "cancel" /\ calls[i].ans = "done" /\ (IsLive(i) => screen.on)
        /\ o \in Placed /\ orders[o].status = "deleted"
    BY <1>1 DEF Done, CheckoutInv, Alone, Known, Final, Settled
  <1>4. trouble' \in BOOLEAN /\ (~trouble' => ~trouble)
    BY <1>1 DEF CheckoutInv, CheckoutTypeOK
  <1>5. ~trouble' => \A p \in Placed : orders[p].status \in Settled
    <2> SUFFICES ASSUME ~trouble'
                 PROVE  \A p \in Placed : orders[p].status \in Settled
      OBVIOUS
    <2>1. orders[o].status \in Settled /\ ~trouble /\ o # 0
      BY <1>3, <1>4, Rows DEF Settled, CheckoutInv
    <2>2. storage.key # 0 => orders[o].key = storage.key
      BY <1>1, <1>3, <2>1 DEF OfAnother, CheckoutInv, Kept, ShownKey, AskedKey
    <2> QED  BY <1>3, <2>1, <2>2, NothingOpen
  <1>6. storage'.key = 0 /\ storage'.order = 0 /\ storage' \in [key : 0..MaxKeys, order : Id]
    BY <1>1, CheckoutAssumption DEF Empty, Id
  <1>7. screen' = Closed /\ UNCHANGED <<visit, minted, orders>>
    BY <1>1
  <1>8. CheckoutTypeOK'
    BY <1>2, <1>4, <1>5, <1>6, <1>7, CheckoutAssumption
       DEF CheckoutInv, CheckoutTypeOK, Screens, Closed, Id, Status
  <1>9. Known'
    BY <1>2, <1>4, <1>5, <1>6, <1>7, CheckoutAssumption
       DEF CheckoutInv, Known, Placed, Closed, Free, Gives
  <1>10. Final'
    BY <1>2, <1>4, <1>5, <1>6, <1>7, CheckoutAssumption
       DEF CheckoutInv, Known, Final, Closed, Free, Gives
  <1>11. Alone'
    BY <1>2, <1>4, <1>5, <1>6, <1>7, CheckoutAssumption
       DEF CheckoutInv, Alone, IsLive, Asks, Closed, Free, Gives
  <1>12. SameKey'
    BY <1>2, <1>4, <1>5, <1>6, <1>7, CheckoutAssumption DEF CheckoutInv, SameKey, Closed
  <1>13. Kept'
    BY <1>2, <1>4, <1>5, <1>6, <1>7, CheckoutAssumption
       DEF CheckoutInv, Known, Kept, OwnKey, OpenKey, StoredKey, ShownKey, AskedKey, Placed,
           IsLive, Closed, Free, Gives
  <1>14. Implements
    BY <1>2, <1>4, <1>5, <1>6, <1>7, CheckoutAssumption, <1>8, SteadyBook DEF CheckoutInv
  <1> QED  BY <1>8, <1>9, <1>10, <1>11, <1>12, <1>13, <1>14 DEF CheckoutInv

\* The cancelled order is forgotten and the screen goes on with a new key.
LEMMA CancelledBackStep ==
    ASSUME CheckoutInv, NEW i \in Slot, ~calls[i].flag, Cancelled(i)
    PROVE  CheckoutInv' /\ Implements
  <1> DEFINE o == calls[i].id
             s == [screen EXCEPT !.busy = FALSE]
  <1>1. /\ Done(i, "cancel") /\ storage' = Empty /\ calls' = Removed(i)
        /\ UNCHANGED <<visit, orders>>
        /\ IF IsLive(i) THEN Mint /\ screen' = Anew(s) ELSE UNCHANGED <<screen, minted>>
        /\ trouble' = \/ trouble
                      \/ (~IsLive(i) \/ screen.initial = o) /\ OfAnother(o)
                      \/ ~IsLive(i) /\ screen.on /\ screen.order # o
    BY DEF Cancelled, Forget
  <1>2. /\ calls' \in [Slot -> Calls] /\ calls'[i].op = "free"
        /\ \A j \in Slot \ {i} : calls'[j] = calls[j]
    BY <1>1, ForgetEffect DEF CheckoutInv
  <1>3. /\ calls[i].op = "cancel" /\ calls[i].ans = "done" /\ (IsLive(i) => screen.on)
        /\ o \in Placed /\ orders[o].status = "deleted"
    BY <1>1 DEF Done, CheckoutInv, Alone, Known, Final, Settled
  <1>4. trouble' \in BOOLEAN /\ (~trouble' => ~trouble)
    BY <1>1 DEF CheckoutInv, CheckoutTypeOK
  <1>5. ~trouble' => \A p \in Placed : orders[p].status \in Settled
    <2> SUFFICES ASSUME ~trouble'
                 PROVE  \A p \in Placed : orders[p].status \in Settled
      OBVIOUS
    <2>1. orders[o].status \in Settled /\ ~trouble /\ o # 0
      BY <1>3, <1>4, Rows DEF Settled, CheckoutInv
    <2>2. storage.key # 0 => orders[o].key = storage.key
      BY <1>1, <1>3, <2>1 DEF OfAnother, CheckoutInv, Kept, ShownKey, AskedKey
    <2> QED  BY <1>3, <2>1, <2>2, NothingOpen
  <1>6. storage'.key = 0 /\ storage'.order = 0 /\ storage' \in [key : 0..MaxKeys, order : Id]
    BY <1>1, CheckoutAssumption DEF Empty, Id
  <1>7. /\ s \in Screens /\ s.on = screen.on /\ s.initial = screen.initial
        /\ s.busy = FALSE /\ s.restoring = screen.restoring
    BY DEF CheckoutInv, CheckoutTypeOK, Screens
  <1> HIDE DEF s
  <1>8. IsLive(i) =>
        /\ screen' \in Screens /\ screen'.order = 0 /\ screen'.key \in Key
        /\ screen'.on = screen.on /\ screen'.initial = screen.initial
        /\ screen'.busy = FALSE /\ screen'.restoring = screen.restoring
        /\ minted' \in 0..MaxKeys
    BY <1>1, <1>7, AnewEffect DEF CheckoutInv
  <1>9. UNCHANGED <<visit, orders>> /\ (~IsLive(i) => UNCHANGED <<screen, minted>>)
    BY <1>1
  <1>10. IsLive(i) => ~screen.restoring
    BY <1>3 DEF CheckoutInv, Alone, Asks
  <1>11. ~trouble' /\ ~IsLive(i) => ~screen.on \/ screen.order = o
    BY <1>1
  <1>12. o # 0
    BY <1>3, Rows DEF CheckoutInv
  <1>13. CheckoutTypeOK'
    BY <1>2, <1>3, <1>4, <1>6, <1>8, <1>9, <1>10 DEF CheckoutInv, CheckoutTypeOK, Screens
  <1>14. Known'
    BY <1>2, <1>3, <1>4, <1>6, <1>8, <1>9, <1>10 DEF CheckoutInv, Known, Placed
  <1>15. Final'
    BY <1>2, <1>3, <1>4, <1>6, <1>8, <1>9, <1>10 DEF CheckoutInv, Known, Final
  <1>16. Alone'
    BY <1>2, <1>3, <1>4, <1>6, <1>8, <1>9, <1>10 DEF CheckoutInv, Alone, IsLive, Asks
  <1>17. SameKey'
    BY <1>2, <1>3, <1>4, <1>6, <1>8, <1>9, <1>10 DEF CheckoutInv, SameKey
  <1>18. Kept'
    <2> SUFFICES ASSUME ~trouble'
                 PROVE  OwnKey' /\ OpenKey' /\ StoredKey' /\ ShownKey' /\ AskedKey'
      BY DEF Kept
    <2>1. ~trouble /\ OwnKey /\ OpenKey /\ StoredKey /\ ShownKey /\ AskedKey
      BY <1>2, <1>3, <1>4, <1>5, <1>6, <1>8, <1>9, <1>10, <1>11, <1>12 DEF CheckoutInv, Kept
    <2>2. OwnKey' /\ OpenKey' /\ StoredKey'
      BY <1>2, <1>3, <1>4, <1>5, <1>6, <1>8, <1>9, <1>10, <1>11, <1>12, <2>1
         DEF CheckoutInv, Known, OwnKey, OpenKey, StoredKey, Placed
    <2>3. ShownKey'
      BY <1>2, <1>3, <1>4, <1>5, <1>6, <1>8, <1>9, <1>10, <1>11, <1>12, <2>1
         DEF CheckoutInv, Known, StoredKey, ShownKey, AskedKey, Placed, IsLive
    <2>4. AskedKey'
      BY <1>2, <1>3, <1>4, <1>5, <1>6, <1>8, <1>9, <1>10, <1>11, <1>12, <2>1
         DEF CheckoutInv, Known, Alone, AskedKey, Asks, IsLive
    <2> QED  BY <2>2, <2>3, <2>4
  <1>19. Implements
    BY <1>4, <1>5, <1>9, <1>13, SteadyBook DEF CheckoutInv
  <1> QED  BY <1>13, <1>14, <1>15, <1>16, <1>17, <1>18, <1>19 DEF CheckoutInv

\* A plan of the list.
LEMMA MountNewStep ==
    ASSUME CheckoutInv, storage.order = 0, Mount(0)
    PROVE  CheckoutInv' /\ Implements
  <1> DEFINE key == IF storage.key = 0 THEN minted + 1 ELSE storage.key
  <1>1. /\ ~screen.on /\ UNCHANGED <<visit, calls, storage, orders, trouble>>
        /\ IF storage.key = 0 THEN Mint ELSE UNCHANGED minted
    BY DEF Mount
  <1>2. IF storage.key = 0 THEN minted' = minted + 1 /\ minted' \in Key ELSE minted' = minted
    BY <1>1, CheckoutAssumption DEF Mint, Key, CheckoutInv, CheckoutTypeOK
  <1>3. key \in Key /\ minted' \in 0..MaxKeys /\ (storage.key # 0 => key = storage.key)
    BY <1>2, CheckoutAssumption DEF Key, CheckoutInv, CheckoutTypeOK
  <1>4. \A i \in Slot : ~IsLive(i) \/ calls[i].op = "free"
    BY <1>1 DEF CheckoutInv, Alone
  <1> HIDE DEF key
  <1>5. screen' = [Closed EXCEPT !.on = TRUE, !.initial = 0, !.restoring = FALSE, !.key = key]
    BY DEF Mount, key
  <1>6. /\ screen' \in Screens /\ screen'.on = TRUE /\ screen'.key = key
        /\ screen'.order = 0 /\ screen'.initial = 0 /\ ~screen'.restoring
    <2>1. 0 \in Id /\ key \in 0..MaxKeys
      BY <1>3, CheckoutAssumption DEF Id, Key
    <2> QED  BY <1>5, <2>1, ClosedScreen DEF Screens
  <1>7. UNCHANGED <<visit, calls, storage, orders, trouble>>
    BY <1>1
  <1>8. CheckoutTypeOK'
    BY <1>3, <1>4, <1>6, <1>7 DEF CheckoutInv, CheckoutTypeOK, Screens
  <1>9. Known'
    BY <1>3, <1>4, <1>6, <1>7 DEF CheckoutInv, Known, Placed
  <1>10. Final'
    BY <1>3, <1>4, <1>6, <1>7 DEF CheckoutInv, Known, Final
  <1>11. Alone'
    BY <1>3, <1>4, <1>6, <1>7 DEF CheckoutInv, Alone, IsLive, Asks
  <1>12. SameKey'
    BY <1>3, <1>4, <1>6, <1>7 DEF CheckoutInv, SameKey
  <1>13. Kept'
    BY <1>3, <1>4, <1>6, <1>7
       DEF CheckoutInv, Known, Kept, OwnKey, OpenKey, StoredKey, ShownKey, AskedKey, Placed,
           IsLive
  <1>14. Implements
    BY <1>3, <1>4, <1>6, <1>7, <1>8, SteadyBook DEF CheckoutInv
  <1> QED  BY <1>8, <1>9, <1>10, <1>11, <1>12, <1>13, <1>14 DEF CheckoutInv

\* The tab has an order already.
LEMMA MountStoredStep ==
    ASSUME CheckoutInv, storage.order # 0, Mount(0)
    PROVE  CheckoutInv' /\ Implements
  <1> DEFINE key == IF storage.key = 0 THEN minted + 1 ELSE storage.key
             id == storage.order
  <1>1. /\ ~screen.on /\ Send("restore", 0, "card", id, FALSE)
        /\ UNCHANGED <<visit, storage, orders, trouble>>
        /\ IF storage.key = 0 THEN Mint ELSE UNCHANGED minted
    BY DEF Mount
  <1>2. PICK i \in Slot : calls[i] = Free /\ i = CHOOSE j \in Slot : calls[j] = Free
    BY <1>1, SendEffect DEF Send
  <1>3. calls' = [calls EXCEPT ![i] = Asking("restore", 0, "card", id, FALSE)]
    BY <1>1, <1>2 DEF Send, Put, Asking
  <1>4. id \in Placed /\ id \in Id \ {0}
    BY <1>1, Rows DEF CheckoutInv, Known, Id
  <1>5. IF storage.key = 0 THEN minted' = minted + 1 /\ minted' \in Key ELSE minted' = minted
    BY <1>1, CheckoutAssumption DEF Mint, Key, CheckoutInv, CheckoutTypeOK
  <1>6. key \in Key /\ minted' \in 0..MaxKeys /\ (storage.key # 0 => key = storage.key)
    BY <1>5, CheckoutAssumption DEF Key, CheckoutInv, CheckoutTypeOK
  <1>7. \A j \in Slot : ~IsLive(j) \/ calls[j].op = "free"
    BY <1>1 DEF CheckoutInv, Alone
  <1> HIDE DEF key
  <1>8. screen' = [Closed EXCEPT !.on = TRUE, !.initial = 0, !.restoring = TRUE, !.key = key]
    BY DEF Mount, key
  <1>9. /\ screen' \in Screens /\ screen'.on = TRUE /\ screen'.key = key
        /\ screen'.order = 0 /\ screen'.initial = 0 /\ screen'.restoring
        /\ screen'.timer # "live"
    <2>1. 0 \in Id /\ key \in 0..MaxKeys
      BY <1>6, CheckoutAssumption DEF Id, Key
    <2> QED  BY <1>8, <2>1, ClosedScreen DEF Screens
  <1>10. /\ calls' \in [Slot -> Calls] /\ calls'[i].op = "restore" /\ calls'[i].id = id
         /\ calls'[i].ans = "waiting" /\ calls'[i].from = "live"
         /\ \A j \in Slot \ {i} : calls'[j] = calls[j]
    BY <1>3, <1>4, CheckoutAssumption
       DEF CheckoutInv, CheckoutTypeOK, Asking, Calls, Method, Id, Status
  <1>11. UNCHANGED <<visit, storage, orders, trouble>>
    BY <1>1
  <1>12. CheckoutTypeOK'
    BY <1>4, <1>6, <1>7, <1>9, <1>10, <1>11 DEF CheckoutInv, CheckoutTypeOK, Screens
  <1>13. Known'
    BY <1>4, <1>6, <1>7, <1>9, <1>10, <1>11 DEF CheckoutInv, Known, Placed
  <1>14. Final'
    BY <1>4, <1>6, <1>7, <1>9, <1>10, <1>11 DEF CheckoutInv, Known, Final
  <1>15. Alone'
    BY <1>4, <1>6, <1>7, <1>9, <1>10, <1>11 DEF CheckoutInv, Alone, IsLive, Asks
  <1>16. SameKey'
    BY <1>4, <1>6, <1>7, <1>9, <1>10, <1>11 DEF CheckoutInv, SameKey
  <1>17. Kept'
    BY <1>4, <1>6, <1>7, <1>9, <1>10, <1>11
       DEF CheckoutInv, Known, Kept, OwnKey, OpenKey, StoredKey, ShownKey, AskedKey, Placed,
           IsLive
  <1>18. Implements
    BY <1>4, <1>6, <1>7, <1>9, <1>10, <1>11, <1>12, SteadyBook DEF CheckoutInv
  <1> QED  BY <1>12, <1>13, <1>14, <1>15, <1>16, <1>17, <1>18 DEF CheckoutInv

\* An order that tracking shows.
LEMMA MountTrackedStep ==
    ASSUME CheckoutInv, NEW o \in Placed, Mount(o)
    PROVE  CheckoutInv' /\ Implements
  <1> DEFINE key == IF storage.key = 0 THEN minted + 1 ELSE storage.key
             id == o
             s == [Closed EXCEPT !.on = TRUE, !.initial = o, !.restoring = TRUE, !.key = key]
  <1>1. o # 0
    BY Rows DEF CheckoutInv
  <1>2. /\ ~screen.on /\ Send("restore", 0, "card", id, FALSE)
        /\ UNCHANGED <<visit, storage, orders, trouble>>
        /\ IF storage.key = 0 THEN Mint ELSE UNCHANGED minted
    BY <1>1 DEF Mount
  <1>3. PICK i \in Slot : calls[i] = Free /\ i = CHOOSE j \in Slot : calls[j] = Free
    BY <1>2, SendEffect DEF Send
  <1>4. calls' = [calls EXCEPT ![i] = Asking("restore", 0, "card", id, FALSE)]
    BY <1>2, <1>3 DEF Send, Put, Asking
  <1>5. id \in Placed /\ id \in Id \ {0}
    BY <1>2, Rows DEF CheckoutInv, Known, Id
  <1>6. IF storage.key = 0 THEN minted' = minted + 1 /\ minted' \in Key ELSE minted' = minted
    BY <1>2, CheckoutAssumption DEF Mint, Key, CheckoutInv, CheckoutTypeOK
  <1>7. key \in Key /\ minted' \in 0..MaxKeys /\ (storage.key # 0 => key = storage.key)
    BY <1>6, CheckoutAssumption DEF Key, CheckoutInv, CheckoutTypeOK
  <1>8. \A j \in Slot : ~IsLive(j) \/ calls[j].op = "free"
    BY <1>2 DEF CheckoutInv, Alone
  <1> HIDE DEF key
  <1>9. PICK st \in Listed(o) : screen' = Showing(s, o, st)
    BY <1>1 DEF Mount, key
  <1>listed. st \in Status /\ (st \in Settled => orders[o].status = st)
    <2>1. orders[o].status \in Status
      BY Rows DEF CheckoutInv
    <2> QED  BY <2>1, <1>9 DEF Listed, Behind, Status, Settled
  <1>10. /\ s \in Screens /\ s.on = TRUE /\ s.key = key /\ s.initial = o
        /\ s.restoring /\ s.timer # "live"
    <2>1. o \in Id /\ key \in 0..MaxKeys
      BY <1>5, <1>7 DEF Key
    <2> QED  BY <2>1, ClosedScreen DEF Screens
  <1> HIDE DEF s
  <1>11. /\ screen' \in Screens /\ screen'.on = TRUE /\ screen'.key = key
        /\ screen'.order = o /\ screen'.status = st
        /\ screen'.initial = o /\ screen'.restoring
        /\ screen'.timer # "live"
    BY <1>5, <1>9, <1>10, <1>listed, ShowingEffect
  <1>12. /\ calls' \in [Slot -> Calls] /\ calls'[i].op = "restore" /\ calls'[i].id = id
         /\ calls'[i].ans = "waiting" /\ calls'[i].from = "live"
         /\ \A j \in Slot \ {i} : calls'[j] = calls[j]
    BY <1>4, <1>5, CheckoutAssumption
       DEF CheckoutInv, CheckoutTypeOK, Asking, Calls, Method, Id, Status
  <1>13. UNCHANGED <<visit, storage, orders, trouble>>
    BY <1>2
  <1>14. CheckoutTypeOK'
    BY <1>1, <1>5, <1>7, <1>8, <1>11, <1>12, <1>13 DEF CheckoutInv, CheckoutTypeOK, Screens
  <1>15. Known'
    BY <1>1, <1>5, <1>7, <1>8, <1>11, <1>12, <1>13 DEF CheckoutInv, Known, Placed
  <1>16. Final'
    BY <1>1, <1>5, <1>listed, <1>7, <1>8, <1>11, <1>12, <1>13 DEF CheckoutInv, Known, Final
  <1>17. Alone'
    BY <1>1, <1>5, <1>7, <1>8, <1>11, <1>12, <1>13 DEF CheckoutInv, Alone, IsLive, Asks
  <1>18. SameKey'
    BY <1>1, <1>5, <1>7, <1>8, <1>11, <1>12, <1>13 DEF CheckoutInv, SameKey
  <1>19. Kept'
    BY <1>1, <1>5, <1>7, <1>8, <1>11, <1>12, <1>13
       DEF CheckoutInv, Known, Kept, OwnKey, OpenKey, StoredKey, ShownKey, AskedKey, Placed,
           IsLive
  <1>20. Implements
    BY <1>1, <1>5, <1>7, <1>8, <1>11, <1>12, <1>13, <1>14, SteadyBook DEF CheckoutInv
  <1> QED  BY <1>14, <1>15, <1>16, <1>17, <1>18, <1>19, <1>20 DEF CheckoutInv

-----------------------------------------------------------------------------
(* The checkout.                                                           *)

\* At first nothing is asked, ordered or kept.
LEMMA CheckoutInvInit == CheckoutInit => CheckoutInv
  <1> SUFFICES ASSUME CheckoutInit  PROVE CheckoutInv
    OBVIOUS
  <1>1. /\ screen = Closed /\ storage = [key |-> 0, order |-> 0] /\ minted = 0
        /\ calls = [i \in Slot |-> Free] /\ orders = <<>> /\ trouble = FALSE /\ visit \in Visits
    BY DEF CheckoutInit, Empty
  <1>2. CheckoutTypeOK
    <2>1. 0 \in Id /\ 0 \in 0..MaxKeys
      BY CheckoutAssumption DEF Id
    <2>2. orders \in Seq([key : Key, method : Method, status : Status]) /\ Len(orders) <= MaxOrders
      BY <1>1, EmptySeq, CheckoutAssumption
    <2>3. calls \in [Slot -> Calls]
      BY <1>1, FreeCall
    <2> QED  BY <1>1, <2>1, <2>2, <2>3, ClosedScreen DEF CheckoutTypeOK
  <1>3. Placed = {}
    BY <1>1 DEF Placed
  <1>4. /\ ~screen.on /\ ~screen.restoring /\ screen.order = 0 /\ screen.initial = 0
    BY <1>1 DEF Closed
  <1>5. \A i \in Slot : calls[i].op = "free"
    BY <1>1 DEF Free
  <1>6. Known
    BY <1>1, <1>3, <1>4, <1>5 DEF Known
  <1>7. Final /\ Alone /\ SameKey
    BY <1>4, <1>5 DEF Final, Alone, SameKey, Asks
  <1>8. Kept
    BY <1>1, <1>3, <1>4, <1>5 DEF Kept, OwnKey, OpenKey, StoredKey, ShownKey, AskedKey
  <1> QED  BY <1>2, <1>6, <1>7, <1>8 DEF CheckoutInv

\* The book opens empty.
LEMMA BookInit == CheckoutInit => B!Init
  <1> SUFFICES ASSUME CheckoutInit  PROVE B!Init
    OBVIOUS
  <1>1. orders = <<>> /\ trouble = FALSE
    BY DEF CheckoutInit
  <1>2. Book = <<>>
    BY <1>1 DEF Book
  <1> QED  BY <1>1, <1>2 DEF B!Init

\* Every step keeps the invariant and is a step of the book, or none.
LEMMA CheckoutStep ==
    ASSUME CheckoutInv, [CheckoutNext]_checkoutVars
    PROVE  CheckoutInv' /\ Implements
  <1>1. CASE \E o \in {0} \cup Placed : Mount(o)
    <2>1. CASE Mount(0)
      BY <2>1, MountNewStep, MountStoredStep
    <2>2. CASE \E o \in Placed : Mount(o)
      BY <2>2, MountTrackedStep
    <2> QED  BY <1>1, <2>1, <2>2
  <1>2. CASE Price \/ (\E m \in Method \cap visit : Purchase(m)) \/ Poll \/ Upload
    BY <1>2, PriceStep, PurchaseStep, PollStep, UploadStep
  <1>3. CASE (\E b \in BOOLEAN : AskStatus(b)) \/ (\E b \in BOOLEAN : Cancel(b))
    BY <1>3, AskStatusStep, CancelStep
  <1>4. CASE Fresh \/ DropQuote \/ Leave
    BY <1>4, FreshStep, DropQuoteStep, LeaveStep
  <1>5. CASE Reload
    BY <1>5, GoneStep DEF Reload
  <1>6. CASE CloseTab
    BY <1>6, GoneStep DEF CloseTab
  <1>7. CASE \E o \in Placed : Work(o)
    BY <1>7, WorkStep
  <1>8. ASSUME NEW i \in Slot, Refuse(i) \/ Serve(i)
        PROVE  CheckoutInv' /\ Implements
    BY <1>8, RefuseStep, ServeReadStep, ServeKnownStep, ServeNewStep, ServeUploadStep,
       ServeCancelStep DEF Serve
  <1>9. ASSUME NEW i \in Slot, Reply(i)
        PROVE  CheckoutInv' /\ Implements
    <2>1. CASE RestoreFails(i)
      BY <2>1, RestoreFailsTrackedStep, RestoreFailsForgetsStep
    <2>2. CASE Restored(i) \/ Quoted(i) \/ Fails(i) \/ Uploaded(i)
      BY <2>2, RestoredStep, QuotedStep, FailsStep, UploadedStep
    <2>3. CASE Purchased(i)
      BY <2>3, PurchasedPaidStep, PurchasedOpenStep
    <2>4. CASE Refreshed(i)
      BY <2>4, RefreshedPaidStep, RefreshedShownStep
    <2>5. CASE Cancelled(i)
      BY <2>5, CancelledClosingStep, CancelledBackStep
    <2> QED  BY <1>9, <2>1, <2>2, <2>3, <2>4, <2>5 DEF Reply
  <1>10. CASE UNCHANGED checkoutVars
    <2> USE <1>10 DEF checkoutVars
    <2>1. CheckoutTypeOK' /\ Known' /\ Final' /\ SameKey'
      BY DEF CheckoutInv, CheckoutTypeOK, Known, Final, SameKey, Placed
    <2>2. Alone' /\ Kept'
      BY DEF CheckoutInv, Alone, Kept, OwnKey, OpenKey, StoredKey, ShownKey, AskedKey, Placed,
         IsLive
    <2>3. Implements
      BY DEF Implements, Book
    <2> QED  BY <2>1, <2>2, <2>3 DEF CheckoutInv
  <1> QED  BY <1>1, <1>2, <1>3, <1>4, <1>5, <1>6, <1>7, <1>8, <1>9, <1>10
              DEF CheckoutNext, Placed

\* Whatever the buyer, the server and the network do, the checkout of the mini
\* app orders what is asked for once, and the tab knows the order that is open
\* unless something went astray.
THEOREM CheckoutBuysOnce == CheckoutSpec => BuysOnce
  <1>1. CheckoutInv /\ [CheckoutNext]_checkoutVars => CheckoutInv' /\ [B!Next]_<<Book, trouble>>
    BY CheckoutStep DEF Implements
  <1>2. CheckoutInit => CheckoutInv /\ B!Init
    BY CheckoutInvInit, BookInit
  <1> QED  BY <1>1, <1>2, PTL DEF CheckoutSpec, BuysOnce, B!Spec
=============================================================================

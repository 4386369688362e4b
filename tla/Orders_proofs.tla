---------------------------- MODULE Orders_proofs ----------------------------
(***************************************************************************)
(* Proofs about Orders, for any number of customers, orders and workers:   *)
(* its types, what is delivered and paid for ever, the usages and limits   *)
(* of a discount code, and the customers' wallets.                         *)
(***************************************************************************)
EXTENDS Orders, SumLemmas, FiniteSetTheorems, TLAPS

\* A worker that is on its way to deliver order o, or to record that it
\* could not.
Working == Pipeline \cup {"scheduled", "failing", "marking"}
Works(w, o) == task[w].order = o /\ task[w].pc \in Working
Closes(w, o) == task[w].order = o /\ task[w].pc \in {"cancel", "reject"}

\* What a closing task remembers of the discount code is a count or NoRow.
SeenCount ==
    \A w \in Worker :
        task[w].pc \in {"cancel", "back", "reject"} =>
            task[w].seen \in Nat \cup {NoRow}

\* Only one worker at a time works on a card order, the row says so, and
\* nobody closes it meanwhile.
OneWorker ==
    \A o \in Order : Kind[o] = "card" =>
        /\ \A w \in Worker : Works(w, o) => status[o] = "processing"
        /\ \A v, w \in Worker : Works(v, o) /\ Works(w, o) => v = w
        /\ \A w \in Worker : Closes(w, o) =>
               status[o] \notin {"none", "paid", "processing"}
        /\ \A w \in Worker : task[w].order = o =>
               task[w].pc \notin {"back", "quoting"}

IInv == TypeOK /\ SeenCount /\ OneWorker /\ DeliverOnce

\* TypeOK holds initially and is kept by every action.
LEMMA TypeInit == Init => TypeOK /\ SeenCount
  BY OrdersAssumption DEF Init, TypeOK, SeenCount, Idle, Pcs, Pipeline, Statuses

\* Every step keeps the types, and what a handler has read of a used count.
LEMMA TypeStep == TypeOK /\ SeenCount /\ [Next]_vars => TypeOK' /\ SeenCount'
<1> SUFFICES ASSUME TypeOK, SeenCount, [Next]_vars PROVE TypeOK' /\ SeenCount'
  OBVIOUS
<1> USE OrdersAssumption
    DEF TypeOK, SeenCount, Idle, Pcs, Pipeline, Statuses
<1>1. ASSUME NEW o \in Order, Checkout(o) PROVE TypeOK' /\ SeenCount'
  BY <1>1 DEF Checkout, CodeAccepts, MarkUsed, moneyVars, codeVars
<1>2. ASSUME NEW o \in Order, PlaceOrder(o) PROVE TypeOK' /\ SeenCount'
  BY <1>2 DEF PlaceOrder, MarkUsed, moneyVars, codeVars
<1>3. ASSUME NEW o \in Order, UploadReceipt(o) PROVE TypeOK' /\ SeenCount'
  BY <1>3 DEF UploadReceipt, moneyVars, codeVars
<1>4. ASSUME NEW o \in Order, QueueTake(o) PROVE TypeOK' /\ SeenCount'
  BY <1>4 DEF QueueTake, Start, moneyVars, codeVars
<1>5. ASSUME NEW o \in Order, Recover(o) PROVE TypeOK' /\ SeenCount'
  BY <1>5 DEF Recover, moneyVars, codeVars
<1>6. ASSUME NEW o \in Order, TopupApprove(o) PROVE TypeOK' /\ SeenCount'
  BY <1>6 DEF TopupApprove, codeVars
<1>7. ASSUME NEW w \in Worker, NEW o \in Order, CancelBegin(w, o) PROVE TypeOK' /\ SeenCount'
  BY <1>7 DEF CancelBegin, Start, ReadCode, NoRow, moneyVars, codeVars
<1>8. ASSUME NEW w \in Worker, NEW o \in Order, BackRead(w, o) PROVE TypeOK' /\ SeenCount'
  BY <1>8 DEF BackRead, Start, ReadCode, NoRow, moneyVars, codeVars
<1>9. ASSUME NEW w \in Worker, NEW o \in Order, Approve(w, o) PROVE TypeOK' /\ SeenCount'
  BY <1>9 DEF Approve, Start, moneyVars, codeVars
<1>10. ASSUME NEW w \in Worker, NEW o \in Order, ChatBuyBegin(w, o) PROVE TypeOK' /\ SeenCount'
  BY <1>10 DEF ChatBuyBegin, Start, moneyVars, codeVars
<1>11. ASSUME NEW w \in Worker, NEW o \in Order, RenewRead(w, o) PROVE TypeOK' /\ SeenCount'
  BY <1>11 DEF RenewRead, Start, moneyVars, codeVars
<1>12. ASSUME NEW w \in Worker, NEW o \in Order, IpnBegin(w, o) PROVE TypeOK' /\ SeenCount'
  BY <1>12 DEF IpnBegin, Start, moneyVars, codeVars
<1>13. ASSUME NEW w \in Worker, NEW o \in Order, RejectBegin(w, o) PROVE TypeOK' /\ SeenCount'
  BY <1>13 DEF RejectBegin, Start, ReadCode, NoRow, moneyVars, codeVars
<1>14. ASSUME NEW w \in Worker, ProvisionBegin(w) PROVE TypeOK' /\ SeenCount'
  <2> DEFINE o == task[w].order
  <2>1. CASE status[o] \in {"paid", "deleted"}
    <3>1. /\ task' = [task EXCEPT ![w] = Idle]
          /\ UNCHANGED <<status, receipt, delivered, remote, asked, wallet,
                         bonuses, used, usage, crashes>>
      BY <1>14, <2>1 DEF ProvisionBegin, Finish, moneyVars, codeVars
    <3> QED BY <3>1
  <2>2. CASE status[o] \notin {"paid", "deleted"}
    <3>1. /\ task' = [task EXCEPT ![w].pc = "building"]
          /\ task[w].pc # "idle" /\ UNCHANGED <<status, receipt, delivered,
                 remote, asked, wallet, bonuses, used, usage, crashes>>
      BY <1>14, <2>2 DEF ProvisionBegin, moneyVars, codeVars
    <3> QED BY <3>1
  <2> QED BY <2>1, <2>2
<1>15. ASSUME NEW w \in Worker, RenewPlace(w) PROVE TypeOK' /\ SeenCount'
  BY <1>15 DEF RenewPlace, moneyVars, codeVars
<1>16. ASSUME NEW w \in Worker, RenewRefuse(w) PROVE TypeOK' /\ SeenCount'
  BY <1>16 DEF RenewRefuse, Finish, moneyVars, codeVars
<1>17. ASSUME NEW w \in Worker, RemoteDone(w) PROVE TypeOK' /\ SeenCount'
  BY <1>17 DEF RemoteDone, moneyVars, codeVars
<1>18. ASSUME NEW w \in Worker, RemoteFail(w) PROVE TypeOK' /\ SeenCount'
  <2>1. /\ task[w].pc = "building" /\ UNCHANGED <<status, receipt, delivered, asked, wallet,
                                                 bonuses, used, usage, crashes>>
        /\ \/ task' = [task EXCEPT ![w].pc = "failing"]
           \/ task' = [task EXCEPT ![w] = Idle]
    BY <1>18 DEF RemoteFail, Finish, moneyVars, codeVars
  <2>2. PICK done \in {0, 1} : remote' = [remote EXCEPT ![task[w].order] = @ + done]
    BY <1>18 DEF RemoteFail
  <2>3. remote' \in [Order -> Nat]
    <3>1. remote \in [Order -> Nat] /\ task[w].order \in Order /\ done \in Nat
      BY <2>1
    <3> HIDE DEF TypeOK, SeenCount
    <3> QED BY <2>2, <3>1
  <2>4. /\ task' \in [Worker -> [pc : Pcs, order : Order \cup {NoOrder},
                              seen : Int, ref : Int, bonus : Nat]]
        /\ \A v \in Worker : task'[v].pc # "idle" => task'[v].order \in Order
        /\ SeenCount'
    <3>1. CASE task' = [task EXCEPT ![w].pc = "failing"]
      BY <2>1, <3>1
    <3>2. CASE task' = [task EXCEPT ![w] = Idle]
      BY <2>1, <3>2
    <3> QED BY <2>1, <3>1, <3>2
  <2> QED BY <2>1, <2>3, <2>4
<1>19. ASSUME NEW w \in Worker, ReadReferrer(w) PROVE TypeOK' /\ SeenCount'
  <2> DEFINE o == task[w].order
             r == Referrer[Owner[o]]
             bonus == CommissionOf(o)
             balance == IF CommissionOf(o) > 0 THEN wallet[r] ELSE 0
  <2>1. o \in Order /\ bonus \in Nat
    BY <1>19 DEF ReadReferrer, CommissionOf
  <2>2. bonus > 0 => r \in User
    BY <2>1 DEF CommissionOf
  <2>3. balance \in Int
    BY <2>2
  <2>4. /\ task[w].pc = "built" /\ UNCHANGED <<status, receipt, delivered,
               remote, asked, wallet, bonuses, used, usage, crashes>>
        /\ task' = [task EXCEPT ![w].pc = "crediting", ![w].bonus = bonus,
                               ![w].ref = balance]
    BY <1>19 DEF ReadReferrer, moneyVars, codeVars
  <2> HIDE DEF o, bonus, balance
  <2>5. task'[w] = [pc |-> "crediting", order |-> task[w].order,
                    seen |-> task[w].seen, ref |-> balance, bonus |-> bonus]
    <3>1. task[w] \in [pc : Pcs, order : Order \cup {NoOrder}, seen : Int, ref : Int, bonus : Nat]
      OBVIOUS
    <3>2. task'[w] = [task[w] EXCEPT !.pc = "crediting", !.bonus = bonus, !.ref = balance]
      BY <2>4
    <3> HIDE DEF TypeOK, SeenCount
    <3> QED BY <3>1, <3>2
  <2>6. \A v \in Worker : v # w => task'[v] = task[v]
    BY <2>4
  <2>7. task' \in [Worker -> [pc : Pcs, order : Order \cup {NoOrder},
                              seen : Int, ref : Int, bonus : Nat]]
    BY <2>1, <2>3, <2>4, <2>5, <2>6
  <2>8. \A v \in Worker : task'[v].pc # "idle" => task'[v].order \in Order
    BY <2>4, <2>5, <2>6
  <2>9. SeenCount'
    BY <2>4, <2>5, <2>6
  <2> QED BY <2>4, <2>7, <2>8, <2>9
<1>20. ASSUME NEW w \in Worker, Commit(w) PROVE TypeOK' /\ SeenCount'
  BY <1>20 DEF Commit, Finish, WalletAfter, MarkUsed, PaysFromSeen, codeVars
<1>21. ASSUME NEW w \in Worker, HandlerRead(w) PROVE TypeOK' /\ SeenCount'
  <2> DEFINE o == task[w].order
  <2>1. CASE status[o] \in {"paid", "deleted"}
    <3>1. /\ task' = [task EXCEPT ![w] = Idle]
          /\ UNCHANGED <<status, receipt, delivered, remote, asked, wallet,
                         bonuses, used, usage, crashes>>
      BY <1>21, <2>1 DEF HandlerRead, Finish, moneyVars, codeVars
    <3> QED BY <3>1
  <2>2. CASE status[o] \notin {"paid", "deleted"}
    <3>1. /\ task' = [task EXCEPT ![w].pc = "marking"]
          /\ task[w].pc # "idle" /\ UNCHANGED <<status, receipt, delivered,
                 remote, asked, wallet, bonuses, used, usage, crashes>>
      BY <1>21, <2>2 DEF HandlerRead, moneyVars, codeVars
    <3> QED BY <3>1
  <2> QED BY <2>1, <2>2
<1>22. ASSUME NEW w \in Worker, HandlerWrite(w) PROVE TypeOK' /\ SeenCount'
  BY <1>22 DEF HandlerWrite, Finish, moneyVars, codeVars
<1>23. ASSUME NEW w \in Worker, CancelCommit(w) PROVE TypeOK' /\ SeenCount'
  <2>1. /\ task' = [task EXCEPT ![w] = Idle] /\ task[w].pc # "idle"
        /\ \E s \in Statuses : status' = [status EXCEPT ![task[w].order] = s]
        /\ UNCHANGED <<receipt, delivered, remote, asked, wallet, bonuses, crashes>>
    BY <1>23 DEF CancelCommit, Finish, moneyVars
  <2>2. used' \in Nat /\ usage' \subseteq Order
    BY <1>23 DEF CancelCommit, Release, NoRow, codeVars
  <2> QED BY <2>1, <2>2
<1>24. ASSUME NEW w \in Worker, BackCommit(w) PROVE TypeOK' /\ SeenCount'
  <2>1. /\ task' = [task EXCEPT ![w] = Idle] /\ task[w].pc # "idle"
        /\ \E s \in Statuses : status' = [status EXCEPT ![task[w].order] = s]
        /\ UNCHANGED <<receipt, delivered, remote, asked, wallet, bonuses, crashes>>
    BY <1>24 DEF BackCommit, Finish, moneyVars
  <2>2. used' \in Nat /\ usage' \subseteq Order
    BY <1>24 DEF BackCommit, Release, NoRow, codeVars
  <2> QED BY <2>1, <2>2
<1>25. ASSUME NEW w \in Worker, RejectCommit(w) PROVE TypeOK' /\ SeenCount'
  <2>1. /\ task' = [task EXCEPT ![w] = Idle] /\ task[w].pc # "idle"
        /\ \E s \in Statuses : status' = [status EXCEPT ![task[w].order] = s]
        /\ UNCHANGED <<receipt, delivered, remote, asked, wallet, bonuses, crashes>>
    BY <1>25 DEF RejectCommit, Finish, moneyVars
  <2>2. used' \in Nat /\ usage' \subseteq Order
    BY <1>25 DEF RejectCommit, Release, NoRow, codeVars
  <2> QED BY <2>1, <2>2
<1>26. ASSUME NEW w \in Worker, Crash(w) PROVE TypeOK' /\ SeenCount'
  BY <1>26 DEF Crash, Finish, moneyVars, codeVars
<1>27. CASE UNCHANGED vars
  BY <1>27 DEF vars, moneyVars, codeVars
<1> QED
  BY <1>1, <1>2, <1>3, <1>4, <1>5, <1>6, <1>7, <1>8, <1>9, <1>10, <1>11, <1>12,
     <1>13, <1>14, <1>15, <1>16, <1>17, <1>18, <1>19, <1>20, <1>21, <1>22, <1>23,
     <1>24, <1>25, <1>26, <1>27
     DEF Next, TaskStep

\* A worker that gives up, or goes on to the next stage of the same order,
\* disturbs nobody.
LEMMA GivesUp ==
  ASSUME IInv, NEW w \in Worker, task' = [task EXCEPT ![w] = Idle],
         UNCHANGED <<status, delivered>>
  PROVE  OneWorker' /\ DeliverOnce'
<1>1. task'[w] = Idle /\ \A v \in Worker \ {w} : task'[v] = task[v]
  BY DEF IInv, TypeOK
<1>2. \A v \in Worker, o \in Order :
        /\ Works(v, o)' => Works(v, o) /\ v # w
        /\ Closes(v, o)' => Closes(v, o)
  BY <1>1 DEF Works, Closes, Working, Pipeline, Idle
<1>3. \A v \in Worker : task'[v] = task[v] \/ task'[v].pc = "idle"
  BY <1>1 DEF Idle
<1> QED BY <1>2, <1>3 DEF IInv, OneWorker, DeliverOnce

\* A worker that is past its lock keeps the claim it needs, whatever others do.
LEMMA GoesOn ==
  ASSUME IInv, NEW w \in Worker, NEW pc \in Working, task[w].pc \in Working,
         task'[w].pc = pc, task'[w].order = task[w].order,
         \A v \in Worker \ {w} : task'[v] = task[v],
         UNCHANGED <<status, delivered>>
  PROVE  OneWorker' /\ DeliverOnce'
<1>1. \A v \in Worker, o \in Order :
        /\ Works(v, o)' => Works(v, o)
        /\ Closes(v, o)' => Closes(v, o)
  BY DEF Works, Closes, Working, Pipeline
<1>2. \A v \in Worker : task'[v] = task[v] \/ task'[v].pc \in Working
  OBVIOUS
<1>3. \A v \in Worker : task'[v].pc \in {"back", "quoting"} => task'[v] = task[v]
  BY <1>2 DEF Working, Pipeline
<1> QED BY <1>1, <1>3 DEF IInv, OneWorker, DeliverOnce

\* A step keeps the work on card orders exclusive and their delivery unique.
LEMMA CardStep == IInv /\ [Next]_vars => OneWorker' /\ DeliverOnce'
<1> SUFFICES ASSUME IInv, [Next]_vars PROVE OneWorker' /\ DeliverOnce'
  OBVIOUS
<1> USE OrdersAssumption
    DEF IInv, TypeOK, OneWorker, DeliverOnce, Works, Closes, Working,
        Pipeline, Idle
<1>1. ASSUME NEW o \in Order, Checkout(o) PROVE OneWorker' /\ DeliverOnce'
  BY <1>1 DEF Checkout, CodeAccepts, MarkUsed, moneyVars, codeVars
<1>2. ASSUME NEW o \in Order, PlaceOrder(o) PROVE OneWorker' /\ DeliverOnce'
  BY <1>2 DEF PlaceOrder, MarkUsed, moneyVars, codeVars
<1>3. ASSUME NEW o \in Order, UploadReceipt(o) PROVE OneWorker' /\ DeliverOnce'
  BY <1>3 DEF UploadReceipt, moneyVars, codeVars, OrderFree, HoldsOrder
<1>4. ASSUME NEW o \in Order, QueueTake(o) PROVE OneWorker' /\ DeliverOnce'
  BY <1>4 DEF QueueTake, Start, moneyVars, codeVars, OrderFree, HoldsOrder
<1>5. ASSUME NEW o \in Order, Recover(o) PROVE OneWorker' /\ DeliverOnce'
  BY <1>5 DEF Recover, moneyVars, codeVars, OrderFree, HoldsOrder
<1>6. ASSUME NEW o \in Order, TopupApprove(o) PROVE OneWorker' /\ DeliverOnce'
  BY <1>6 DEF TopupApprove, codeVars
<1>7. ASSUME NEW w \in Worker, NEW o \in Order, CancelBegin(w, o) PROVE OneWorker' /\ DeliverOnce'
  BY <1>7 DEF CancelBegin, Start, ReadCode, NoRow, moneyVars, codeVars, OrderFree, HoldsOrder
<1>8. ASSUME NEW w \in Worker, NEW o \in Order, BackRead(w, o) PROVE OneWorker' /\ DeliverOnce'
  BY <1>8 DEF BackRead, Start, ReadCode, NoRow, moneyVars, codeVars
<1>9. ASSUME NEW w \in Worker, NEW o \in Order, Approve(w, o) PROVE OneWorker' /\ DeliverOnce'
  BY <1>9 DEF Approve, Start, moneyVars, codeVars, OrderFree, HoldsOrder
<1>10. ASSUME NEW w \in Worker, NEW o \in Order, ChatBuyBegin(w, o) PROVE OneWorker' /\ DeliverOnce'
  BY <1>10 DEF ChatBuyBegin, Start, moneyVars, codeVars
<1>11. ASSUME NEW w \in Worker, NEW o \in Order, RenewRead(w, o) PROVE OneWorker' /\ DeliverOnce'
  BY <1>11 DEF RenewRead, Start, moneyVars, codeVars
<1>12. ASSUME NEW w \in Worker, NEW o \in Order, IpnBegin(w, o) PROVE OneWorker' /\ DeliverOnce'
  BY <1>12 DEF IpnBegin, Start, moneyVars, codeVars
<1>13. ASSUME NEW w \in Worker, NEW o \in Order, RejectBegin(w, o) PROVE OneWorker' /\ DeliverOnce'
  BY <1>13 DEF RejectBegin, Start, ReadCode, NoRow, moneyVars, codeVars, OrderFree, HoldsOrder
<1>14. ASSUME NEW w \in Worker, ProvisionBegin(w) PROVE OneWorker' /\ DeliverOnce'
  <2>1. CASE status[task[w].order] \in {"paid", "deleted"}
    <3>1. task' = [task EXCEPT ![w] = Idle] /\ UNCHANGED <<status, delivered>>
      BY <1>14, <2>1 DEF ProvisionBegin, Finish
    <3> QED BY <3>1, GivesUp
  <2>2. CASE ~(status[task[w].order] \in {"paid", "deleted"})
    <3>1. /\ task[w].pc \in Working /\ task'[w].pc = "building"
          /\ task'[w].order = task[w].order
          /\ \A v \in Worker \ {w} : task'[v] = task[v]
          /\ UNCHANGED <<status, delivered>>
      BY <1>14, <2>2 DEF ProvisionBegin
    <3> QED BY <3>1, GoesOn
  <2> QED BY <2>1, <2>2
<1>15. ASSUME NEW w \in Worker, RenewPlace(w) PROVE OneWorker' /\ DeliverOnce'
  BY <1>15 DEF RenewPlace, moneyVars, codeVars
<1>16. ASSUME NEW w \in Worker, RenewRefuse(w) PROVE OneWorker' /\ DeliverOnce'
  <2>1. task' = [task EXCEPT ![w] = Idle] /\ UNCHANGED <<status, delivered>>
    BY <1>16 DEF RenewRefuse, Finish
  <2> QED BY <2>1, GivesUp
<1>17. ASSUME NEW w \in Worker, RemoteDone(w) PROVE OneWorker' /\ DeliverOnce'
  <2>1. /\ task[w].pc \in Working /\ task'[w].pc = "built"
        /\ task'[w].order = task[w].order
        /\ \A v \in Worker \ {w} : task'[v] = task[v]
        /\ UNCHANGED <<status, delivered>>
    BY <1>17 DEF RemoteDone
  <2> QED BY <2>1, GoesOn
<1>18. ASSUME NEW w \in Worker, RemoteFail(w) PROVE OneWorker' /\ DeliverOnce'
  <2>1. CASE Kind[task[w].order] \notin Provisioned
    <3>1. task' = [task EXCEPT ![w] = Idle] /\ UNCHANGED <<status, delivered>>
      BY <1>18, <2>1 DEF RemoteFail, Finish
    <3> QED BY <3>1, GivesUp
  <2>2. CASE ~(Kind[task[w].order] \notin Provisioned)
    <3>1. /\ task[w].pc \in Working /\ task'[w].pc = "failing"
          /\ task'[w].order = task[w].order
          /\ \A v \in Worker \ {w} : task'[v] = task[v]
          /\ UNCHANGED <<status, delivered>>
      BY <1>18, <2>2 DEF RemoteFail
    <3> QED BY <3>1, GoesOn
  <2> QED BY <2>1, <2>2
<1>19. ASSUME NEW w \in Worker, ReadReferrer(w) PROVE OneWorker' /\ DeliverOnce'
  <2>1. /\ task[w].pc \in Working /\ task'[w].pc = "crediting"
        /\ task'[w].order = task[w].order
        /\ \A v \in Worker \ {w} : task'[v] = task[v]
        /\ UNCHANGED <<status, delivered>>
    BY <1>19 DEF ReadReferrer
  <2> QED BY <2>1, GoesOn
<1>20. ASSUME NEW w \in Worker, Commit(w) PROVE OneWorker' /\ DeliverOnce'
  <2>1. /\ task[w].pc = "crediting" /\ task[w].order \in Order
        /\ status' = [status EXCEPT ![task[w].order] = "paid"]
        /\ delivered' = [delivered EXCEPT ![task[w].order] = @ + 1]
        /\ task' = [task EXCEPT ![w] = Idle]
    BY <1>20 DEF Commit, Finish
  <2> QED BY <2>1
<1>21. ASSUME NEW w \in Worker, HandlerRead(w) PROVE OneWorker' /\ DeliverOnce'
  <2>1. CASE status[task[w].order] \in {"paid", "deleted"}
    <3>1. task' = [task EXCEPT ![w] = Idle] /\ UNCHANGED <<status, delivered>>
      BY <1>21, <2>1 DEF HandlerRead, Finish
    <3> QED BY <3>1, GivesUp
  <2>2. CASE ~(status[task[w].order] \in {"paid", "deleted"})
    <3>1. /\ task[w].pc \in Working /\ task'[w].pc = "marking"
          /\ task'[w].order = task[w].order
          /\ \A v \in Worker \ {w} : task'[v] = task[v]
          /\ UNCHANGED <<status, delivered>>
      BY <1>21, <2>2 DEF HandlerRead
    <3> QED BY <3>1, GoesOn
  <2> QED BY <2>1, <2>2
<1>22. ASSUME NEW w \in Worker, HandlerWrite(w) PROVE OneWorker' /\ DeliverOnce'
  BY <1>22 DEF HandlerWrite, Finish, moneyVars, codeVars, OrderFree, HoldsOrder
<1>23. ASSUME NEW w \in Worker, CancelCommit(w) PROVE OneWorker' /\ DeliverOnce'
  BY <1>23 DEF CancelCommit, Finish, Release, NoRow, moneyVars, codeVars
<1>24. ASSUME NEW w \in Worker, BackCommit(w) PROVE OneWorker' /\ DeliverOnce'
  BY <1>24 DEF BackCommit, Finish, Release, NoRow, moneyVars, codeVars, OrderFree, HoldsOrder
<1>25. ASSUME NEW w \in Worker, RejectCommit(w) PROVE OneWorker' /\ DeliverOnce'
  BY <1>25 DEF RejectCommit, Finish, Release, NoRow, moneyVars, codeVars
<1>26. ASSUME NEW w \in Worker, Crash(w) PROVE OneWorker' /\ DeliverOnce'
  <2>1. task' = [task EXCEPT ![w] = Idle] /\ UNCHANGED <<status, delivered>>
    BY <1>26 DEF Crash, Finish
  <2> QED BY <2>1, GivesUp
<1>27. CASE UNCHANGED vars
  BY <1>27 DEF vars, moneyVars, codeVars
<1> QED
  BY <1>1, <1>2, <1>3, <1>4, <1>5, <1>6, <1>7, <1>8, <1>9, <1>10, <1>11, <1>12,
     <1>13, <1>14, <1>15, <1>16, <1>17, <1>18, <1>19, <1>20, <1>21, <1>22, <1>23,
     <1>24, <1>25, <1>26, <1>27
     DEF Next, TaskStep

\* The types of Orders hold in every reachable state.
THEOREM Types == Spec => []TypeOK
<1>1. TypeOK /\ SeenCount /\ [Next]_vars => (TypeOK /\ SeenCount)'
  BY TypeStep
<1> QED BY <1>1, TypeInit, PTL DEF Spec

\* The strengthening holds at the start.
LEMMA InvInit == Init => IInv
<1> SUFFICES ASSUME Init PROVE OneWorker /\ DeliverOnce
  BY TypeInit DEF IInv
<1> QED
  BY OrdersAssumption DEF Init, OneWorker, DeliverOnce, Works, Closes,
     Working, Pipeline, Idle

\* Every step keeps the strengthening.
LEMMA InvStep == IInv /\ [Next]_vars => IInv'
  BY TypeStep, CardStep DEF IInv

\* At most one worker is past its lock on a card order in every reachable state,
\* and what it is about to do agrees with the order's status.
THEOREM Inductive == Spec => []IInv
  BY InvInit, InvStep, PTL DEF Spec

\* A Mini App card order is delivered exactly once if it is paid and never
\* otherwise, for any number of reviewers, retries and crashes.
THEOREM DeliveredOnce == Spec => []DeliverOnce
<1>1. IInv => DeliverOnce
  BY DEF IInv
<1> QED BY <1>1, Inductive, PTL

\* Every writer of orders.status spares a paid card order.
LEMMA PaidStep == IInv /\ [Next]_vars => [PaidKept]_vars
<1> SUFFICES ASSUME IInv, Next PROVE PaidKept
  OBVIOUS
<1> USE OrdersAssumption DEF IInv, TypeOK, PaidKept
<1>1. ASSUME NEW o \in Order,
             Checkout(o) \/ PlaceOrder(o) \/ QueueTake(o) \/ Recover(o) \/ TopupApprove(o)
      PROVE  PaidKept
  BY <1>1 DEF Checkout, PlaceOrder, QueueTake, Recover, TopupApprove
<1>2. ASSUME NEW w \in Worker, NEW o \in Order, Approve(w, o) PROVE PaidKept
  BY <1>2 DEF Approve
<1>3. ASSUME NEW w \in Worker,
             CancelCommit(w) \/ RejectCommit(w) \/ BackCommit(w) \/ HandlerWrite(w)
      PROVE  PaidKept
  <2>1. /\ task[w].order \in Order /\ \E s \in Statuses :
               status' = [status EXCEPT ![task[w].order] = s]
        /\ Closes(w, task[w].order) \/ task[w].pc \in {"back", "marking"}
    BY <1>3 DEF CancelCommit, RejectCommit, BackCommit, HandlerWrite, Closes, Statuses
  <2> QED BY <2>1 DEF OneWorker, Works, Working
<1>4. ASSUME NEW w \in Worker, Commit(w) PROVE PaidKept
  BY <1>4 DEF Commit
<1>5. ASSUME UNCHANGED status PROVE PaidKept
  BY <1>5
<1>6. ASSUME NEW o \in Order, UploadReceipt(o) PROVE PaidKept
  BY <1>6, <1>5 DEF UploadReceipt
<1>7. ASSUME NEW w \in Worker, NEW o \in Order,
             \/ CancelBegin(w, o) \/ BackRead(w, o) \/ ChatBuyBegin(w, o)
             \/ RenewRead(w, o) \/ IpnBegin(w, o) \/ RejectBegin(w, o)
      PROVE  PaidKept
  BY <1>7, <1>5 DEF CancelBegin, BackRead, ChatBuyBegin, RenewRead, IpnBegin, RejectBegin
<1>8. ASSUME NEW w \in Worker,
             \/ ProvisionBegin(w) \/ RenewPlace(w) \/ RenewRefuse(w) \/ RemoteDone(w)
             \/ RemoteFail(w) \/ ReadReferrer(w) \/ HandlerRead(w) \/ Crash(w)
      PROVE  PaidKept
  BY <1>8, <1>5 DEF ProvisionBegin, RenewPlace, RenewRefuse, RemoteDone, RemoteFail,
                    ReadReferrer, HandlerRead, Crash
<1> QED
  BY <1>1, <1>2, <1>3, <1>4, <1>6, <1>7, <1>8 DEF Next, TaskStep

\* A Mini App card order that has been paid stays paid.
THEOREM PaidForever == Spec => PaidIsFinal
  BY Inductive, PaidStep, PTL DEF Spec, PaidIsFinal
-----------------------------------------------------------------------------
(* No build without a request.                                             *)

\* The workers that are still to ask the panel for order o.
Builds(w, o) == task[w].order = o /\ task[w].pc \in {"quoting", "scheduled", "building"}
Builders(o) == {w \in Worker : Builds(w, o)}
One(b) == IF b THEN 1 ELSE 0

\* A worker that is to build, or a place in the queue, still owes its request.
Covered ==
    \A o \in Order :
        /\ IsFiniteSet(Builders(o))
        /\ remote[o] + Cardinality(Builders(o)) + One(status[o] = "miniapp_queued") <= asked[o]

\* Two sets that differ in one element at most.
LEMMA SwapOne ==
  ASSUME NEW S, NEW T, NEW w, IsFiniteSet(S), T \ {w} = S \ {w}
  PROVE  /\ IsFiniteSet(T) /\ Cardinality(S) \in Nat /\ Cardinality(T) \in Nat
         /\ Cardinality(T) + One(w \in S) = Cardinality(S) + One(w \in T)
<1>1. IsFiniteSet(S \ {w}) /\ Cardinality(S \ {w}) \in Nat /\ Cardinality(S) \in Nat
      /\ Cardinality(S) = Cardinality(S \ {w}) + One(w \in S)
  <2>1. /\ IsFiniteSet(S \ {w})
        /\ Cardinality(S \ {w}) = IF w \in S THEN Cardinality(S) - 1 ELSE Cardinality(S)
    BY FS_RemoveElement
  <2>2. Cardinality(S \ {w}) \in Nat /\ Cardinality(S) \in Nat
    BY <2>1, FS_CardinalityType
  <2> QED BY <2>1, <2>2 DEF One
<1>2. CASE w \in T
  <2>1. T = (S \ {w}) \cup {w} /\ w \notin S \ {w}
    BY <1>2
  <2>2. IsFiniteSet(T) /\ Cardinality(T) = Cardinality(S \ {w}) + 1
    BY <1>1, <2>1, FS_AddElement
  <2> QED BY <1>1, <1>2, <2>2 DEF One
<1>3. CASE w \notin T
  <2>1. T = S \ {w}
    BY <1>3
  <2> QED BY <1>1, <1>3, <2>1 DEF One
<1> QED BY <1>2, <1>3

\* A step of one worker that, for each order, adds no more to the builds and
\* the builders than to the requests.
Balanced(w) ==
    /\ \A v \in Worker \ {w} : task'[v] = task[v]
    /\ \A o \in Order :
          remote'[o] + One(Builds(w, o))' + One(status'[o] = "miniapp_queued") + asked[o]
            <= asked'[o] + remote[o] + One(Builds(w, o)) + One(status[o] = "miniapp_queued")

\* A balanced step keeps every build covered.
LEMMA BalancedCovers ==
  ASSUME TypeOK, TypeOK', Covered, NEW w \in Worker, Balanced(w)
  PROVE  Covered'
<1> SUFFICES ASSUME NEW o \in Order
             PROVE  /\ IsFiniteSet(Builders(o))'
                    /\ remote'[o] + Cardinality(Builders(o))' + One(status'[o] = "miniapp_queued")
                         <= asked'[o]
  BY DEF Covered
<1> DEFINE S == Builders(o)
           T == Builders(o)'
<1>1. IsFiniteSet(S) /\ T \ {w} = S \ {w}
  BY DEF Covered, Balanced, Builders, Builds
<1>2. (w \in S <=> Builds(w, o)) /\ (w \in T <=> Builds(w, o)')
  BY DEF Builders
<1>3. /\ IsFiniteSet(T) /\ Cardinality(S) \in Nat /\ Cardinality(T) \in Nat
      /\ Cardinality(T) + One(w \in S) = Cardinality(S) + One(w \in T)
  BY <1>1, SwapOne
<1>4. One(w \in S) = One(Builds(w, o)) /\ One(w \in T) = One(Builds(w, o))'
  BY <1>2 DEF One
<1>5. remote[o] + Cardinality(S) + One(status[o] = "miniapp_queued") <= asked[o]
  BY DEF Covered
<1>6. remote'[o] + One(Builds(w, o))' + One(status'[o] = "miniapp_queued") + asked[o]
        <= asked'[o] + remote[o] + One(Builds(w, o)) + One(status[o] = "miniapp_queued")
  BY DEF Balanced
<1>7. {remote[o], remote'[o], asked[o], asked'[o]} \subseteq Nat
  BY DEF TypeOK
<1> HIDE DEF S, T
<1>8. /\ One(Builds(w, o)) \in Nat /\ One(Builds(w, o))' \in Nat
      /\ One(status[o] = "miniapp_queued") \in Nat /\ One(status'[o] = "miniapp_queued") \in Nat
  BY DEF One
<1> QED BY <1>3, <1>4, <1>5, <1>6, <1>7, <1>8 DEF S, T

\* Every step is balanced by some worker.
LEMMA CoverStep == TypeOK /\ SeenCount /\ Covered /\ [Next]_vars => Covered'
<1> SUFFICES ASSUME TypeOK, SeenCount, Covered, [Next]_vars PROVE Covered'
  OBVIOUS
<1>0. TypeOK' /\ ApiLoop \in Worker
  BY TypeStep, OrdersAssumption
<1> USE OrdersAssumption DEF TypeOK, Balanced, Builds, One, Idle
<1>1. ASSUME NEW o \in Order, Checkout(o) PROVE Balanced(ApiLoop)
  BY <1>0, <1>1 DEF Checkout, CodeAccepts, MarkUsed, moneyVars, codeVars
<1>2. ASSUME NEW o \in Order, PlaceOrder(o) PROVE Balanced(ApiLoop)
  BY <1>0, <1>2 DEF PlaceOrder, MarkUsed, moneyVars, codeVars
<1>3. ASSUME NEW o \in Order, UploadReceipt(o) PROVE Balanced(ApiLoop)
  BY <1>0, <1>3 DEF UploadReceipt, moneyVars, codeVars
<1>4. ASSUME NEW o \in Order, QueueTake(o) PROVE Balanced(ApiLoop)
  BY <1>0, <1>4 DEF QueueTake, Start, moneyVars, codeVars
<1>5. ASSUME NEW o \in Order, Recover(o) PROVE Balanced(ApiLoop)
  BY <1>0, <1>5 DEF Recover, moneyVars, codeVars
<1>6. ASSUME NEW o \in Order, TopupApprove(o) PROVE Balanced(ApiLoop)
  BY <1>0, <1>6 DEF TopupApprove, codeVars
<1>7. ASSUME NEW w \in Worker, NEW o \in Order, CancelBegin(w, o) PROVE Balanced(w)
  BY <1>0, <1>7 DEF CancelBegin, Start, moneyVars, codeVars
<1>8. ASSUME NEW w \in Worker, NEW o \in Order, BackRead(w, o) PROVE Balanced(w)
  BY <1>0, <1>8 DEF BackRead, Start, moneyVars, codeVars
<1>9. ASSUME NEW w \in Worker, NEW o \in Order, Approve(w, o) PROVE Balanced(w)
  BY <1>0, <1>9 DEF Approve, Start, moneyVars, codeVars
<1>10. ASSUME NEW w \in Worker, NEW o \in Order, ChatBuyBegin(w, o) PROVE Balanced(w)
  BY <1>0, <1>10 DEF ChatBuyBegin, Start, moneyVars, codeVars
<1>11. ASSUME NEW w \in Worker, NEW o \in Order, RenewRead(w, o) PROVE Balanced(w)
  BY <1>0, <1>11 DEF RenewRead, Start, moneyVars, codeVars
<1>12. ASSUME NEW w \in Worker, NEW o \in Order, IpnBegin(w, o) PROVE Balanced(w)
  BY <1>0, <1>12 DEF IpnBegin, Start, moneyVars, codeVars
<1>13. ASSUME NEW w \in Worker, NEW o \in Order, RejectBegin(w, o) PROVE Balanced(w)
  BY <1>0, <1>13 DEF RejectBegin, Start, moneyVars, codeVars
<1>14. ASSUME NEW w \in Worker, ProvisionBegin(w) PROVE Balanced(w)
  BY <1>0, <1>14 DEF ProvisionBegin, Finish, moneyVars, codeVars
<1>15. ASSUME NEW w \in Worker, RenewPlace(w) PROVE Balanced(w)
  BY <1>0, <1>15 DEF RenewPlace, moneyVars, codeVars
<1>16. ASSUME NEW w \in Worker, RenewRefuse(w) PROVE Balanced(w)
  BY <1>0, <1>16 DEF RenewRefuse, Finish, moneyVars, codeVars
<1>17. ASSUME NEW w \in Worker, RemoteDone(w) PROVE Balanced(w)
  BY <1>0, <1>17 DEF RemoteDone, moneyVars, codeVars
<1>18. ASSUME NEW w \in Worker, RemoteFail(w) PROVE Balanced(w)
  BY <1>0, <1>18 DEF RemoteFail, Finish, moneyVars, codeVars
<1>19. ASSUME NEW w \in Worker, ReadReferrer(w) PROVE Balanced(w)
  BY <1>0, <1>19 DEF ReadReferrer, moneyVars, codeVars
<1>20. ASSUME NEW w \in Worker, Commit(w) PROVE Balanced(w)
  BY <1>0, <1>20 DEF Commit, Finish, codeVars
<1>21. ASSUME NEW w \in Worker, HandlerRead(w) PROVE Balanced(w)
  BY <1>0, <1>21 DEF HandlerRead, Finish, moneyVars, codeVars
<1>22. ASSUME NEW w \in Worker, HandlerWrite(w) PROVE Balanced(w)
  BY <1>0, <1>22 DEF HandlerWrite, Finish, moneyVars, codeVars
<1>23. ASSUME NEW w \in Worker, CancelCommit(w) PROVE Balanced(w)
  BY <1>0, <1>23 DEF CancelCommit, Finish, moneyVars, codeVars
<1>24. ASSUME NEW w \in Worker, BackCommit(w) PROVE Balanced(w)
  BY <1>0, <1>24 DEF BackCommit, Finish, moneyVars, codeVars
<1>25. ASSUME NEW w \in Worker, RejectCommit(w) PROVE Balanced(w)
  BY <1>0, <1>25 DEF RejectCommit, Finish, moneyVars, codeVars
<1>26. ASSUME NEW w \in Worker, Crash(w) PROVE Balanced(w)
  BY <1>0, <1>26 DEF Crash, Finish, moneyVars, codeVars
<1>27. CASE UNCHANGED vars
  <2>1. Balanced(ApiLoop)
    BY <1>0, <1>27 DEF vars, moneyVars, codeVars
  <2> QED BY <1>0, <2>1, BalancedCovers
<1> HIDE OrdersAssumption DEF TypeOK, Balanced, Builds, One, Idle
<1> QED
  BY <1>0, <1>1, <1>2, <1>3, <1>4, <1>5, <1>6, <1>7, <1>8, <1>9, <1>10, <1>11,
     <1>12, <1>13, <1>14, <1>15, <1>16, <1>17, <1>18, <1>19, <1>20, <1>21,
     <1>22, <1>23, <1>24, <1>25, <1>26, <1>27, BalancedCovers
     DEF Next, TaskStep

\* Only what was asked for is built: with Covered, whatever the panel has
\* done is within the requests.
LEMMA CoverHolds == Spec => [](TypeOK /\ Covered)
<1>1. Init => Covered
  <2> SUFFICES ASSUME Init, NEW o \in Order
               PROVE  /\ IsFiniteSet(Builders(o))
                      /\ remote[o] + Cardinality(Builders(o))
                           + One(status[o] = "miniapp_queued") <= asked[o]
    BY DEF Covered
  <2>1. Builders(o) = {}
    BY DEF Init, Builders, Builds, Idle
  <2> QED BY <2>1, FS_EmptySet DEF Init, One
<1>2. TypeOK /\ SeenCount /\ Covered /\ [Next]_vars => (TypeOK /\ SeenCount /\ Covered)'
  BY TypeStep, CoverStep
<1> QED BY <1>1, <1>2, TypeInit, PTL DEF Spec

\* No order is built more often than somebody asked for it: a crash, a lost
\* answer of the panel and the recovery of the queue never build it again.
THEOREM NeverRebuilt == Spec => []NoBlindRebuild
<1>1. TypeOK /\ Covered => NoBlindRebuild
  <2> SUFFICES ASSUME TypeOK, Covered, NEW o \in Order PROVE remote[o] <= asked[o]
    BY DEF NoBlindRebuild
  <2>1. Cardinality(Builders(o)) \in Nat
    BY FS_CardinalityType DEF Covered
  <2> QED BY <2>1 DEF Covered, TypeOK, One
<1> QED BY <1>1, CoverHolds, PTL

-----------------------------------------------------------------------------
(* The discount usage of a card order.                                     *)

\* Who closes a discounted card order holds it alone, and found its usage row.
Closing ==
    \A o \in Discounted : Kind[o] = "card" =>
        /\ \A w \in Worker : Closes(w, o) => task[w].seen # NoRow
        /\ \A v, w \in Worker : Closes(v, o) /\ Closes(w, o) => v = w

\* Every step keeps the usage row of a card order in step with its status.
LEMMA UsageStep ==
  IInv /\ Closing /\ UsageFollowsOrder /\ [Next]_vars => Closing' /\ UsageFollowsOrder'
<1> SUFFICES ASSUME IInv, Closing, UsageFollowsOrder, [Next]_vars
             PROVE  Closing' /\ UsageFollowsOrder'
  OBVIOUS
<1> USE OrdersAssumption
    DEF IInv, TypeOK, SeenCount, OneWorker, Closing, UsageFollowsOrder, Works, Closes,
        Working, Pipeline, Idle
<1>1. ASSUME NEW o \in Order, Checkout(o) PROVE Closing' /\ UsageFollowsOrder'
  BY <1>1 DEF Checkout, CodeAccepts, MarkUsed, moneyVars, codeVars
<1>2. ASSUME NEW o \in Order, PlaceOrder(o) PROVE Closing' /\ UsageFollowsOrder'
  BY <1>2 DEF PlaceOrder, MarkUsed, moneyVars, codeVars
<1>3. ASSUME NEW o \in Order, UploadReceipt(o) PROVE Closing' /\ UsageFollowsOrder'
  BY <1>3 DEF UploadReceipt, moneyVars, codeVars
<1>4. ASSUME NEW o \in Order, QueueTake(o) PROVE Closing' /\ UsageFollowsOrder'
  BY <1>4 DEF QueueTake, Start, moneyVars, codeVars
<1>5. ASSUME NEW o \in Order, Recover(o) PROVE Closing' /\ UsageFollowsOrder'
  BY <1>5 DEF Recover, moneyVars, codeVars
<1>6. ASSUME NEW o \in Order, TopupApprove(o) PROVE Closing' /\ UsageFollowsOrder'
  BY <1>6 DEF TopupApprove, codeVars
<1>7. ASSUME NEW w \in Worker, NEW o \in Order, CancelBegin(w, o) PROVE Closing' /\ UsageFollowsOrder'
  BY <1>7 DEF CancelBegin, Start, moneyVars, codeVars, ReadCode, NoRow, OrderFree, HoldsOrder, Releasable
<1>8. ASSUME NEW w \in Worker, NEW o \in Order, BackRead(w, o) PROVE Closing' /\ UsageFollowsOrder'
  BY <1>8 DEF BackRead, Start, moneyVars, codeVars, ReadCode, NoRow
<1>9. ASSUME NEW w \in Worker, NEW o \in Order, Approve(w, o) PROVE Closing' /\ UsageFollowsOrder'
  BY <1>9 DEF Approve, Start, moneyVars, codeVars, OrderFree, HoldsOrder
<1>10. ASSUME NEW w \in Worker, NEW o \in Order, ChatBuyBegin(w, o) PROVE Closing' /\ UsageFollowsOrder'
  BY <1>10 DEF ChatBuyBegin, Start, moneyVars, codeVars
<1>11. ASSUME NEW w \in Worker, NEW o \in Order, RenewRead(w, o) PROVE Closing' /\ UsageFollowsOrder'
  BY <1>11 DEF RenewRead, Start, moneyVars, codeVars
<1>12. ASSUME NEW w \in Worker, NEW o \in Order, IpnBegin(w, o) PROVE Closing' /\ UsageFollowsOrder'
  BY <1>12 DEF IpnBegin, Start, moneyVars, codeVars
<1>13. ASSUME NEW w \in Worker, NEW o \in Order, RejectBegin(w, o) PROVE Closing' /\ UsageFollowsOrder'
  BY <1>13 DEF RejectBegin, Start, moneyVars, codeVars, ReadCode, NoRow, OrderFree, HoldsOrder, HasButtons, Releasable, Provisioned
<1>14. ASSUME NEW w \in Worker, ProvisionBegin(w) PROVE Closing' /\ UsageFollowsOrder'
  <2>1. /\ \A v \in Worker \ {w} : task'[v] = task[v]
        /\ task'[w].pc \in {"building", "idle"} /\ UNCHANGED <<status, usage>>
    BY <1>14 DEF ProvisionBegin, Finish, codeVars
  <2> QED BY <2>1
<1>15. ASSUME NEW w \in Worker, RenewPlace(w) PROVE Closing' /\ UsageFollowsOrder'
  BY <1>15 DEF RenewPlace, moneyVars, codeVars
<1>16. ASSUME NEW w \in Worker, RenewRefuse(w) PROVE Closing' /\ UsageFollowsOrder'
  BY <1>16 DEF RenewRefuse, Finish, moneyVars, codeVars
<1>17. ASSUME NEW w \in Worker, RemoteDone(w) PROVE Closing' /\ UsageFollowsOrder'
  BY <1>17 DEF RemoteDone, moneyVars, codeVars
<1>18. ASSUME NEW w \in Worker, RemoteFail(w) PROVE Closing' /\ UsageFollowsOrder'
  <2>1. /\ \A v \in Worker \ {w} : task'[v] = task[v]
        /\ task'[w].pc \in {"failing", "idle"} /\ UNCHANGED <<status, usage>>
    BY <1>18 DEF RemoteFail, Finish, codeVars
  <2> QED BY <2>1
<1>19. ASSUME NEW w \in Worker, ReadReferrer(w) PROVE Closing' /\ UsageFollowsOrder'
  BY <1>19 DEF ReadReferrer, moneyVars, codeVars
<1>20. ASSUME NEW w \in Worker, Commit(w) PROVE Closing' /\ UsageFollowsOrder'
  BY <1>20 DEF Commit, Finish, codeVars, MarkUsed, PaysFromSeen
<1>21. ASSUME NEW w \in Worker, HandlerRead(w) PROVE Closing' /\ UsageFollowsOrder'
  <2>1. /\ \A v \in Worker \ {w} : task'[v] = task[v]
        /\ task'[w].pc \in {"marking", "idle"} /\ UNCHANGED <<status, usage>>
    BY <1>21 DEF HandlerRead, Finish, codeVars
  <2> QED BY <2>1
<1>22. ASSUME NEW w \in Worker, HandlerWrite(w) PROVE Closing' /\ UsageFollowsOrder'
  BY <1>22 DEF HandlerWrite, Finish, moneyVars, codeVars, OrderFree, HoldsOrder
<1>23. ASSUME NEW w \in Worker, CancelCommit(w) PROVE Closing' /\ UsageFollowsOrder'
  BY <1>23 DEF CancelCommit, Finish, moneyVars, codeVars, Release, NoRow
<1>24. ASSUME NEW w \in Worker, BackCommit(w) PROVE Closing' /\ UsageFollowsOrder'
  BY <1>24 DEF BackCommit, Finish, moneyVars, codeVars, Release, NoRow
<1>25. ASSUME NEW w \in Worker, RejectCommit(w) PROVE Closing' /\ UsageFollowsOrder'
  BY <1>25 DEF RejectCommit, Finish, moneyVars, codeVars, Release, NoRow
<1>26. ASSUME NEW w \in Worker, Crash(w) PROVE Closing' /\ UsageFollowsOrder'
  BY <1>26 DEF Crash, Finish, moneyVars, codeVars
<1>27. CASE UNCHANGED vars
  BY <1>27 DEF vars, moneyVars, codeVars
<1> QED
  BY <1>1, <1>2, <1>3, <1>4, <1>5, <1>6, <1>7, <1>8, <1>9, <1>10, <1>11,
     <1>12, <1>13, <1>14, <1>15, <1>16, <1>17, <1>18, <1>19, <1>20, <1>21,
     <1>22, <1>23, <1>24, <1>25, <1>26, <1>27
     DEF Next, TaskStep

\* A discounted card order keeps its usage row exactly as long as it may still
\* be delivered: no rejection or cancellation forgets to release it, and none
\* releases it under an order that goes on.
THEOREM UsageFollows == Spec => []UsageFollowsOrder
<1>1. Init => Closing /\ UsageFollowsOrder
  BY OrdersAssumption DEF Init, Closing, UsageFollowsOrder, Closes, Idle
<1>2. /\ IInv /\ Closing /\ UsageFollowsOrder /\ [Next]_vars
      => (IInv /\ Closing /\ UsageFollowsOrder)'
  BY InvStep, UsageStep
<1> QED BY <1>1, <1>2, InvInit, PTL DEF Spec

-----------------------------------------------------------------------------
(* No balance below zero.                                                  *)

\* What a purchase of the chat has read covers its price from the moment it
\* builds on, what a referrer was read to have is not negative, and only what
\* is paid otherwise is scheduled.
Funded(t) ==
    /\ t.ref >= 0
    /\ t.pc \in Pipeline /\ PaysFromSeen(t.order) => t.seen >= Price[t.order]
    /\ t.pc = "scheduled" => Kind[t.order] \in Provisioned
AllFunded == \A w \in Worker : Funded(task[w])

\* Every step that moves money moves what its task has found to be there.
LEMMA FundStep ==
  TypeOK /\ NoOverdraft /\ AllFunded /\ [Next]_vars => NoOverdraft' /\ AllFunded'
<1> SUFFICES ASSUME TypeOK, NoOverdraft, AllFunded, [Next]_vars
             PROVE  NoOverdraft' /\ AllFunded'
  OBVIOUS
<1> USE OrdersAssumption DEF TypeOK, NoOverdraft, AllFunded, Funded, Idle, Pipeline
<1>1. ASSUME NEW o \in Order,
             \/ Checkout(o) \/ TopupApprove(o) \/ PlaceOrder(o) \/ UploadReceipt(o)
             \/ Recover(o)
      PROVE  NoOverdraft' /\ AllFunded'
  <2>1. UNCHANGED task
    BY <1>1 DEF Checkout, TopupApprove, PlaceOrder, UploadReceipt, Recover
  <2>2. \A u \in User : wallet'[u] >= 0
    <3>1. CASE Checkout(o)
      BY <3>1 DEF Checkout
    <3>2. CASE TopupApprove(o)
      BY <3>2 DEF TopupApprove
    <3>3. CASE ~Checkout(o) /\ ~TopupApprove(o)
      BY <1>1, <3>3 DEF PlaceOrder, UploadReceipt, Recover, moneyVars
    <3> QED BY <3>1, <3>2, <3>3
  <2> QED BY <2>1, <2>2
<1>2. ASSUME NEW w \in Worker, UNCHANGED wallet, Funded(task'[w]),
             \A v \in Worker \ {w} : task'[v] = task[v]
      PROVE  NoOverdraft' /\ AllFunded'
  BY <1>2
<1>3. ASSUME NEW w \in Worker, NEW o \in Order,
             \/ CancelBegin(w, o) \/ BackRead(w, o) \/ Approve(w, o) \/ ChatBuyBegin(w, o)
             \/ RenewRead(w, o) \/ IpnBegin(w, o) \/ RejectBegin(w, o)
      PROVE  NoOverdraft' /\ AllFunded'
  <2>1. UNCHANGED wallet /\ \A v \in Worker \ {w} : task'[v] = task[v]
    BY <1>3 DEF CancelBegin, BackRead, Approve, ChatBuyBegin, RenewRead, IpnBegin,
                RejectBegin, Start, moneyVars
  <2>2. Funded(task'[w])
    BY <1>3 DEF CancelBegin, BackRead, Approve, ChatBuyBegin, RenewRead, IpnBegin,
                RejectBegin, Start, PaysFromSeen, Provisioned
  <2> QED BY <1>2, <2>1, <2>2
<1>4. ASSUME NEW o \in Order, QueueTake(o) PROVE NoOverdraft' /\ AllFunded'
  <2>1. /\ UNCHANGED wallet /\ Funded(task'[ApiLoop])
        /\ \A v \in Worker \ {ApiLoop} : task'[v] = task[v]
    BY <1>4 DEF QueueTake, Start, moneyVars, Provisioned
  <2> QED BY <1>2, <2>1
<1>5. ASSUME NEW w \in Worker, ProvisionBegin(w) PROVE NoOverdraft' /\ AllFunded'
  <2>1. UNCHANGED wallet /\ \A v \in Worker \ {w} : task'[v] = task[v]
    BY <1>5 DEF ProvisionBegin, Finish, moneyVars
  <2>2. Funded(task'[w])
    BY <1>5 DEF ProvisionBegin, Finish, PaysFromSeen, Provisioned
  <2> QED BY <1>2, <2>1, <2>2
<1>6. ASSUME NEW w \in Worker, RenewPlace(w) \/ RenewRefuse(w) \/ RemoteDone(w)
      PROVE  NoOverdraft' /\ AllFunded'
  <2>1. UNCHANGED wallet /\ \A v \in Worker \ {w} : task'[v] = task[v]
    BY <1>6 DEF RenewPlace, RenewRefuse, RemoteDone, Finish, moneyVars
  <2>2. CASE RenewPlace(w)
    <3>1. Funded(task'[w])
      BY <2>2 DEF RenewPlace
    <3> QED BY <1>2, <2>1, <3>1
  <2>3. CASE RenewRefuse(w)
    <3>1. Funded(task'[w])
      BY <2>3 DEF RenewRefuse, Finish
    <3> QED BY <1>2, <2>1, <3>1
  <2>4. CASE RemoteDone(w)
    <3>1. Funded(task'[w])
      BY <2>4 DEF RemoteDone
    <3> QED BY <1>2, <2>1, <3>1
  <2> QED BY <1>6, <2>2, <2>3, <2>4
<1>7. ASSUME NEW w \in Worker, RemoteFail(w) \/ HandlerRead(w) PROVE NoOverdraft' /\ AllFunded'
  <2>1. UNCHANGED wallet /\ \A v \in Worker \ {w} : task'[v] = task[v]
    BY <1>7 DEF RemoteFail, HandlerRead, Finish, moneyVars
  <2>2. Funded(task'[w])
    BY <1>7 DEF RemoteFail, HandlerRead, Finish
  <2> QED BY <1>2, <2>1, <2>2
<1>8. ASSUME NEW w \in Worker,
             \/ HandlerWrite(w) \/ CancelCommit(w) \/ BackCommit(w) \/ RejectCommit(w)
             \/ Crash(w)
      PROVE  NoOverdraft' /\ AllFunded'
  <2>1. UNCHANGED wallet /\ task' = [task EXCEPT ![w] = Idle]
    BY <1>8 DEF HandlerWrite, CancelCommit, BackCommit, RejectCommit, Crash, Finish, moneyVars
  <2> QED BY <1>2, <2>1
<1>9. ASSUME NEW w \in Worker, ReadReferrer(w) PROVE NoOverdraft' /\ AllFunded'
  <2> DEFINE o == task[w].order
             balance == IF CommissionOf(o) > 0 THEN wallet[Referrer[Owner[o]]] ELSE 0
  <2>1. task[w].pc = "built" /\ o \in Order
    BY <1>9 DEF ReadReferrer
  <2>2. CommissionOf(o) > 0 => Referrer[Owner[o]] \in User
    BY <2>1 DEF CommissionOf
  <2>3. balance >= 0
    BY <2>2
  <2>4. /\ UNCHANGED wallet
        /\ task' = [task EXCEPT ![w].pc = "crediting", ![w].bonus = CommissionOf(o),
                               ![w].ref = balance]
    BY <1>9 DEF ReadReferrer, moneyVars
  <2> HIDE DEF balance
  <2>5. /\ task'[w].pc = "crediting" /\ task'[w].order = task[w].order
        /\ task'[w].seen = task[w].seen /\ task'[w].ref = balance
        /\ \A v \in Worker \ {w} : task'[v] = task[v]
    BY <2>4
  <2>6. Funded(task'[w])
    BY <2>1, <2>3, <2>5
  <2> QED BY <1>2, <2>4, <2>5, <2>6
<1>10. ASSUME NEW w \in Worker, Commit(w) PROVE NoOverdraft' /\ AllFunded'
  <2>1. /\ task[w].pc = "crediting" /\ wallet' = WalletAfter(task[w])
        /\ task' = [task EXCEPT ![w] = Idle] /\ task[w].order \in Order
    BY <1>10 DEF Commit, Finish
  <2>2. Funded(task[w]) /\ task[w].bonus \in Nat /\ task[w].seen \in Int /\ task[w].ref \in Int
    BY <2>1
  <2>3. \A u \in User : wallet'[u] >= 0
    BY <2>1, <2>2 DEF WalletAfter
  <2> QED BY <2>1, <2>3
<1>11. ASSUME UNCHANGED vars PROVE NoOverdraft' /\ AllFunded'
  BY <1>11 DEF vars
<1> QED
  BY <1>1, <1>3, <1>4, <1>5, <1>6, <1>7, <1>8, <1>9, <1>10, <1>11 DEF Next, TaskStep

\* No wallet is spent below zero, whatever runs concurrently: the purchases of
\* the chat that overwrite each other's debit still write what they have seen.
THEOREM NeverOverdrawn == Spec => []NoOverdraft
<1>1. Init => NoOverdraft /\ AllFunded
  BY OrdersAssumption DEF Init, NoOverdraft, AllFunded, Funded, Idle, Pipeline
<1>2. /\ TypeOK /\ SeenCount /\ NoOverdraft /\ AllFunded /\ [Next]_vars
      => (TypeOK /\ SeenCount /\ NoOverdraft /\ AllFunded)'
  BY TypeStep, FundStep
<1> QED BY <1>1, <1>2, TypeInit, PTL DEF Spec

-----------------------------------------------------------------------------
(* The limits of a discount code.                                          *)

\* The rows of customer u.
RowsOf(u) == {o \in usage : Owner[o] = u}

\* Only one worker holds the code, and it has found it usable.
CodeHeld ==
    /\ \A v, w \in Worker : HoldsCode(task[v]) /\ HoldsCode(task[w]) => v = w
    /\ \A w \in Worker : HoldsCode(task[w]) => CodeUsable(Owner[task[w].order])
UsageTyped == IsFiniteSet(usage) /\ usage \subseteq Discounted

\* The counter is not behind the rows, and no task is to turn it back.
Closings == {"cancel", "back", "reject"}
Counted ==
    /\ Cardinality(usage) <= used /\ used <= MaxUses
    /\ \A w \in Worker : task[w].pc \in Closings => task[w].seen = NoRow

CodeInv == CodeHeld /\ UsageTyped /\ CustomersWithinLimit

\* What a step does to the code: nothing, while w at most goes on or lets go ...
Leaves(w) ==
    /\ UNCHANGED codeVars /\ \A v \in Worker \ {w} : task'[v] = task[v]
    /\ HoldsCode(task[w])' => HoldsCode(task[w]) /\ task'[w].order = task[w].order
    /\ task'[w].pc \in Closings
         => task'[w] = task[w] \/ task'[w].seen = ReadCode(task'[w].order)
\* ... w takes it, ...
Claims(w) ==
    /\ UNCHANGED codeVars /\ \A v \in Worker \ {w} : task'[v] = task[v]
    /\ task'[w].order \in Discounted /\ task'[w].pc \notin Closings
    /\ CodeFree /\ CodeUsable(Owner[task'[w].order])
\* ... order o gets a row, with nobody or w holding the code, ...
Marks(w, o) ==
    /\ MarkUsed(o) /\ \A v \in Worker : task'[v] = task[v] \/ (v = w /\ task'[v] = Idle)
    /\ \A v \in Worker \ {w} : o \in Discounted => ~HoldsCode(task[v])
    /\ o \in Discounted => CodeUsable(Owner[o]) /\ ~HoldsCode(task[w])'
\* ... or w releases the row of o.
Frees(w, o) ==
    /\ task[w].pc \in Closings /\ task' = [task EXCEPT ![w] = Idle]
    /\ Release(o, task[w].seen)

\* One more row makes one more in each of the two counts.
LEMMA OneMoreRow ==
  ASSUME IsFiniteSet(usage), NEW o, NEW u
  PROVE  /\ IsFiniteSet(usage \cup {o}) /\ IsFiniteSet(RowsOf(u))
         /\ Cardinality(usage) \in Nat /\ Cardinality(RowsOf(u)) \in Nat
         /\ Cardinality(usage \cup {o}) <= Cardinality(usage) + 1
         /\ Cardinality({x \in usage \cup {o} : Owner[x] = u}) <=
                IF Owner[o] = u THEN Cardinality(RowsOf(u)) + 1 ELSE Cardinality(RowsOf(u))
<1>1. /\ IsFiniteSet(usage \cup {o})
      /\ Cardinality(usage \cup {o}) = IF o \in usage THEN Cardinality(usage)
                                                      ELSE Cardinality(usage) + 1
  BY FS_AddElement
<1>2. IsFiniteSet(RowsOf(u)) /\ Cardinality(usage) \in Nat /\ Cardinality(RowsOf(u)) \in Nat
  <2>1. RowsOf(u) \subseteq usage
    BY DEF RowsOf
  <2> QED BY <2>1, FS_Subset, FS_CardinalityType
<1>3. /\ IsFiniteSet(RowsOf(u) \cup {o})
      /\ Cardinality(RowsOf(u) \cup {o}) = IF o \in RowsOf(u) THEN Cardinality(RowsOf(u))
                                                            ELSE Cardinality(RowsOf(u)) + 1
  BY <1>2, FS_AddElement
<1>4. {x \in usage \cup {o} : Owner[x] = u} =
          IF Owner[o] = u THEN RowsOf(u) \cup {o} ELSE RowsOf(u)
  BY DEF RowsOf
<1> QED BY <1>1, <1>2, <1>3, <1>4

\* One row less makes no count larger.
LEMMA OneRowLess ==
  ASSUME IsFiniteSet(usage), NEW o, NEW u
  PROVE  /\ IsFiniteSet(usage \ {o})
         /\ Cardinality({x \in usage \ {o} : Owner[x] = u}) <= Cardinality(RowsOf(u))
         /\ Cardinality({x \in usage \ {o} : Owner[x] = u}) \in Nat
         /\ Cardinality(RowsOf(u)) \in Nat
<1>1. /\ {x \in usage \ {o} : Owner[x] = u} \subseteq RowsOf(u)
      /\ RowsOf(u) \subseteq usage /\ usage \ {o} \subseteq usage
  BY DEF RowsOf
<1>2. IsFiniteSet(RowsOf(u)) /\ IsFiniteSet(usage \ {o})
  BY <1>1, FS_Subset
<1> QED BY <1>1, <1>2, FS_Subset, FS_CardinalityType

\* Each of the four keeps the rows within the limits of the customers.
LEMMA LeavesKeeps ==
  ASSUME CodeInv, NEW w \in Worker, Leaves(w) PROVE CodeInv'
<1>1. UNCHANGED <<used, usage>> /\ \A v \in Worker \ {w} : task'[v] = task[v]
  BY DEF Leaves, codeVars
<1>2. /\ HoldsCode(task[w])' => HoldsCode(task[w]) /\ task'[w].order = task[w].order
      /\ \A v \in Worker \ {w} : HoldsCode(task[v])' <=> HoldsCode(task[v])
  BY <1>1 DEF Leaves, HoldsCode
<1> QED
  BY <1>1, <1>2 DEF CodeInv, CodeHeld, UsageTyped, CustomersWithinLimit, CodeUsable

\* Nobody held the code before w took it.
LEMMA ClaimsKeeps ==
  ASSUME CodeInv, NEW w \in Worker, Claims(w) PROVE CodeInv'
<1>1. UNCHANGED <<used, usage>> /\ \A v \in Worker \ {w} : task'[v] = task[v]
  BY DEF Claims, codeVars
<1>2. \A v \in Worker \ {w} : ~HoldsCode(task[v])'
  BY <1>1 DEF Claims, CodeFree, HoldsCode
<1>3. CodeUsable(Owner[task[w].order])'
  BY <1>1 DEF Claims, CodeUsable
<1> QED
  BY <1>1, <1>2, <1>3 DEF CodeInv, CodeHeld, UsageTyped, CustomersWithinLimit

\* A row is added while the code is usable for its customer, and nobody holds
\* the code afterwards.
LEMMA MarksKeeps ==
  ASSUME TypeOK, CodeInv, NEW w \in Worker, NEW o \in Order, Marks(w, o) PROVE CodeInv'
<1>1. CASE o \notin Discounted
  <2>1. UNCHANGED codeVars /\ \A v \in Worker : task'[v] = task[v] \/ (v = w /\ task'[v] = Idle)
    BY <1>1 DEF Marks, MarkUsed
  <2>2. Idle.pc \notin Pipeline \cup Closings
    BY DEF Idle, Pipeline, Closings
  <2>3. Leaves(w)
    BY <2>1, <2>2 DEF Leaves, HoldsCode
  <2> QED BY <2>3, LeavesKeeps
<1>2. CASE o \in Discounted
  <2>1. used' = used + 1 /\ usage' = usage \cup {o}
    BY <1>2 DEF Marks, MarkUsed
  <2>2. \A v \in Worker : ~HoldsCode(task[v])'
    BY <1>2 DEF Marks, HoldsCode, Idle, Pipeline
  <2>3. CodeUsable(Owner[o]) /\ IsFiniteSet(usage)
    BY <1>2 DEF Marks, CodeInv, UsageTyped
  <2>4. ASSUME NEW u \in User
        PROVE  Cardinality({x \in usage' : Owner[x] = u}) <= PerUserLimit
    <3>1. Cardinality(RowsOf(u)) <= PerUserLimit
      BY DEF CodeInv, CustomersWithinLimit, RowsOf
    <3>2. Owner[o] = u => Cardinality(RowsOf(u)) < PerUserLimit
      BY <2>3 DEF CodeUsable, RowsOf
    <3>3. /\ Cardinality(RowsOf(u)) \in Nat
          /\ Cardinality({x \in usage' : Owner[x] = u}) <=
                IF Owner[o] = u THEN Cardinality(RowsOf(u)) + 1 ELSE Cardinality(RowsOf(u))
      BY <2>1, <2>3, OneMoreRow
    <3>4. Cardinality({x \in usage' : Owner[x] = u}) \in Nat
      <4>1. IsFiniteSet(usage') /\ {x \in usage' : Owner[x] = u} \subseteq usage'
        BY <2>1, <2>3, OneMoreRow
      <4> QED BY <4>1, FS_Subset, FS_CardinalityType
    <3> QED BY <3>1, <3>2, <3>3, <3>4, OrdersAssumption
  <2>5. IsFiniteSet(usage') /\ usage' \subseteq Discounted
    BY <1>2, <2>1, <2>3, OneMoreRow DEF CodeInv, UsageTyped
  <2> QED BY <2>2, <2>4, <2>5 DEF CodeInv, CodeHeld, UsageTyped, CustomersWithinLimit
<1> QED BY <1>1, <1>2

\* A row is released while nobody holds the code.
LEMMA FreesKeeps ==
  ASSUME TypeOK, CodeInv, NEW w \in Worker, NEW o \in Order, Frees(w, o) PROVE CodeInv'
<1>1. task' = [task EXCEPT ![w] = Idle]
  BY DEF Frees
<1>2. CASE task[w].seen = NoRow
  <2>1. UNCHANGED codeVars
    BY <1>2 DEF Frees, Release
  <2>2. Idle.pc \notin Pipeline \cup Closings
    BY DEF Idle, Pipeline, Closings
  <2>3. task'[w] = Idle /\ \A v \in Worker \ {w} : task'[v] = task[v]
    BY <1>1 DEF TypeOK
  <2>4. Leaves(w)
    BY <2>1, <2>2, <2>3 DEF Leaves, HoldsCode
  <2> QED BY <2>4, LeavesKeeps
<1>3. CASE task[w].seen # NoRow
  <2>1. CodeFree /\ usage' = usage \ {o} /\ IsFiniteSet(usage)
    BY <1>3 DEF Frees, Release, CodeInv, UsageTyped
  <2>2. \A v \in Worker : ~HoldsCode(task[v])'
    BY <1>1, <2>1 DEF CodeFree, HoldsCode, Idle, Pipeline, TypeOK
  <2>3. ASSUME NEW u \in User
        PROVE  Cardinality({x \in usage' : Owner[x] = u}) <= PerUserLimit
    <3>1. Cardinality(RowsOf(u)) <= PerUserLimit
      BY DEF CodeInv, CustomersWithinLimit, RowsOf
    <3>2. /\ Cardinality({x \in usage \ {o} : Owner[x] = u}) <= Cardinality(RowsOf(u))
          /\ Cardinality({x \in usage \ {o} : Owner[x] = u}) \in Nat
          /\ Cardinality(RowsOf(u)) \in Nat
      BY <2>1, OneRowLess
    <3>3. PerUserLimit \in Nat
      BY OrdersAssumption
    <3> QED BY <2>1, <3>1, <3>2, <3>3
  <2>4. IsFiniteSet(usage') /\ usage' \subseteq Discounted
    BY <2>1, OneRowLess DEF CodeInv, UsageTyped
  <2> QED BY <2>2, <2>3, <2>4 DEF CodeInv, CodeHeld, UsageTyped, CustomersWithinLimit
<1> QED BY <1>2, <1>3

\* Whatever happens, happens to the code in one of these ways.
Affects(w) == Leaves(w) \/ Claims(w) \/ \E o \in Order : Marks(w, o) \/ Frees(w, o)
LEMMA CodeEffect ==
  ASSUME TypeOK, AllFunded, CodeInv, [Next]_vars PROVE \E w \in Worker : Affects(w)
<1> USE OrdersAssumption DEF TypeOK, Idle, Pipeline, Closings
<1>1. ASSUME NEW o \in Order, Checkout(o) \/ PlaceOrder(o) PROVE Affects(ApiLoop)
  <2>1. UNCHANGED task /\ CodeAccepts(o) /\ MarkUsed(o)
    BY <1>1 DEF Checkout, PlaceOrder
  <2>2. o \in Discounted => CodeUsable(Owner[o]) /\ \A v \in Worker : ~HoldsCode(task[v])
    BY <2>1 DEF CodeAccepts, CodeFree
  <2>3. Marks(ApiLoop, o)
    BY <2>1, <2>2 DEF Marks, HoldsCode
  <2> QED BY <2>3 DEF Affects
<1>2. ASSUME UNCHANGED <<task, used, usage>> PROVE Affects(ApiLoop)
  <2>1. Leaves(ApiLoop)
    BY <1>2 DEF Leaves, HoldsCode, codeVars
  <2> QED BY <2>1 DEF Affects
<1>3. ASSUME NEW o \in Order, UploadReceipt(o) \/ Recover(o) \/ TopupApprove(o)
      PROVE  Affects(ApiLoop)
  BY <1>2, <1>3 DEF UploadReceipt, Recover, TopupApprove, codeVars
<1>4. ASSUME NEW o \in Order, QueueTake(o) PROVE Affects(ApiLoop)
  <2>1. Leaves(ApiLoop)
    BY <1>4 DEF QueueTake, Start, Leaves, HoldsCode
  <2> QED BY <2>1 DEF Affects
<1>5. ASSUME NEW w \in Worker, NEW o \in Order, ChatBuyBegin(w, o) PROVE Affects(w)
  <2>1. /\ UNCHANGED codeVars /\ \A v \in Worker \ {w} : task'[v] = task[v]
        /\ task'[w].order = o /\ task'[w].pc = "building" /\ CodeAccepts(o)
    BY <1>5 DEF ChatBuyBegin, Start
  <2>2. o \in Discounted => Claims(w)
    BY <2>1 DEF Claims, CodeAccepts
  <2>3. o \notin Discounted => Leaves(w)
    BY <2>1 DEF Leaves, HoldsCode
  <2> QED BY <2>2, <2>3 DEF Affects
<1>6. ASSUME NEW w \in Worker, RenewPlace(w) PROVE Affects(w)
  <2> DEFINE o == task[w].order
  <2>1. /\ UNCHANGED codeVars /\ \A v \in Worker \ {w} : task'[v] = task[v]
        /\ task'[w].order = o /\ task'[w].pc = "building" /\ CodeAccepts(o)
    BY <1>6 DEF RenewPlace
  <2>2. o \in Discounted => Claims(w)
    BY <2>1 DEF Claims, CodeAccepts
  <2>3. o \notin Discounted => Leaves(w)
    BY <2>1 DEF Leaves, HoldsCode
  <2> QED BY <2>2, <2>3 DEF Affects
<1>7. ASSUME NEW w \in Worker, NEW o \in Order,
             \/ CancelBegin(w, o) \/ BackRead(w, o) \/ Approve(w, o) \/ RenewRead(w, o)
             \/ IpnBegin(w, o) \/ RejectBegin(w, o)
      PROVE  Affects(w)
  <2>1. Leaves(w)
    BY <1>7 DEF CancelBegin, BackRead, Approve, RenewRead, IpnBegin, RejectBegin, Start,
                Leaves, HoldsCode
  <2> QED BY <2>1 DEF Affects
<1>8. ASSUME NEW w \in Worker, ProvisionBegin(w) PROVE Affects(w)
  <2>1. Kind[task[w].order] \in Provisioned
    BY <1>8 DEF ProvisionBegin, AllFunded, Funded
  <2>2. Leaves(w)
    BY <1>8, <2>1 DEF ProvisionBegin, Finish, Leaves, HoldsCode, Provisioned
  <2> QED BY <2>2 DEF Affects
<1>9. ASSUME NEW w \in Worker, RenewRefuse(w) \/ RemoteDone(w) PROVE Affects(w)
  <2>1. Leaves(w)
    BY <1>9 DEF RenewRefuse, RemoteDone, Finish, Leaves, HoldsCode
  <2> QED BY <2>1 DEF Affects
<1>10. ASSUME NEW w \in Worker, RemoteFail(w) \/ HandlerRead(w) PROVE Affects(w)
  <2>1. Leaves(w)
    BY <1>10 DEF RemoteFail, HandlerRead, Finish, Leaves, HoldsCode
  <2> QED BY <2>1 DEF Affects
<1>11. ASSUME NEW w \in Worker, HandlerWrite(w) \/ Crash(w) PROVE Affects(w)
  <2>1. Leaves(w)
    BY <1>11 DEF HandlerWrite, Crash, Finish, Leaves, HoldsCode
  <2> QED BY <2>1 DEF Affects
<1>12. ASSUME NEW w \in Worker, ReadReferrer(w) PROVE Affects(w)
  <2>1. /\ UNCHANGED codeVars /\ \A v \in Worker \ {w} : task'[v] = task[v]
        /\ task[w].pc = "built" /\ task'[w].pc = "crediting"
        /\ task'[w].order = task[w].order
    BY <1>12 DEF ReadReferrer
  <2>2. Leaves(w)
    BY <2>1 DEF Leaves, HoldsCode
  <2> QED BY <2>2 DEF Affects
<1>13. ASSUME NEW w \in Worker, CancelCommit(w) \/ BackCommit(w) \/ RejectCommit(w)
       PROVE  Affects(w)
  <2>1. Frees(w, task[w].order) /\ task[w].order \in Order
    BY <1>13 DEF CancelCommit, BackCommit, RejectCommit, Finish, Frees
  <2> QED BY <2>1 DEF Affects
<1>14. ASSUME NEW w \in Worker, Commit(w) PROVE Affects(w)
  <2> DEFINE o == task[w].order
  <2>1. /\ task[w].pc = "crediting" /\ o \in Order /\ task' = [task EXCEPT ![w] = Idle]
        /\ IF PaysFromSeen(o) THEN MarkUsed(o) ELSE UNCHANGED codeVars
    BY <1>14 DEF Commit, Finish
  <2>2. CASE PaysFromSeen(o) /\ o \in Discounted
    <3>1. HoldsCode(task[w])
      BY <2>1, <2>2 DEF HoldsCode, PaysFromSeen
    <3>2. CodeUsable(Owner[o]) /\ \A v \in Worker \ {w} : ~HoldsCode(task[v])
      BY <3>1 DEF CodeInv, CodeHeld
    <3>3. Marks(w, o)
      BY <2>1, <2>2, <3>2 DEF Marks, HoldsCode
    <3> QED BY <2>1, <3>3 DEF Affects
  <2>3. CASE ~(PaysFromSeen(o) /\ o \in Discounted)
    <3>1. UNCHANGED codeVars
      BY <2>1, <2>3 DEF MarkUsed
    <3>2. Leaves(w)
      BY <2>1, <3>1 DEF Leaves, HoldsCode
    <3> QED BY <3>2 DEF Affects
  <2> QED BY <2>2, <2>3
<1>15. ASSUME UNCHANGED vars PROVE Affects(ApiLoop)
  BY <1>2, <1>15 DEF vars
<1> QED
  BY <1>1, <1>3, <1>4, <1>5, <1>6, <1>7, <1>8, <1>9, <1>10, <1>11, <1>12, <1>13, <1>14,
     <1>15 DEF Next, TaskStep

\* The two counts of an empty set of rows.
LEMMA CodeInit == Init => CodeInv /\ Counted
<1> SUFFICES ASSUME Init PROVE CodeInv /\ Counted
  OBVIOUS
<1>1. usage = {} /\ used = 0 /\ task = [w \in Worker |-> Idle]
  BY DEF Init
<1>2. CodeHeld /\ UsageTyped
  BY <1>1, FS_EmptySet DEF CodeHeld, UsageTyped, HoldsCode, Idle, Pipeline
<1>3. \A u \in User : {o \in usage : Owner[o] = u} = {}
  BY <1>1
<1> QED
  BY <1>1, <1>2, <1>3, FS_EmptySet, OrdersAssumption
     DEF CodeInv, CustomersWithinLimit, Counted, Closings, Idle

\* Every step keeps the limits of the customers.
LEMMA CodeStep ==
  TypeOK /\ AllFunded /\ CodeInv /\ [Next]_vars => CodeInv'
  BY CodeEffect, LeavesKeeps, ClaimsKeeps, MarksKeeps, FreesKeeps DEF Affects

\* Who the code was counted for.
LEMMA CodeSpec == Spec => [](TypeOK /\ AllFunded /\ CodeInv)
<1>1. Init => NoOverdraft /\ AllFunded
  BY OrdersAssumption DEF Init, NoOverdraft, AllFunded, Funded, Idle, Pipeline
<1>2. /\ TypeOK /\ SeenCount /\ NoOverdraft /\ AllFunded /\ CodeInv /\ [Next]_vars
      => (TypeOK /\ SeenCount /\ NoOverdraft /\ AllFunded /\ CodeInv)'
  BY TypeStep, FundStep, CodeStep
<1> QED BY <1>1, <1>2, TypeInit, CodeInit, PTL DEF Spec

\* No customer holds more rows of the code than per_user_limit, also when two
\* releases overwrite each other's used_count: that check counts the rows.
THEOREM PerUserLimitKept == Spec => []CustomersWithinLimit
<1>1. CodeInv => CustomersWithinLimit
  BY DEF CodeInv
<1> QED BY <1>1, CodeSpec, PTL

\* A code that only orders without release use is never over its max_uses.
LEMMA CountedStep ==
  ASSUME \A o \in Discounted : Kind[o] \notin Releasable,
         TypeOK, AllFunded, CodeInv, Counted, [Next]_vars
  PROVE  Counted'
<1>1. PICK w \in Worker : Affects(w)
  BY CodeEffect
<1>2. \A o : ReadCode(o) = NoRow
  BY DEF ReadCode, CodeInv, UsageTyped
<1>3. IsFiniteSet(usage) /\ Cardinality(usage) \in Nat /\ used \in Nat /\ MaxUses \in Nat
  BY FS_CardinalityType, OrdersAssumption DEF CodeInv, UsageTyped, TypeOK
<1>4. ASSUME UNCHANGED codeVars, \A v \in Worker \ {w} : task'[v] = task[v],
             task'[w].pc \in Closings => task'[w].seen = NoRow
      PROVE  Counted'
  BY <1>4 DEF Counted, codeVars
<1>5. CASE Leaves(w)
  <2>1. task'[w].pc \in Closings => task'[w] = task[w] \/ task'[w].seen = NoRow
    BY <1>2, <1>5 DEF Leaves
  <2>2. task'[w].pc \in Closings => task'[w].seen = NoRow
    BY <2>1 DEF Counted
  <2> QED BY <1>4, <1>5, <2>2 DEF Leaves
<1>6. CASE Claims(w)
  BY <1>4, <1>6 DEF Claims
<1>7. ASSUME NEW o \in Order, Marks(w, o) PROVE Counted'
  <2>1. \A v \in Worker : task'[v] = task[v] \/ task'[v] = Idle
    BY <1>7 DEF Marks
  <2>2. \A v \in Worker : task'[v].pc \in Closings => task'[v].seen = NoRow
    BY <2>1 DEF Counted, Closings, Idle
  <2>3. CASE o \in Discounted
    <3>1. used < MaxUses /\ used' = used + 1 /\ usage' = usage \cup {o}
      BY <1>7, <2>3 DEF Marks, MarkUsed, CodeUsable
    <3>2. /\ Cardinality(usage') <= Cardinality(usage) + 1
          /\ Cardinality(usage') \in Nat
      BY <1>3, <3>1, OneMoreRow, FS_AddElement, FS_CardinalityType
    <3> QED BY <1>3, <2>2, <3>1, <3>2 DEF Counted
  <2>4. CASE o \notin Discounted
    BY <1>7, <2>2, <2>4 DEF Marks, MarkUsed, Counted, codeVars
  <2> QED BY <2>3, <2>4
<1>8. ASSUME NEW o \in Order, Frees(w, o) PROVE Counted'
  <2>1. task[w].seen = NoRow
    BY <1>8 DEF Frees, Counted
  <2>2. UNCHANGED codeVars
    BY <1>8, <2>1 DEF Frees, Release
  <2>3. task'[w] = Idle /\ \A v \in Worker \ {w} : task'[v] = task[v]
    BY <1>8 DEF Frees, TypeOK
  <2> QED BY <1>4, <2>2, <2>3 DEF Closings, Idle
<1> QED BY <1>1, <1>5, <1>6, <1>7, <1>8 DEF Affects

\* The code stays within both limits if no order that uses it can be released:
\* what breaks max_uses is a release that writes back a count it read before.
THEOREM CodeKept ==
  ASSUME \A o \in Discounted : Kind[o] \notin Releasable
  PROVE  Spec => []CodeWithinLimit
<1>1. TypeOK /\ AllFunded /\ CodeInv /\ Counted /\ [Next]_vars => Counted'
  BY CountedStep
<1>2. TypeOK /\ CodeInv /\ Counted => CodeWithinLimit
  <2> SUFFICES ASSUME TypeOK, CodeInv, Counted PROVE Cardinality(usage) <= MaxUses
    BY DEF CodeInv, CodeWithinLimit
  <2>1. Cardinality(usage) \in Nat /\ used \in Nat /\ MaxUses \in Nat
    BY FS_CardinalityType, OrdersAssumption DEF CodeInv, UsageTyped, TypeOK
  <2> QED BY <2>1 DEF Counted
<1> QED BY <1>1, <1>2, CodeInit, CodeSpec, PTL DEF Spec

-----------------------------------------------------------------------------
(* The wallet of a customer is exact.                                      *)

\* What the program protects: nobody u invited earns him a commission, and he
\* renews nothing from the wallet of the chat.
Protected(u) ==
    /\ \A o \in Order : Owner[o] = u => Kind[o] # "chatrenew"
    /\ \A o \in Order : Referrer[Owner[o]] = u => Commission[o] = 0

\* Every task credits at most the commission of its order, delivers no top-up,
\* and works on wallet orders only when they have been paid for.
Known(t) ==
    /\ t.bonus > 0 => Commission[t.order] > 0
    /\ t.pc \in Pipeline => Kind[t.order] # "topup"
    /\ t.pc = "quoting" => Kind[t.order] = "chatrenew"
    /\ t.pc # "idle" /\ Kind[t.order] = "wallet" => status[t.order] # "none"
AllKnown == \A w \in Worker : Known(task[w])

\* No order loses its row, and a wallet order gets it from the checkout.
LEMMA PlacedStep ==
  ASSUME TypeOK, AllFunded, AllKnown, [Next]_vars, NEW x \in Order
  PROVE  /\ status[x] # "none" => status'[x] # "none"
         /\ Kind[x] = "wallet" /\ ~Checkout(x) => (status'[x] = "none" <=> status[x] = "none")
<1> DEFINE Stays == /\ status[x] # "none" => status'[x] # "none"
                    /\ Kind[x] = "wallet" /\ ~Checkout(x)
                         => (status'[x] = "none" <=> status[x] = "none")
<1> SUFFICES Stays
  OBVIOUS
<1> USE DEF TypeOK
<1>1. ASSUME UNCHANGED status PROVE Stays
  BY <1>1
<1>2. ASSUME NEW o \in Order, NEW s \in Statuses, status' = [status EXCEPT ![o] = s],
             s # "none", Kind[o] # "wallet" \/ status[o] # "none"
      PROVE  Stays
  BY <1>2
<1>3. ASSUME NEW o \in Order, Checkout(o) PROVE Stays
  BY <1>3 DEF Checkout, MiniApp
<1>4. ASSUME NEW o \in Order,
             \/ PlaceOrder(o) \/ QueueTake(o) \/ Recover(o) \/ TopupApprove(o)
             \/ \E w \in Worker : Approve(w, o)
      PROVE  Stays
  BY <1>2, <1>4 DEF PlaceOrder, QueueTake, Recover, TopupApprove, Approve, Statuses
<1>5. ASSUME NEW w \in Worker,
             \/ CancelCommit(w) \/ RejectCommit(w) \/ BackCommit(w) \/ HandlerWrite(w)
             \/ Commit(w)
      PROVE  Stays
  <2>1. /\ task[w].order \in Order /\ \E s \in Statuses \ {"none"} :
               status' = [status EXCEPT ![task[w].order] = s]
        /\ task[w].pc # "idle"
    BY <1>5 DEF CancelCommit, RejectCommit, BackCommit, HandlerWrite, Commit, Statuses
  <2>2. Kind[task[w].order] # "wallet" \/ status[task[w].order] # "none"
    BY <2>1 DEF AllKnown, Known
  <2> QED BY <1>2, <2>1, <2>2
<1>6. ASSUME NEW o \in Order, UploadReceipt(o) PROVE Stays
  BY <1>6, <1>1 DEF UploadReceipt
<1>7. ASSUME NEW w \in Worker, NEW o \in Order,
             \/ CancelBegin(w, o) \/ BackRead(w, o) \/ ChatBuyBegin(w, o)
             \/ RenewRead(w, o) \/ IpnBegin(w, o) \/ RejectBegin(w, o)
      PROVE  Stays
  BY <1>7, <1>1 DEF CancelBegin, BackRead, ChatBuyBegin, RenewRead, IpnBegin, RejectBegin
<1>8. ASSUME NEW w \in Worker,
             \/ ProvisionBegin(w) \/ RenewPlace(w) \/ RenewRefuse(w) \/ RemoteDone(w)
             \/ RemoteFail(w) \/ ReadReferrer(w) \/ HandlerRead(w) \/ Crash(w)
      PROVE  Stays
  BY <1>8, <1>1 DEF ProvisionBegin, RenewPlace, RenewRefuse, RemoteDone, RemoteFail,
                    ReadReferrer, HandlerRead, Crash
<1>9. ASSUME UNCHANGED vars PROVE Stays
  BY <1>9, <1>1 DEF vars
<1> QED
  BY <1>3, <1>4, <1>5, <1>6, <1>7, <1>8, <1>9 DEF Next, TaskStep

\* Every step keeps what each task knows of its order.
LEMMA KnownStep ==
  ASSUME TypeOK, AllFunded, AllKnown, [Next]_vars PROVE AllKnown'
<1> DEFINE Grown == \A x \in Order : status[x] # "none" => status'[x] # "none"
<1>0. Grown
  BY PlacedStep
<1> HIDE DEF Grown
<1> USE OrdersAssumption DEF TypeOK, AllKnown, Known, Idle, Pipeline
<1>1. ASSUME UNCHANGED task PROVE AllKnown'
  BY <1>0, <1>1 DEF Grown
<1>2. ASSUME NEW w \in Worker, \A v \in Worker \ {w} : task'[v] = task[v], Known(task[w])'
      PROVE  AllKnown'
  BY <1>0, <1>2 DEF Grown
<1>3. ASSUME NEW o \in Order,
             \/ Checkout(o) \/ TopupApprove(o) \/ PlaceOrder(o) \/ UploadReceipt(o)
             \/ Recover(o)
      PROVE  AllKnown'
  BY <1>1, <1>3 DEF Checkout, TopupApprove, PlaceOrder, UploadReceipt, Recover
<1>4. ASSUME NEW w \in Worker, NEW o \in Order,
             \/ CancelBegin(w, o) \/ BackRead(w, o) \/ Approve(w, o) \/ ChatBuyBegin(w, o)
             \/ RenewRead(w, o) \/ IpnBegin(w, o) \/ RejectBegin(w, o)
      PROVE  AllKnown'
  <2>1. /\ \A v \in Worker \ {w} : task'[v] = task[v]
        /\ task'[w].order = o /\ task'[w].bonus = 0
        /\ task'[w].pc \in Pipeline => Kind[o] # "topup"
        /\ task'[w].pc = "quoting" => Kind[o] = "chatrenew"
    BY <1>4 DEF CancelBegin, BackRead, Approve, ChatBuyBegin, RenewRead, IpnBegin,
                RejectBegin, Start
  <2>2. Kind[o] = "wallet" => status[o] # "none"
    BY <1>4 DEF CancelBegin, BackRead, Approve, ChatBuyBegin, RenewRead, IpnBegin, RejectBegin
  <2>3. Known(task[w])'
    BY <1>0, <2>1, <2>2 DEF Grown
  <2> QED BY <1>2, <2>1, <2>3
<1>5. ASSUME NEW o \in Order, QueueTake(o) PROVE AllKnown'
  <2>1. /\ \A v \in Worker \ {ApiLoop} : task'[v] = task[v]
        /\ Known(task[ApiLoop])'
    BY <1>5 DEF QueueTake, Start
  <2> QED BY <1>2, <2>1
<1>6. ASSUME NEW w \in Worker, task[w].pc # "idle", task[w].order \in Order,
             \A v \in Worker \ {w} : task'[v] = task[v],
             task'[w].order = task[w].order, task'[w].bonus = task[w].bonus,
             task'[w].pc \in Pipeline
                 => task[w].pc \in Pipeline \cup {"quoting"} \/ Kind[task[w].order] # "topup",
             task'[w].pc # "quoting"
      PROVE  AllKnown'
  <2>1. Known(task[w])'
    BY <1>0, <1>6 DEF Grown
  <2> QED BY <1>2, <1>6, <2>1
<1>7. ASSUME NEW w \in Worker, task' = [task EXCEPT ![w] = Idle] PROVE AllKnown'
  <2>1. Known(task[w])' /\ \A v \in Worker \ {w} : task'[v] = task[v]
    BY <1>7
  <2> QED BY <1>2, <2>1
<1>8. ASSUME NEW w \in Worker, ProvisionBegin(w) PROVE AllKnown'
  <2>1. Kind[task[w].order] # "topup"
    BY <1>8 DEF ProvisionBegin, AllFunded, Funded, Provisioned
  <2>2. CASE status[task[w].order] \in {"paid", "deleted"}
    BY <1>7, <1>8, <2>2 DEF ProvisionBegin, Finish
  <2>3. CASE status[task[w].order] \notin {"paid", "deleted"}
    <3>1. /\ task[w].pc = "scheduled" /\ task[w].order \in Order
          /\ \A v \in Worker \ {w} : task'[v] = task[v]
          /\ task'[w].order = task[w].order /\ task'[w].bonus = task[w].bonus
          /\ task'[w].pc = "building"
      BY <1>8, <2>3 DEF ProvisionBegin
    <3> QED BY <1>6, <2>1, <3>1
  <2> QED BY <2>2, <2>3
<1>9. ASSUME NEW w \in Worker, RenewPlace(w) \/ RemoteDone(w) PROVE AllKnown'
  <2>1. /\ task[w].pc \in {"quoting", "building"}
        /\ \E pc \in {"building", "built"} : task' = [task EXCEPT ![w].pc = pc]
    BY <1>9 DEF RenewPlace, RemoteDone
  <2> QED BY <1>6, <2>1
<1>10. ASSUME NEW w \in Worker, RemoteFail(w) \/ HandlerRead(w) PROVE AllKnown'
  <2>1. \/ task' = [task EXCEPT ![w] = Idle]
        \/ /\ task[w].pc # "idle"
           /\ \E pc \in {"failing", "marking"} : task' = [task EXCEPT ![w].pc = pc]
    BY <1>10 DEF RemoteFail, HandlerRead, Finish
  <2> QED BY <1>6, <1>7, <2>1
<1>11. ASSUME NEW w \in Worker,
              \/ HandlerWrite(w) \/ CancelCommit(w) \/ BackCommit(w) \/ RejectCommit(w)
              \/ Crash(w) \/ RenewRefuse(w) \/ Commit(w)
       PROVE  AllKnown'
  BY <1>7, <1>11 DEF HandlerWrite, CancelCommit, BackCommit, RejectCommit, Crash,
                     RenewRefuse, Commit, Finish
<1>12. ASSUME NEW w \in Worker, ReadReferrer(w) PROVE AllKnown'
  <2> DEFINE o == task[w].order
             bonus == CommissionOf(o)
  <2>1. bonus \in {0, Commission[o]} /\ o \in Order /\ Commission[o] \in Nat
    BY <1>12 DEF ReadReferrer, CommissionOf
  <2>2. /\ task[w].pc = "built" /\ task'[w].pc = "crediting"
        /\ task'[w].order = o /\ task'[w].bonus = bonus
        /\ \A v \in Worker \ {w} : task'[v] = task[v]
    BY <1>12 DEF ReadReferrer
  <2> HIDE DEF bonus
  <2>3. Known(task[w])'
    BY <1>0, <2>1, <2>2 DEF Grown
  <2> QED BY <1>2, <2>2, <2>3
<1>13. ASSUME UNCHANGED vars PROVE AllKnown'
  BY <1>1, <1>13 DEF vars
<1> QED
  BY <1>3, <1>4, <1>5, <1>8, <1>9, <1>10, <1>11, <1>12, <1>13 DEF Next, TaskStep

\* Who builds a purchase from the wallet of u is alone with it and knows it.
Holders(u) ==
    /\ \A v, w \in Worker : HoldsUser(task[v], u) /\ HoldsUser(task[w], u) => v = w
    /\ \A w \in Worker : HoldsUser(task[w], u) => task[w].seen = wallet[u]

\* What the orders of u took from his wallet, and what those of others gave.
Spent(u) == SumFunctionOnSet([o \in Order |-> Debited(o)], {o \in Order : Owner[o] = u})
Gained(u) == SumFunctionOnSet([o \in Order |-> Earned(o)],
                              {o \in Order : Referrer[Owner[o]] = u})

\* Every debit is an amount, and a protected customer is credited nothing.
LEMMA Amounts ==
  ASSUME TypeOK, NEW o \in Order
  PROVE  Debited(o) \in Int /\ (Commission[o] = 0 => Earned(o) = 0)
<1>1. Price[o] \in Nat /\ delivered[o] \in Nat /\ bonuses[o] \in Nat
  BY OrdersAssumption DEF TypeOK
<1>2. delivered[o] * Price[o] \in Nat /\ bonuses[o] * 0 = 0
  BY <1>1
<1> QED BY <1>1, <1>2 DEF Debited, Earned

\* A step that changes the debit of order y of u alone, and his wallet by as
\* much ...
Debits(u, y) ==
    /\ Owner[y] = u
    /\ \A o \in Order \ {y} : Owner[o] = u => Debited(o)' = Debited(o)
    /\ Debited(y)' \in Int /\ wallet'[u] = wallet[u] - (Debited(y)' - Debited(y))
\* ... and a step that changes neither.
Spares(u) ==
    /\ \A o \in Order : Owner[o] = u => Debited(o)' = Debited(o)
    /\ wallet'[u] = wallet[u]

\* Either keeps the wallet exact.
LEMMA DebitsExact ==
  ASSUME TypeOK, TypeOK', NEW u \in User, Protected(u), ExactFor(u),
         Spares(u) \/ \E y \in Order : Debits(u, y)
  PROVE  ExactFor(u)'
<1> DEFINE D == {o \in Order : Owner[o] = u}
           f == [o \in Order |-> Debited(o)]
           h == [o \in Order |-> Debited(o)']
           R == {o \in Order : Referrer[Owner[o]] = u}
           e == [o \in Order |-> Earned(o)]
           g == [o \in Order |-> Earned(o)']
<1>1. IsFiniteSet(D) /\ IsFiniteSet(R)
  BY OrdersAssumption, FS_Subset
<1>2. \A o \in D : f[o] \in Int
  BY Amounts
<1>3. \A o \in R : e[o] = 0 /\ g[o] = 0
  <2> SUFFICES ASSUME NEW o \in R PROVE Earned(o) = 0 /\ Earned(o)' = 0
    OBVIOUS
  <2>1. Commission[o] = 0 /\ bonuses'[o] \in Nat
    BY DEF Protected, TypeOK
  <2>2. bonuses'[o] * 0 = 0
    BY <2>1
  <2> QED BY <2>1, <2>2, Amounts DEF Earned
<1>4. /\ wallet[u] \in Int /\ Opening[u] \in Int
      /\ wallet[u] = Opening[u] - SumFunctionOnSet(f, D) + SumFunctionOnSet(e, R)
  BY OrdersAssumption DEF ExactFor, TypeOK
<1>5. ExactFor(u)' <=>
        wallet'[u] = Opening[u] - SumFunctionOnSet(h, D) + SumFunctionOnSet(g, R)
  BY DEF ExactFor
<1>6. CASE Spares(u)
  <2>1. \A o \in D : f[o] = h[o]
    BY <1>6 DEF Spares
  <2>2. wallet'[u] = wallet[u]
    BY <1>6 DEF Spares
  <2> HIDE DEF D, f, h, R, e, g
  <2>3. SumFunctionOnSet(f, D) = SumFunctionOnSet(h, D)
    BY <1>1, <2>1, SumAgree
  <2>4. SumFunctionOnSet(e, R) = SumFunctionOnSet(g, R)
    BY <1>1, <1>3, SumAgree
  <2> QED BY <1>4, <1>5, <2>2, <2>3, <2>4
<1>7. ASSUME NEW y \in Order, Debits(u, y) PROVE ExactFor(u)'
  <2>1. /\ y \in D /\ \A o \in D \ {y} : f[o] = h[o]
        /\ h[y] \in Int /\ wallet'[u] = wallet[u] - (h[y] - f[y])
    BY <1>7 DEF Debits
  <2> HIDE DEF D, f, h, R, e, g
  <2>2. \A o \in D : f[o] \in Int /\ h[o] \in Int
    BY <1>2, <2>1
  <2>3. SumFunctionOnSet(h, D) = SumFunctionOnSet(f, D) + (h[y] - f[y])
    BY <1>1, <2>1, <2>2, SumChange
  <2>4. SumFunctionOnSet(e, R) = SumFunctionOnSet(g, R) /\ SumFunctionOnSet(e, R) \in Int
    BY <1>1, <1>3, SumAgree, SumType
  <2>5. SumFunctionOnSet(f, D) \in Int
    BY <1>1, <1>2, SumType
  <2> QED BY <1>4, <1>5, <2>1, <2>2, <2>3, <2>4, <2>5
<1> QED BY <1>6, <1>7

\* A step of w that claims no wallet keeps the claims on u's, if that changes
\* only when nobody claims it any more.
LEMMA HoldersKept ==
  ASSUME NEW u \in User, Holders(u), NEW w \in Worker,
         \A v \in Worker \ {w} : task'[v] = task[v],
         HoldsUser(task[w], u)' => HoldsUser(task[w], u) /\ task'[w].seen = task[w].seen,
         wallet'[u] = wallet[u] \/ \A v \in Worker : ~HoldsUser(task[v], u)'
  PROVE  Holders(u)'
<1>1. \A v \in Worker : HoldsUser(task[v], u)' =>
          HoldsUser(task[v], u) /\ task'[v].seen = task[v].seen
  BY DEF HoldsUser
<1> QED BY <1>1 DEF Holders

\* A debit changes only with the checkout or the delivery of its order.
LEMMA SameDebit ==
  ASSUME TypeOK, AllFunded, AllKnown, [Next]_vars, NEW x \in Order, ~Checkout(x),
         \/ delivered'[x] = delivered[x]
         \/ Kind[x] # "topup" /\ ~PaysFromSeen(x)
  PROVE  Debited(x)' = Debited(x)
<1>1. Kind[x] = "wallet" => (status'[x] = "none" <=> status[x] = "none")
  BY PlacedStep
<1> QED BY <1>1 DEF Debited, PaysFromSeen

\* The checkout debits the price it has compared with the locked balance.
LEMMA CheckoutExact ==
  ASSUME NEW u \in User, TypeOK, Holders(u), NEW o \in Order, Checkout(o)
  PROVE  Holders(u)' /\ (Spares(u) \/ \E y \in Order : Debits(u, y))
<1> USE OrdersAssumption DEF TypeOK
<1>1. UNCHANGED <<task, delivered>> /\ UserLockable(Owner[o])
  BY DEF Checkout
<1>2. \A x \in Order \ {o} : Debited(x)' = Debited(x)
  <2>1. \A x \in Order \ {o} : status'[x] = status[x]
    BY DEF Checkout
  <2> QED BY <1>1, <2>1 DEF Debited
<1>3. Owner[o] # u => wallet'[u] = wallet[u]
  BY DEF Checkout
<1>4. Holders(u)'
  <2>1. Owner[o] = u => \A v \in Worker : ~HoldsUser(task[v], u)
    BY <1>1 DEF UserLockable, UserUnlocked
  <2> QED BY <1>1, <1>3, <2>1 DEF Holders, HoldsUser
<1>5. CASE Owner[o] # u
  BY <1>2, <1>3, <1>4, <1>5 DEF Spares
<1>6. CASE Owner[o] = u /\ Kind[o] = "wallet"
  <2>1. /\ status[o] = "none" /\ status'[o] = "miniapp_queued"
        /\ wallet'[u] = wallet[u] - Price[o] /\ Price[o] \in Nat /\ wallet[u] \in Int
    BY <1>6 DEF Checkout
  <2>2. Debited(o) = 0 /\ Debited(o)' = Price[o]
    BY <1>6, <2>1 DEF Debited, PaysFromSeen
  <2>3. Debits(u, o)
    BY <1>2, <1>6, <2>1, <2>2 DEF Debits
  <2> QED BY <1>4, <2>3
<1>7. CASE Owner[o] = u /\ Kind[o] # "wallet"
  <2>1. Kind[o] = "card" /\ wallet' = wallet
    BY <1>7 DEF Checkout, MiniApp
  <2>2. Debited(o) = 0 /\ Debited(o)' = 0
    BY <2>1 DEF Debited, PaysFromSeen
  <2> QED BY <1>2, <1>4, <2>1, <2>2 DEF Spares
<1> QED BY <1>5, <1>6, <1>7

\* One delivery more at the same price.
LEMMA OneMore ==
  \A n, p \in Nat : (n + 1) * p = n * p + p /\ n * p \in Nat
  OBVIOUS

\* A top-up credits its amount under the lock of the buyer.
LEMMA TopupExact ==
  ASSUME NEW u \in User, TypeOK, Holders(u), NEW o \in Order, TopupApprove(o)
  PROVE  Holders(u)' /\ (Spares(u) \/ \E y \in Order : Debits(u, y))
<1> USE OrdersAssumption DEF TypeOK
<1>1. /\ UNCHANGED task /\ UserLockable(Owner[o]) /\ Kind[o] = "topup"
      /\ wallet' = [wallet EXCEPT ![Owner[o]] = @ + Price[o]]
      /\ delivered' = [delivered EXCEPT ![o] = @ + 1]
      /\ status' = [status EXCEPT ![o] = "paid"]
  BY DEF TopupApprove
<1>2. \A x \in Order \ {o} : Debited(x)' = Debited(x)
  BY <1>1 DEF Debited
<1>3. Owner[o] # u => wallet'[u] = wallet[u]
  BY <1>1
<1>4. Holders(u)'
  <2>1. Owner[o] = u => \A v \in Worker : ~HoldsUser(task[v], u)
    BY <1>1 DEF UserLockable, UserUnlocked
  <2> QED BY <1>1, <1>3, <2>1 DEF Holders, HoldsUser
<1>5. CASE Owner[o] # u
  BY <1>2, <1>3, <1>4, <1>5 DEF Spares
<1>6. CASE Owner[o] = u
  <2>1. /\ wallet'[u] = wallet[u] + Price[o] /\ Price[o] \in Nat /\ wallet[u] \in Int
        /\ delivered'[o] = delivered[o] + 1 /\ delivered[o] \in Nat
    BY <1>1, <1>6
  <2>2. /\ Debited(o) = -(delivered[o] * Price[o])
        /\ Debited(o)' = -((delivered[o] + 1) * Price[o])
    BY <1>1, <2>1 DEF Debited, PaysFromSeen
  <2>3. (delivered[o] + 1) * Price[o] = delivered[o] * Price[o] + Price[o]
        /\ delivered[o] * Price[o] \in Nat
    BY <2>1, OneMore
  <2>4. Debited(o)' \in Int /\ Debited(o)' - Debited(o) = -Price[o]
    BY <2>1, <2>2, <2>3
  <2>5. Debits(u, o)
    BY <1>2, <1>6, <2>1, <2>4 DEF Debits
  <2> QED BY <1>4, <2>5
<1> QED BY <1>5, <1>6

\* A delivery debits what was read under the lock of the buyer, and credits
\* nobody that is protected.
LEMMA CommitExact ==
  ASSUME NEW u \in User, Protected(u), TypeOK, AllFunded, AllKnown, Holders(u), [Next]_vars,
         \A x \in Order : ~Checkout(x), NEW w \in Worker, Commit(w)
  PROVE  Holders(u)' /\ (Spares(u) \/ \E y \in Order : Debits(u, y))
<1>0. PICK o \in Order : task[w].order = o
  BY DEF Commit, TypeOK
<1>1. /\ task[w].pc = "crediting" /\ task[w].order = o /\ wallet' = WalletAfter(task[w])
      /\ delivered' = [delivered EXCEPT ![o] = @ + 1]
      /\ task' = [task EXCEPT ![w] = Idle]
  BY <1>0 DEF Commit, Finish, TypeOK
<1>2. /\ Owner[o] \in User /\ Referrer[Owner[o]] # Owner[o] /\ Price[o] \in Nat
      /\ delivered[o] \in Nat /\ wallet[u] \in Int /\ task[w].bonus \in Nat
  BY <1>1, OrdersAssumption DEF TypeOK
<1>3. Known(task[w]) /\ Kind[o] # "topup"
  BY <1>1 DEF AllKnown, Known, Pipeline
<1>4. Referrer[Owner[o]] = u => ~(task[w].bonus > 0)
  <2>1. Referrer[Owner[o]] = u => Commission[o] = 0
    BY <1>1 DEF Protected
  <2> QED BY <1>1, <1>2, <1>3, <2>1 DEF Known
<1>5. \A x \in Order \ {o} : Debited(x)' = Debited(x)
  BY <1>1, SameDebit DEF TypeOK
<1>6. task'[w] = Idle /\ \A v \in Worker \ {w} : task'[v] = task[v]
  BY <1>1 DEF TypeOK
<1>7. ~HoldsUser(task[w], u)'
  BY <1>6 DEF HoldsUser, Idle, Pipeline
<1>8. CASE ~(Owner[o] = u /\ PaysFromSeen(o))
  <2>1. wallet'[u] = wallet[u]
    BY <1>1, <1>2, <1>4, <1>8 DEF WalletAfter
  <2>2. ASSUME Owner[o] = u PROVE Debited(o)' = Debited(o)
    <3>1. Kind[o] # "topup" /\ ~PaysFromSeen(o) /\ ~Checkout(o)
      BY <1>1, <1>3, <1>8, <2>2
    <3> QED BY <1>1, <3>1, SameDebit
  <2>3. Spares(u)
    BY <1>5, <2>1, <2>2 DEF Spares
  <2>4. Holders(u)'
    BY <1>6, <1>7, <2>1, HoldersKept
  <2> QED BY <2>3, <2>4
<1>9. CASE Owner[o] = u /\ PaysFromSeen(o)
  <2>1. Kind[o] = "chatwallet"
    BY <1>1, <1>9 DEF Protected, PaysFromSeen
  <2>2. HoldsUser(task[w], u)
    BY <1>1, <1>9, <2>1 DEF HoldsUser, Pipeline
  <2>3. task[w].seen = wallet[u] /\ \A v \in Worker \ {w} : ~HoldsUser(task[v], u)
    BY <2>2 DEF Holders
  <2>4. Referrer[Owner[o]] # u
    BY <1>2, <1>9
  <2>5. wallet'[u] = IF Price[o] > 0 THEN wallet[u] - Price[o] ELSE wallet[u]
    BY <1>1, <1>9, <2>3, <2>4 DEF WalletAfter
  <2>6. wallet'[u] = wallet[u] - Price[o]
    BY <1>2, <2>5
  <2>7. /\ Debited(o) = delivered[o] * Price[o]
        /\ Debited(o)' = (delivered[o] + 1) * Price[o]
    <3>1. delivered'[o] = delivered[o] + 1
      BY <1>1 DEF TypeOK
    <3> QED BY <2>1, <3>1 DEF Debited, PaysFromSeen
  <2>8. Debited(o)' \in Int /\ Debited(o)' - Debited(o) = Price[o]
    BY <1>2, <2>7, OneMore
  <2>9. Debits(u, o)
    BY <1>5, <1>9, <2>6, <2>8 DEF Debits
  <2>10. \A v \in Worker : ~HoldsUser(task[v], u)'
    BY <1>6, <1>7, <2>3 DEF HoldsUser
  <2>11. Holders(u)'
    BY <2>10 DEF Holders
  <2> QED BY <1>1, <2>9, <2>11
<1> QED BY <1>8, <1>9

\* No other step moves money: it starts a task that finds the wallet unlocked,
\* goes on with it, or ends it.
LEMMA OthersExact ==
  ASSUME NEW u \in User, Protected(u), TypeOK, AllFunded, AllKnown, Holders(u), [Next]_vars,
         \A x \in Order : ~Checkout(x) /\ ~TopupApprove(x), \A w \in Worker : ~Commit(w)
  PROVE  Holders(u)' /\ Spares(u)
<1> DEFINE Exact == Holders(u)' /\ Spares(u)
<1> SUFFICES Exact
  OBVIOUS
<1> USE OrdersAssumption DEF Idle, Pipeline
<1>1. ASSUME UNCHANGED <<wallet, delivered>> PROVE Spares(u)
  BY <1>1, SameDebit DEF Spares
<1>2. ASSUME NEW w \in Worker, \A v \in Worker \ {w} : task'[v] = task[v],
             HoldsUser(task[w], u)' => HoldsUser(task[w], u) /\ task'[w].seen = task[w].seen,
             UNCHANGED <<wallet, delivered>>
      PROVE  Exact
  BY <1>1, <1>2, HoldersKept
<1>3. ASSUME UNCHANGED <<task, wallet, delivered>> PROVE Exact
  BY <1>1, <1>3 DEF Holders, HoldsUser
<1>4. ASSUME NEW o \in Order, PlaceOrder(o) \/ UploadReceipt(o) \/ Recover(o) PROVE Exact
  BY <1>3, <1>4 DEF PlaceOrder, UploadReceipt, Recover, moneyVars
<1>5. ASSUME NEW w \in Worker, NEW o \in Order,
             \/ CancelBegin(w, o) \/ BackRead(w, o) \/ Approve(w, o) \/ RenewRead(w, o)
             \/ IpnBegin(w, o) \/ RejectBegin(w, o)
      PROVE  Exact
  <2>1. /\ UNCHANGED <<wallet, delivered>> /\ \A v \in Worker \ {w} : task'[v] = task[v]
        /\ task'[w].order = o /\ (task'[w].pc \in Pipeline => Kind[o] = "crypto")
    BY <1>5 DEF CancelBegin, BackRead, Approve, RenewRead, IpnBegin, RejectBegin, Start,
                moneyVars, TypeOK
  <2>2. ~HoldsUser(task[w], u)'
    BY <2>1 DEF HoldsUser
  <2> QED BY <1>2, <2>1, <2>2
<1>6. ASSUME NEW o \in Order, QueueTake(o) PROVE Exact
  <2>1. /\ UNCHANGED <<wallet, delivered>> /\ \A v \in Worker \ {ApiLoop} : task'[v] = task[v]
        /\ task'[ApiLoop].pc = "scheduled"
    BY <1>6 DEF QueueTake, Start, moneyVars, TypeOK
  <2>2. ~HoldsUser(task[ApiLoop], u)'
    BY <2>1 DEF HoldsUser
  <2> QED BY <1>2, <2>1, <2>2
<1>7. ASSUME NEW w \in Worker, NEW o \in Order, ChatBuyBegin(w, o) PROVE Exact
  <2>1. /\ UNCHANGED <<wallet, delivered>> /\ \A v \in Worker \ {w} : task'[v] = task[v]
        /\ task'[w].order = o /\ task'[w].seen = wallet[Owner[o]] /\ UserLockable(Owner[o])
    BY <1>7 DEF ChatBuyBegin, Start, moneyVars, TypeOK
  <2>2. CASE Owner[o] # u
    <3>1. ~HoldsUser(task[w], u)'
      BY <2>1, <2>2 DEF HoldsUser
    <3> QED BY <1>2, <2>1, <3>1
  <2>3. CASE Owner[o] = u
    <3>1. \A v \in Worker \ {w} : ~HoldsUser(task[v], u)'
      BY <2>1, <2>3 DEF UserLockable, UserUnlocked, HoldsUser
    <3>2. task'[w].seen = wallet'[u]
      BY <2>1, <2>3
    <3>3. Holders(u)'
      BY <3>1, <3>2 DEF Holders
    <3> QED BY <1>1, <2>1, <3>3
  <2> QED BY <2>2, <2>3
<1>8. ASSUME NEW w \in Worker, ProvisionBegin(w) \/ RenewPlace(w) PROVE Exact
  <2>1. Kind[task[w].order] # "chatwallet"
    BY <1>8 DEF ProvisionBegin, RenewPlace, AllFunded, Funded, Provisioned, AllKnown, Known
  <2>2. /\ UNCHANGED <<wallet, delivered>> /\ \A v \in Worker \ {w} : task'[v] = task[v]
        /\ task'[w] = Idle \/ task'[w].order = task[w].order
    BY <1>8 DEF ProvisionBegin, RenewPlace, Finish, moneyVars, TypeOK
  <2>3. ~HoldsUser(task[w], u)'
    BY <2>1, <2>2 DEF HoldsUser
  <2> QED BY <1>2, <2>2, <2>3
<1>9. ASSUME NEW w \in Worker, RemoteDone(w) \/ ReadReferrer(w) PROVE Exact
  <2>1. /\ UNCHANGED <<wallet, delivered>> /\ \A v \in Worker \ {w} : task'[v] = task[v]
        /\ task[w].pc \in Pipeline /\ task'[w].order = task[w].order
        /\ task'[w].seen = task[w].seen
    BY <1>9 DEF RemoteDone, ReadReferrer, moneyVars, TypeOK
  <2>2. HoldsUser(task[w], u)' => HoldsUser(task[w], u)
    BY <2>1 DEF HoldsUser
  <2> QED BY <1>2, <2>1, <2>2
<1>10. ASSUME NEW w \in Worker, RemoteFail(w) \/ HandlerRead(w) PROVE Exact
  <2>1. /\ UNCHANGED <<wallet, delivered>> /\ \A v \in Worker \ {w} : task'[v] = task[v]
        /\ task'[w].pc \in {"idle", "failing", "marking"}
    BY <1>10 DEF RemoteFail, HandlerRead, Finish, moneyVars, TypeOK
  <2>2. ~HoldsUser(task[w], u)'
    BY <2>1 DEF HoldsUser
  <2> QED BY <1>2, <2>1, <2>2
<1>11. ASSUME NEW w \in Worker,
              \/ HandlerWrite(w) \/ CancelCommit(w) \/ BackCommit(w) \/ RejectCommit(w)
              \/ Crash(w) \/ RenewRefuse(w)
       PROVE  Exact
  <2>1. UNCHANGED <<wallet, delivered>> /\ task' = [task EXCEPT ![w] = Idle]
    BY <1>11 DEF HandlerWrite, CancelCommit, BackCommit, RejectCommit, Crash, RenewRefuse,
                 Finish, moneyVars
  <2>2. task'[w] = Idle /\ \A v \in Worker \ {w} : task'[v] = task[v]
    BY <2>1 DEF TypeOK
  <2>3. ~HoldsUser(task[w], u)'
    BY <2>2 DEF HoldsUser
  <2> QED BY <1>2, <2>1, <2>2, <2>3
<1>12. ASSUME UNCHANGED vars PROVE Exact
  BY <1>3, <1>12 DEF vars
<1> QED
  BY <1>4, <1>5, <1>6, <1>7, <1>8, <1>9, <1>10, <1>11, <1>12 DEF Next, TaskStep

\* Every step keeps the wallet of a protected customer exact.
LEMMA ExactStep ==
  ASSUME NEW u \in User, Protected(u)
  PROVE  /\ TypeOK /\ TypeOK' /\ AllFunded /\ AllKnown /\ Holders(u) /\ ExactFor(u)
         /\ [Next]_vars
         => Holders(u)' /\ ExactFor(u)'
<1> SUFFICES ASSUME TypeOK, TypeOK', AllFunded, AllKnown, Holders(u), ExactFor(u), [Next]_vars
             PROVE  Holders(u)' /\ ExactFor(u)'
  OBVIOUS
<1>1. Holders(u)' /\ (Spares(u) \/ \E y \in Order : Debits(u, y))
  <2>1. CASE \E o \in Order : Checkout(o)
    BY <2>1, CheckoutExact
  <2>2. CASE \E o \in Order : TopupApprove(o)
    BY <2>2, TopupExact
  <2>3. CASE (\A x \in Order : ~Checkout(x)) /\ \E w \in Worker : Commit(w)
    BY <2>3, CommitExact
  <2>4. CASE /\ \A x \in Order : ~Checkout(x) /\ ~TopupApprove(x)
             /\ \A w \in Worker : ~Commit(w)
    BY <2>4, OthersExact
  <2> QED BY <2>1, <2>2, <2>3, <2>4
<1> QED BY <1>1, DebitsExact

\* The wallet of every protected customer is exact, and who is to debit it is
\* alone with it.
ProtectedExact == \A u \in User : Protected(u) => ExactFor(u)
ProtectedHeld == \A u \in User : Protected(u) => Holders(u)
ExactInv == NoOverdraft /\ AllFunded /\ AllKnown /\ ProtectedHeld /\ ProtectedExact

\* Nothing has been bought, topped up or earned at the start.
LEMMA ExactInit == Init => ExactInv
<1> SUFFICES ASSUME Init PROVE ExactInv
  OBVIOUS
<1>1. NoOverdraft /\ AllFunded /\ AllKnown /\ ProtectedHeld
  BY OrdersAssumption DEF Init, NoOverdraft, AllFunded, Funded, AllKnown, Known, ProtectedHeld,
                          Holders, HoldsUser, Idle, Pipeline
<1>2. ASSUME NEW u \in User PROVE ExactFor(u)
  <2> DEFINE D == {o \in Order : Owner[o] = u}
             f == [o \in Order |-> Debited(o)]
             R == {o \in Order : Referrer[Owner[o]] = u}
             e == [o \in Order |-> Earned(o)]
  <2>1. IsFiniteSet(D) /\ IsFiniteSet(R)
    BY OrdersAssumption, FS_Subset
  <2>2. \A o \in Order : Price[o] \in Nat /\ Commission[o] \in Nat
    BY OrdersAssumption
  <2>3. \A n \in Nat : 0 * n = 0
    OBVIOUS
  <2>4. (\A o \in D : f[o] = 0) /\ \A o \in R : e[o] = 0
    BY <2>2, <2>3 DEF Init, Debited, Earned
  <2>5. wallet[u] = Opening[u] /\ Opening[u] \in Int
    BY OrdersAssumption DEF Init
  <2>6. ExactFor(u) <=> wallet[u] = Opening[u] - SumFunctionOnSet(f, D) + SumFunctionOnSet(e, R)
    BY DEF ExactFor
  <2> HIDE DEF D, f, R, e
  <2>7. SumFunctionOnSet(f, D) = 0 /\ SumFunctionOnSet(e, R) = 0
    BY <2>1, <2>4, SumZero
  <2> QED BY <2>5, <2>6, <2>7
<1> QED BY <1>1, <1>2 DEF ExactInv, ProtectedExact

\* Every step keeps that.
LEMMA ExactKept == TypeOK /\ SeenCount /\ ExactInv /\ [Next]_vars => ExactInv'
<1> SUFFICES ASSUME TypeOK, SeenCount, ExactInv, [Next]_vars PROVE ExactInv'
  OBVIOUS
<1>1. TypeOK' /\ NoOverdraft' /\ AllFunded' /\ AllKnown'
  BY TypeStep, FundStep, KnownStep DEF ExactInv
<1>2. ASSUME NEW u \in User, Protected(u) PROVE Holders(u)' /\ ExactFor(u)'
  <2>1. Holders(u) /\ ExactFor(u) /\ AllFunded /\ AllKnown
    BY <1>2 DEF ExactInv, ProtectedHeld, ProtectedExact
  <2> QED BY <1>1, <1>2, <2>1, ExactStep
<1>3. ProtectedHeld' /\ ProtectedExact'
  BY <1>2 DEF ProtectedHeld, ProtectedExact, Protected
<1> QED BY <1>1, <1>3 DEF ExactInv

\* The wallet of a customer that earns no commission and renews nothing in the
\* chat moves by exactly what he topped up and bought, whatever the tasks of
\* all others do to theirs.
THEOREM WalletKept == Spec => []ProtectedExact
<1>1. /\ TypeOK /\ SeenCount /\ ExactInv /\ [Next]_vars
      => (TypeOK /\ SeenCount /\ ExactInv)'
  BY TypeStep, ExactKept
<1>2. ExactInv => ProtectedExact
  BY DEF ExactInv
<1> QED BY <1>1, <1>2, TypeInit, ExactInit, PTL DEF Spec

\* If that is true of every customer, every wallet is exact.
THEOREM WalletsExact ==
  ASSUME \A u \in User : Protected(u)
  PROVE  Spec => []WalletExact
<1>1. ProtectedExact => WalletExact
  BY DEF ProtectedExact, WalletExact
<1> QED BY <1>1, WalletKept, PTL
=============================================================================

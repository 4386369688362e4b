------------------------------ MODULE BuyOnce ------------------------------
(***************************************************************************)
(* What the checkout of the mini app promises a buyer of one plan: while   *)
(* an order of his is open he cannot place another one, however often he   *)
(* asks, and his tab keeps track of it.  Only trouble (a tab that is       *)
(* closed, a failed or late answer, a request carried out after it was     *)
(* given up) makes the tab lose the order.                                 *)
(***************************************************************************)
EXTENDS Naturals, Sequences

VARIABLES
    book,       \* what became of each order of the plan, in their order
    trouble     \* something went wrong that can make the tab lose an order

Open == {o \in DOMAIN book : book[o] = "open"}

Init == book = <<>> /\ trouble = FALSE

Enter == Open = {} /\ book' = Append(book, "open")

Place == Enter /\ UNCHANGED trouble

Settle ==
    /\ \E o \in DOMAIN book : book' = [book EXCEPT ![o] = "settled"]
    /\ UNCHANGED trouble

\* The tab loses its open order, or finds a lost one again; a request that
\* was given up is carried out.
Astray ==
    /\ trouble' = TRUE
    /\ \/ UNCHANGED book \/ Enter
       \/ book' = Append(book, "forgotten")
       \/ /\ DOMAIN book' = DOMAIN book
          /\ \A o \in DOMAIN book :
                book'[o] # book[o] => {book[o], book'[o]} = {"open", "forgotten"}

Next == Place \/ Settle \/ Astray

Spec == Init /\ [][Next]_<<book, trouble>>
=============================================================================

------------------------------ MODULE MCOrders ------------------------------
(* The instances of Orders that TLC checks. *)
EXTENDS Orders, TLC

CONSTANTS u1, u2, api, b1, b2, o1, o2, o3, o4

CardOpening == [u \in User |-> 0]
NoReferrer == [u \in User |-> NoUser]
Bots == {api, b1, b2}

\* Two Mini App card orders of one customer.
CardOwner == [o \in Order |-> u1]
CardKind == [o \in Order |-> "card"]
CardPrice == [o \in Order |-> 2]
CardCommission == [o \in Order |-> 0]

\* One customer pays from his wallet in the Mini App and in the chat, and
\* tops it up meanwhile.
WalletKind == (o1 :> "wallet") @@ (o2 :> "chatwallet") @@ (o3 :> "topup")
WalletPrice == (o1 :> 2) @@ (o2 :> 2) @@ (o3 :> 1)
WalletOpening == [u \in User |-> 3]

\* The purchases of the chat: a card order with its back button, a renewal
\* from the wallet, a cryptocurrency payment.
ChatKind == (o1 :> "chatcard") @@ (o2 :> "chatrenew") @@ (o3 :> "crypto")
ChatOwner == (o1 :> u1) @@ (o2 :> u1) @@ (o3 :> u2)
ChatReferrer == (u1 :> NoUser) @@ (u2 :> u1)
ChatCommission == [o \in Order |-> 1]

\* A customer buys from his wallet while the purchase of somebody he invited
\* pays him a commission.
ReferralKind == (o1 :> "wallet") @@ (o2 :> "chatcard") @@ (o3 :> "topup")
ReferralOwner == (o1 :> u1) @@ (o2 :> u2) @@ (o3 :> u1)
=============================================================================

----------------------------- MODULE MCFrontend -----------------------------
(***************************************************************************)
(* Frontend for TLC.  One sitting at the checkout does what one visit      *)
(* allows.  Of the texts, two English ones have one translation, one is    *)
(* translated by a rule without an inverse (gb), and one is the same in    *)
(* both languages (xray).                                                  *)
(***************************************************************************)
EXTENDS Frontend, TLC

CONSTANTS save, store, zakhire, gb, gig, xray

MCVisits ==
    { {"card", "wallet"}, {"card", "header"}, {"card", "tracking"}, {"card", "reload"},
      {"wallet", "tracking", "header", "review"}, {"wallet", "reload", "tracking"},
      {"wallet", "on"} }
TrackedVisits == { {"wallet", "tracking"} }

MCEnFa == save :> zakhire @@ store :> zakhire @@ gb :> gig @@ xray :> xray
MCFaEn == zakhire :> store @@ xray :> xray
=============================================================================

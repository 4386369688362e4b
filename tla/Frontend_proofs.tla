--------------------------- MODULE Frontend_proofs ---------------------------
(***************************************************************************)
(* The pages together: the checkout of the mini app buys once, and the     *)
(* panel shows its texts, whichever page the tab was opened at.            *)
(***************************************************************************)
EXTENDS Frontend, MiniAppCheckout_proofs, UiLanguage_proofs

IInv == page \in {"miniapp", "panel"} /\ CheckoutInv /\ LanguageInv

\* A step is one of the page that is open, and leaves the other alone.
LEMMA StepIInv == IInv /\ [Next]_vars => IInv' /\ Implements
  <1> SUFFICES ASSUME IInv, [Next]_vars
               PROVE  IInv' /\ Implements
    OBVIOUS
  <1>1. page' = page /\ [CheckoutNext]_checkoutVars /\ [LanguageNext]_languageVars
    BY DEF Next, vars
  <1>2. CheckoutInv' /\ Implements
    BY <1>1, CheckoutStep DEF IInv
  <1>3. LanguageInv'
    BY <1>1, LanguageStep DEF IInv
  <1> QED  BY <1>1, <1>2, <1>3 DEF IInv

\* Every page starts as its own module says.
LEMMA InitIInv == Init => IInv /\ B!Init
  BY CheckoutInvInit, BookInit, LanguageInvInit DEF Init, IInv

LEMMA Invariant == Spec => []IInv
  <1>1. IInv /\ [Next]_vars => IInv'
    BY StepIInv
  <1> QED  BY <1>1, InitIInv, PTL DEF Spec

\* The types: in particular keys and orders stay within their bounds, and a
\* request names an order that exists or none.
THEOREM Types == Spec => []TypeOK
  <1>1. IInv => TypeOK
    BY DEF IInv, CheckoutInv, LanguageInv, TypeOK
  <1> QED  BY <1>1, Invariant, PTL

\* The engine has translated every text of the panel when it is idle.
THEOREM ShowsTexts == Spec => []TextsShown
  <1>1. IInv => TextsShown
    BY LanguageInvShows DEF IInv
  <1> QED  BY <1>1, Invariant, PTL

\* The checkout of the mini app implements BuyOnce: without trouble no second
\* order is placed while one is open, and the tab knows the one that is.
THEOREM Buys == Spec => BuysOnce
  <1>1. IInv /\ [Next]_vars => [B!Next]_<<Book, trouble>>
    BY StepIInv DEF Implements
  <1> QED  BY <1>1, InitIInv, Invariant, PTL DEF Spec, BuysOnce, B!Spec
=============================================================================

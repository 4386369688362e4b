------------------------------ MODULE Frontend ------------------------------
(***************************************************************************)
(* The pages of the web application besides the panel's own sections: the  *)
(* checkout of the mini app, and the language engine that layout.tsx puts  *)
(* around every page (the mini app excludes itself).                       *)
(***************************************************************************)
EXTENDS MiniAppCheckout, UiLanguage

VARIABLE page       \* what the tab was opened at

vars == <<page, checkoutVars, languageVars>>

Init ==
    /\ page \in {"miniapp", "panel"} /\ CheckoutInit /\ LanguageInit
    /\ page = "panel" => visit = CHOOSE v \in Visits : TRUE

Next ==
    /\ UNCHANGED page
    /\ \/ page = "miniapp" /\ CheckoutNext /\ UNCHANGED languageVars
       \/ page = "panel" /\ LanguageNext /\ UNCHANGED checkoutVars

Spec == Init /\ [][Next]_vars /\ CheckoutFairness

\* The type invariant.
TypeOK == page \in {"miniapp", "panel"} /\ CheckoutTypeOK /\ LanguageTypeOK
=============================================================================

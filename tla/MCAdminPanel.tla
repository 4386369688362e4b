---------------------------- MODULE MCAdminPanel ----------------------------
(***************************************************************************)
(* AdminPanel for TLC.  A behaviour visits the sections of one tour only,  *)
(* so that the state space is the sum, not the product, of the sections'.  *)
(***************************************************************************)
EXTENDS AdminPanel

MCTours ==
    { {"users", "dashboard", "expiry"}, {"discounts", "forms", "expiry"},
      {"discounts", "users"}, {"resellers", "forms", "expiry"}, {"servers", "plans", "forms", "expiry"},
      {"servers", "rows", "expiry"}, {"plans", "orders", "expiry"},
      {"categories", "orders"}, {"service-types", "orders", "expiry"},
      {"connection", "expiry"}, {"backup", "expiry"}, {"test-account", "expiry"},
      {"custom", "typing", "filters"}, {"custom", "typing", "resets"},
      {"custom", "expiry"} }
=============================================================================

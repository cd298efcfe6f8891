----------------------------- MODULE MCAIPlayer -----------------------------
(***************************************************************************)
(* Two players, the cards of two roles, two orders of the dictionary.      *)
(***************************************************************************)
EXTENDS AIPlayer
TwoOrders == {<<"income", "foreignAid", "tax", "steal", "assassinate", "exchange">>,
              <<"steal", "exchange", "assassinate", "foreignAid", "income", "tax">>}
=============================================================================

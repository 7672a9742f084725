--------------------------- MODULE MCCardFatura ---------------------------
(***************************************************************************)
(* Small instances of CardFatura: months of two and one days, so that a    *)
(* closing day of 2 is clamped in the second, and a search that gives up   *)
(* after one closed fatura.                                                *)
(***************************************************************************)
EXTENDS CardFatura, TLC

Lengths == [m \in BillMonths |-> IF m = 2 THEN 1 ELSE 2]
Early   == {[month |-> 1, day |-> 2], [month |-> 2, day |-> 1]}
OneBuy  == {[total |-> 3, count |-> 2]}
=============================================================================

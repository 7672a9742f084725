----------------------- MODULE MCCardBillPayment -----------------------
(***************************************************************************)
(* Small instances of CardBillPayment.  Members, accounts, amounts, drafts *)
(* and keys are interchangeable; row ids and tags are picked by CHOOSE, so *)
(* they are numbered and not symmetric.                                    *)
(***************************************************************************)
EXTENDS CardBillPayment, TLC

Symmetry == Permutations(Members) \cup Permutations(Accounts)
            \cup Permutations(Amounts) \cup Permutations(Drafts)
            \cup Permutations(Keys)
=============================================================================

---------------------- MODULE MCInstallmentPurchase ----------------------
EXTENDS InstallmentPurchase, TLC

Symmetry == Permutations(Keys) \cup Permutations(Members) \cup Permutations(Months)
            \cup Permutations(Categories)
=============================================================================

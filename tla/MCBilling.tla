------------------------------ MODULE MCBilling ------------------------------
EXTENDS Billing, TLC

Plans == Permutations(Paid)
=============================================================================

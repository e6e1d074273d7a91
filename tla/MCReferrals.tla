------------------------------ MODULE MCReferrals ------------------------------
(* Two referred users who pay with the same document. *)
EXTENDS Referrals

MCDocumentOf == [r \in Referral |-> CHOOSE d \in Document : TRUE]
=============================================================================

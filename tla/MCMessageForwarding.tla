------------------------ MODULE MCMessageForwarding ------------------------
EXTENDS MessageForwarding, TLC

CONSTANTS m1, d1, d2

Groups == Permutations({d1, d2})
=============================================================================

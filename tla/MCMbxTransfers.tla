-------------------------- MODULE MCMbxTransfers --------------------------
EXTENDS MbxTransfers

OneObject == {<<1, 1>>}
============================================================================

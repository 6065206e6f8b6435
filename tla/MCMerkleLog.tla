----------------------------- MODULE MCMerkleLog ------------------------------
\* Model-checking instance of MerkleLog: two events, logs of up to six.
EXTENDS MerkleLog
===============================================================================

----------------------- MODULE MCAllocationReceipts -----------------------
(* Two issuers, one asked twice, and a bank with room for two births.      *)
EXTENDS AllocationReceipts

CONSTANTS i1, i2

MCIssuers == {i1, i2}
MCMaxNonce == [i \in MCIssuers |-> IF i = i1 THEN 2 ELSE 1]
=============================================================================

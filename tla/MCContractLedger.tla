-------------------------- MODULE MCContractLedger --------------------------
(* ContractLedger on two sets of terms, the second with no deposit. *)
EXTENDS ContractLedger

MCDeals == {[price |-> 5, deposit |-> 2, count |-> 2],
            [price |-> 2, deposit |-> 0, count |-> 1]}
MCStartOffsets == {-2, 0}
=============================================================================

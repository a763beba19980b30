-------------------------------- MODULE Books --------------------------------
(***************************************************************************)
(* The two rows that overlapping transactions on one contract derive: the  *)
(* contract's own (LedgerConcurrency) and its agent's (AgentLedger, whose  *)
(* names are used as they are).  They lock and read different things and   *)
(* are looked at apart: a behaviour is of the part chosen at the start,    *)
(* with the other left as it begins.  The proofs about the first are       *)
(* instantiated with it, so that AgentLedgerProofs can carry them over.    *)
(***************************************************************************)
EXTENDS AgentLedger, LedgerConcurrencyTerms

VARIABLES
    part,                                   \* whose behaviour this is
    contractType, saleStatus, total, refundDue, item, rows, reversals,
    saleLock, txn                           \* the variables of LedgerConcurrency

Contract == INSTANCE LedgerConcurrencyProofs
              WITH status <- saleStatus, payments <- rows, lock <- saleLock, tx <- txn

contractVars == <<contractType, saleStatus, total, refundDue, item, rows, reversals, saleLock, txn>>
booksVars == <<part, contractVars, vars>>

\* A part that is not looked at need not begin in every way it can.
BooksInit ==
    /\ part \in {"contract", "agent"}
    /\ Contract!Init /\ Init
    /\ part # "contract" => contractType = CHOOSE type \in ContractTypes : TRUE
    /\ part # "agent" => ~ledger.exists /\ settings = CHOOSE rate \in Rates : TRUE

BooksNext ==
    /\ UNCHANGED part
    /\ \/ part = "contract" /\ Contract!Next /\ UNCHANGED vars
       \/ part = "agent" /\ Next /\ UNCHANGED contractVars

BooksSpec == BooksInit /\ [][BooksNext]_booksVars

-----------------------------------------------------------------------------
(* What LedgerConcurrency promises, said there. *)

\* The contract's rows keep their types, and only the holder of its lock has written it.
ContractTypeOK == Contract!TypeOK

\* A payment is taken back once, however reversals and cancellations overlap.
ReversedOnce == Contract!ReversedOnce

\* A phone handed over while its contract is being cancelled stays with the customer.
HandedOverStaysOut == Contract!HandedOverStaysOut

\* A transaction none other committed beside leaves the stored total right.
Heals == Contract!Heals
=============================================================================

------------------------------- MODULE Office -------------------------------
(***************************************************************************)
(* Six parts of the program that share no row, put together so that one    *)
(* run checks them: a behaviour is one of the part chosen at the start,    *)
(* with the others left as they begin.  Whatever is fair in a part cannot  *)
(* happen before it has begun, so its fairness asks nothing of the other   *)
(* parts' behaviours.                                                      *)
(***************************************************************************)
EXTENDS Naturals

CONSTANTS
    None, Sweep,
    Sessions, Contracts, Loans, UssdRequests, MaxOwed, MaxLives,   \* UssdMenu
    Fulfilments,                                                   \* Fulfilment
    Mandates, Handlers,                                            \* Mandate
    People, ApprovalRequests,                                      \* SecondApproval
    Days, Grace, ClosedDays, Threshold, Payments,                  \* DeviceLoan
    Phones, Branches, Agents, AgentBranch                          \* Stock

ASSUME MenuAssumption == MaxOwed \in Nat /\ MaxLives \in Nat

ASSUME LoanAssumption == Days \in Nat \ {0} /\ Grace \in Nat

\* None stands for a field that is null.
ASSUME NoneAssumption == None \notin Sessions \cup Mandates \cup Contracts \cup Phones \cup Agents

VARIABLES
    part,                                            \* the part whose behaviour this is
    menu, req, cartRow, young, carts,                \* UssdMenu
    wallet, txRow, answer, told, pc, on, says,       \* Fulfilment
    mandate, age, hubtel, reached, act,              \* Mandate
    request, doneFor, call, lost,                    \* SecondApproval
    today, loan, charged, settled, paid, run,        \* DeviceLoan
    item, moved, contract, moving, disturbed         \* Stock

Ussd == INSTANCE UssdMenu WITH Requests <- UssdRequests, row <- cartRow
Order == INSTANCE Fulfilment WITH status <- txRow
Debit == INSTANCE Mandate WITH row <- mandate
Approval == INSTANCE SecondApproval WITH Requests <- ApprovalRequests, status <- request
Loan == INSTANCE DeviceLoan WITH status <- loan
Shelf == INSTANCE Stock WITH act <- moving

ussdVars == <<menu, req, cartRow, young, carts>>
orderVars == <<wallet, txRow, answer, told, pc, on, says>>
debitVars == <<mandate, age, hubtel, reached, act>>
approvalVars == <<request, doneFor, call, lost>>
loanVars == <<today, loan, charged, settled, paid, run>>
stockVars == <<item, moved, contract, moving, disturbed>>
vars == <<part, ussdVars, orderVars, debitVars, approvalVars, loanVars, stockVars>>

\* Phones that are not looked at need not be tried in every branch.
Init ==
    /\ part \in {"ussd", "order", "debit", "approval", "loan", "stock"}
    /\ Ussd!Init /\ Order!Init /\ Debit!Init /\ Approval!Init /\ Loan!Init /\ Shelf!Init
    /\ part # "stock" => \A i \in Phones : item[i].branch = CHOOSE b \in Branches : TRUE

Next ==
    /\ UNCHANGED part
    /\ \/ /\ part = "ussd" /\ Ussd!Next
          /\ UNCHANGED <<orderVars, debitVars, approvalVars, loanVars, stockVars>>
       \/ /\ part = "order" /\ Order!Next
          /\ UNCHANGED <<ussdVars, debitVars, approvalVars, loanVars, stockVars>>
       \/ /\ part = "debit" /\ Debit!Next
          /\ UNCHANGED <<ussdVars, orderVars, approvalVars, loanVars, stockVars>>
       \/ /\ part = "approval" /\ Approval!Next
          /\ UNCHANGED <<ussdVars, orderVars, debitVars, loanVars, stockVars>>
       \/ /\ part = "loan" /\ Loan!Next
          /\ UNCHANGED <<ussdVars, orderVars, debitVars, approvalVars, stockVars>>
       \/ /\ part = "stock" /\ Shelf!Next
          /\ UNCHANGED <<ussdVars, orderVars, debitVars, approvalVars, loanVars>>

Spec == Init /\ [][Next]_vars /\ Order!Fairness /\ Debit!Fairness

\* Every part's variables have their types.
TypeOK ==
    /\ Ussd!TypeOK /\ Order!TypeOK /\ Debit!TypeOK
    /\ Approval!TypeOK /\ Loan!TypeOK /\ Shelf!TypeOK

\* One USSD session gives Hubtel one cart, the one its row says.
OneCartASession == Ussd!OneCartASession

\* An order Hubtel was told is fulfilled was paid, and is in the ledger or before staff.
ToldSuccessIsAccounted == Order!ToldSuccessIsAccounted

\* Every answer Hubtel is owed is delivered or marked as never delivered.
EveryAnswerEnds == Order!EveryAnswerEnds

\* A settled mandate is learnt of without its callback, within 72 hours.
SettledIsLearnt == Debit!SettledIsLearnt

\* A request was carried out if and only if it stays approved, by a second person.
ApprovedIsCarriedOut == Approval!ApprovedIsCarriedOut

\* A phone is where its contract, its agent and its latest movement say.
StockAgrees == Shelf!StockAgrees

\* Interest is charged for every open day once, missed mornings made up for.
EveryDayChargedOnce == Loan!EveryDayChargedOnce
=============================================================================

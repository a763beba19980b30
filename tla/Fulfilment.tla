----------------------------- MODULE Fulfilment -----------------------------
(***************************************************************************)
(* What follows a USSD cart.  Hubtel takes the money and reports it to the *)
(* Service Fulfilment URL, maybe more than once and in overlapping calls,  *)
(* and is told whether the order was fulfilled; an answer it does not      *)
(* accept is sent again by a sweep for an hour.  How a collected charge    *)
(* gets from its row into the ledger is HubtelCharge's; here a row is      *)
(* settled when it reads SUCCESS or NEEDS_REVIEW.                          *)
(***************************************************************************)
CONSTANTS
    Sessions,      \* sessions Hubtel was given a cart for
    Fulfilments,   \* Hubtel's calls that may overlap
    Sweep,
    None

Tellers == Fulfilments \cup {Sweep}

VARIABLES
    wallet,    \* what the customer did with the checkout
    status,    \* HubtelTransaction.status
    answer,    \* fulfilmentStatus, fulfilmentCallbackState and whether the hour is over
    told,      \* the last answer Hubtel accepted
    pc, on, says   \* where each teller is, of which session, and what it brings

tellerVars == <<pc, on, says>>
vars == <<wallet, status, answer, told, tellerVars>>

Init ==
    /\ wallet = [s \in Sessions |-> "open"]
    /\ status = [s \in Sessions |-> "PENDING"]
    /\ answer = [s \in Sessions |-> [verdict |-> "none", state |-> "none", late |-> FALSE]]
    /\ told = [s \in Sessions |-> "none"]
    /\ pc = [t \in Tellers |-> "idle"]
    /\ on = [t \in Tellers |-> None]
    /\ says = [t \in Tellers |-> "none"]

-----------------------------------------------------------------------------
(* The world: time, and the customer at Hubtel's checkout. *)

HourPasses(s) ==
    /\ answer[s].state # "none" /\ ~answer[s].late
    /\ answer' = [answer EXCEPT ![s].late = TRUE]
    /\ UNCHANGED <<wallet, status, told, tellerVars>>

\* The customer pays, or does not, maybe at a second try.
Checkout(s) ==
    /\ wallet[s] # "paid"
    /\ wallet' \in {[wallet EXCEPT ![s] = w] : w \in {"paid", "declined"} \ {wallet[s]}}
    /\ UNCHANGED <<status, answer, told, tellerVars>>

-----------------------------------------------------------------------------
(* processServiceFulfilment *)

TellerGoes(t, at) == pc' = [pc EXCEPT ![t] = at]
TellerDone(t) ==
    /\ pc' = [pc EXCEPT ![t] = "idle"]
    /\ on' = [on EXCEPT ![t] = None]
    /\ says' = [says EXCEPT ![t] = "none"]

\* What Hubtel may report: paid, paid for items that do not come to the cart's amount, or
\* not paid.
Reports(s) ==
    CASE wallet[s] = "paid" -> {"paid", "disagrees"}
      [] wallet[s] = "declined" -> {"unpaid"}
      [] OTHER -> {}

\* The session's row was there when Hubtel was given the cart.
ReceiveFulfilment(f, s) ==
    /\ f \in Fulfilments
    /\ pc[f] = "idle"
    /\ TellerGoes(f, "settle")
    /\ on' = [on EXCEPT ![f] = s]
    /\ says' \in {[says EXCEPT ![f] = report] : report \in Reports(s)}
    /\ UNCHANGED <<status, wallet, answer, told>>

\* Slip: a report that the order was not paid fails the row whatever it has become.
MutOutcomes(report, was) ==
    CASE report = "unpaid" -> {"FAILED"}
      [] was \in {"PENDING", "FAILED"} /\ report = "paid" -> {"SUCCESS", "NEEDS_REVIEW"}
      [] was \in {"PENDING", "FAILED"} /\ report = "disagrees" -> {"NEEDS_REVIEW"}
      [] OTHER -> {was}

\* What a report makes of the row: recorded or refused by the ledger when it was paid, held
\* for staff when the amounts disagree, failed only while pending.
Outcomes(report, was) ==
    CASE report = "paid" /\ was \in {"PENDING", "FAILED"} -> {"SUCCESS", "NEEDS_REVIEW"}
      [] report = "disagrees" /\ was \in {"PENDING", "FAILED"} -> {"NEEDS_REVIEW"}
      [] report = "unpaid" /\ was = "PENDING" -> {"FAILED"}
      [] OTHER -> {was}

Verdict(was) == IF was \in {"SUCCESS", "NEEDS_REVIEW"} THEN "success" ELSE "failed"

SettleFulfilment(f) ==
    /\ pc[f] = "settle"
    /\ \E new \in Outcomes(says[f], status[on[f]]) :
          /\ status' = [status EXCEPT ![on[f]] = new]
          /\ says' = [says EXCEPT ![f] = Verdict(new)]
    /\ TellerGoes(f, "write")
    /\ UNCHANGED <<wallet, answer, told, on>>

\* Written over whatever a fulfilment that came in between has written.
WriteVerdict(f) ==
    /\ pc[f] = "write"
    /\ answer' = [answer EXCEPT ![on[f]].verdict = says[f], ![on[f]].state = "PENDING"]
    /\ TellerGoes(f, "read")
    /\ UNCHANGED <<status, wallet, told, on, says>>

-----------------------------------------------------------------------------
(* deliverFulfilmentCallback and retryFulfilmentCallbacks *)

\* The row is read again: the answer sent is the one written last.
ReadVerdict(t) ==
    /\ pc[t] = "read"
    /\ says' = [says EXCEPT ![t] = answer[on[t]].verdict]
    /\ TellerGoes(t, "send")
    /\ UNCHANGED <<status, wallet, answer, told, on>>

\* Hubtel takes the answer, or the call fails and the answer stays PENDING.
SendVerdict(t) ==
    /\ pc[t] = "send"
    /\ \/ /\ told' = [told EXCEPT ![on[t]] = says[t]]
          /\ TellerGoes(t, "mark")
          /\ UNCHANGED <<on, says>>
       \/ TellerDone(t) /\ UNCHANGED told
    /\ UNCHANGED <<status, wallet, answer>>

MarkSent(t) ==
    /\ pc[t] = "mark"
    /\ answer' = [answer EXCEPT ![on[t]].state = "SENT"]
    /\ TellerDone(t)
    /\ UNCHANGED <<status, wallet, told>>

\* Slip: an answer whose hour is over is tried again all the same.
MutListUnanswered(s) ==
    /\ pc[Sweep] = "idle"
    /\ answer[s].state = "PENDING"
    /\ TellerGoes(Sweep, "read")
    /\ on' = [on EXCEPT ![Sweep] = s]
    /\ UNCHANGED <<status, wallet, answer, told, says>>

\* The sweep gives up on an answer whose hour is over, and sends the others again.
ListUnanswered(s) ==
    /\ pc[Sweep] = "idle"
    /\ answer[s].state = "PENDING"
    /\ TellerGoes(Sweep, IF answer[s].late THEN "give up" ELSE "read")
    /\ on' = [on EXCEPT ![Sweep] = s]
    /\ UNCHANGED <<status, wallet, answer, told, says>>

\* Marked without another look, even if Hubtel has asked and been told again meanwhile.
GiveUp ==
    /\ pc[Sweep] = "give up"
    /\ answer' = [answer EXCEPT ![on[Sweep]].state = "UNDELIVERED"]
    /\ TellerDone(Sweep)
    /\ UNCHANGED <<status, wallet, told>>

\* reconcilePendingHubtelTransactions settles a pending row no fulfilment has come for.
ReconcileCheckout(s) ==
    /\ status[s] = "PENDING"
    /\ status' \in {[status EXCEPT ![s] = new] :
                       new \in Outcomes(IF wallet[s] = "paid" THEN "paid" ELSE "unpaid", "PENDING")}
    /\ UNCHANGED <<wallet, answer, told, tellerVars>>

\* Hubtel's call dies between two awaits.  (A sweep that dies is the next sweep's work.)
Die(f) ==
    /\ f \in Fulfilments
    /\ pc[f] # "idle"
    /\ TellerDone(f)
    /\ UNCHANGED <<status, wallet, answer, told>>

-----------------------------------------------------------------------------
TellerStep(t) ==
    \/ SettleFulfilment(t)
    \/ WriteVerdict(t)
    \/ ReadVerdict(t)
    \/ SendVerdict(t)
    \/ MarkSent(t)

SweepStep == TellerStep(Sweep) \/ GiveUp

Next ==
    \/ \E s \in Sessions :
          HourPasses(s) \/ Checkout(s) \/ ReconcileCheckout(s) \/ ListUnanswered(s)
    \/ \E f \in Fulfilments, s \in Sessions : ReceiveFulfilment(f, s)
    \/ \E t \in Tellers : TellerStep(t) \/ Die(t)
    \/ GiveUp

\* The sweep runs every five minutes and goes on until it is through; the hour passes.
\* Nothing is assumed of Hubtel, which may refuse every answer, or of customers.
Fairness ==
    /\ WF_vars(SweepStep)
    /\ \A s \in Sessions : WF_vars(HourPasses(s)) /\ SF_vars(ListUnanswered(s))

Spec == Init /\ [][Next]_vars /\ Fairness

-----------------------------------------------------------------------------
(* Properties. *)

TypeOK ==
    /\ wallet \in [Sessions -> {"open", "paid", "declined"}]
    /\ status \in [Sessions -> {"PENDING", "SUCCESS", "FAILED", "NEEDS_REVIEW"}]
    /\ answer \in [Sessions -> [verdict : {"none", "success", "failed"},
                                state : {"none", "PENDING", "SENT", "UNDELIVERED"}, late : BOOLEAN]]
    /\ told \in [Sessions -> {"none", "success", "failed"}]
    /\ pc \in [Tellers -> {"idle", "settle", "write", "read", "send", "mark", "give up"}]

\* Hubtel is told an order was fulfilled only if the customer paid and the money is in the
\* ledger or before staff, whichever reports overlap or arrive again afterwards.
ToldSuccessIsAccounted ==
    \A s \in Sessions :
        told[s] = "success" =>
            wallet[s] = "paid" /\ status[s] \in {"SUCCESS", "NEEDS_REVIEW"}

\* Every answer Hubtel is owed is accepted by it or marked as never delivered, even if it
\* refuses every call and the call that took the report dies.
EveryAnswerEnds ==
    \A s \in Sessions :
        answer[s].state = "PENDING" ~> answer[s].state \in {"SENT", "UNDELIVERED"}
=============================================================================

------------------------------ MODULE Mandate -------------------------------
(***************************************************************************)
(* The mandate a direct debit is charged to: requested from Hubtel for one *)
(* wallet number, approved or refused by the customer, cancelled for the   *)
(* whole number, reactivated, and learnt of by callbacks that may be late  *)
(* or repeated, by staff asking, and by a sweep.  Every handler goes by    *)
(* the row it read and writes over the row as it then is.                  *)
(***************************************************************************)
CONSTANTS
    Mandates,      \* rows that may be requested for the number
    Handlers,      \* staff requests and callbacks that may overlap
    Sweep,
    None

Actors == Handlers \cup {Sweep}

VARIABLES
    row,      \* HubtelPreapproval.status
    age,      \* of updatedAt: under five minutes, over them, or over 72 hours
    hubtel,   \* where the request stands with Hubtel
    reached,  \* outcomes whose callbacks, with the id the row holds, may come or come again
    act       \* what each handler is doing, to which row, and what it read and was told

vars == <<row, age, hubtel, reached, act>>

Idle == [at |-> "idle", on |-> None, saw |-> "none", said |-> "none"]

Init ==
    /\ row = [m \in Mandates |-> "none"]
    /\ age = [m \in Mandates |-> "fresh"]
    /\ hubtel = [m \in Mandates |-> "none"]
    /\ reached = [m \in Mandates |-> {}]
    /\ act = [h \in Actors |-> Idle]

-----------------------------------------------------------------------------
(* The world. *)

CustomerAnswers(m) ==
    /\ hubtel[m] = "PENDING"
    /\ \E answer \in {"APPROVED", "FAILED"} :
          /\ hubtel' = [hubtel EXCEPT ![m] = answer]
          /\ reached' = [reached EXCEPT ![m] = @ \cup {answer}]
    /\ UNCHANGED <<row, age, act>>

\* updatedAt is only looked at while a row is pending.
FiveMinutesPass(m) ==
    /\ row[m] = "PENDING" /\ age[m] = "fresh"
    /\ age' = [age EXCEPT ![m] = "stale"]
    /\ UNCHANGED <<row, hubtel, reached, act>>

ThreeDaysPass(m) ==
    /\ row[m] = "PENDING" /\ age[m] = "stale"
    /\ age' = [age EXCEPT ![m] = "old"]
    /\ UNCHANGED <<row, hubtel, reached, act>>

-----------------------------------------------------------------------------
(* Steps the handlers share. *)

Begins(h, m, at, said) ==
    /\ act[h].at = "idle"
    /\ act' = [act EXCEPT ![h] = [at |-> at, on |-> m, saw |-> row[m], said |-> said]]
Goes(h, at, said) == act' = [act EXCEPT ![h].at = at, ![h].said = said]
Done(h) == act' = [act EXCEPT ![h] = Idle]

Outcomes == {"APPROVED", "FAILED", "CANCELLED"}

Write(m, status) ==
    /\ row' = [row EXCEPT ![m] = status]
    /\ age' = [age EXCEPT ![m] = "fresh"]

\* Hubtel takes the request: it asks the customer, unless the number is approved already.
Requested(m, answer) ==
    /\ answer = "APPROVED" <=> \E other \in Mandates : hubtel[other] = "APPROVED"
    /\ hubtel' = [hubtel EXCEPT ![m] = answer]
    /\ reached' = [reached EXCEPT ![m] = IF answer = "APPROVED" THEN @ \cup {answer} ELSE @]

\* normalizePreapprovalStatus: nothing to apply while Hubtel is still waiting.
Normalize(raw) == IF raw \in {"APPROVED", "CANCELLED", "FAILED"} THEN raw ELSE "none"

-----------------------------------------------------------------------------
(* initiatePreapproval *)

\* An approved mandate of the number is used again, and no other is asked for.
LookForMandate(h, m) ==
    /\ row[m] = "none"
    /\ \A other \in Actors : act[other].on # m
    /\ \A other \in Mandates : row[other] # "APPROVED"
    /\ Begins(h, m, "create", "none")
    /\ UNCHANGED <<row, age, hubtel, reached>>

CreateMandate(h) ==
    /\ act[h].at = "create"
    /\ Write(act[h].on, "PENDING")
    /\ Goes(h, "request", "none")
    /\ UNCHANGED <<hubtel, reached>>

RequestMandate(h) ==
    /\ act[h].at = "request"
    /\ \/ \E answer \in {"PENDING", "APPROVED"} :
             Requested(act[h].on, answer) /\ Goes(h, "requested", Normalize(answer))
       \/ Goes(h, "delete", "none") /\ UNCHANGED <<hubtel, reached>>
       \/ Requested(act[h].on, "PENDING") /\ Goes(h, "delete", "none")   \* the answer is lost
    /\ UNCHANGED <<row, age>>

\* Refused or unreachable: the row goes, whatever Hubtel made of the request.
DeleteMandate(h) ==
    /\ act[h].at = "delete"
    /\ Write(act[h].on, "deleted")
    /\ Done(h)
    /\ UNCHANGED <<hubtel, reached>>

\* The answer's ids are stored; an approval on the spot is too, over whatever the row says.
StoreRequest(h) ==
    /\ act[h].at = "requested"
    /\ Write(act[h].on, IF act[h].said = "APPROVED" THEN "APPROVED" ELSE row[act[h].on])
    /\ Done(h)
    /\ UNCHANGED <<hubtel, reached>>

-----------------------------------------------------------------------------
(* cancelPreapproval and reactivatePreapproval *)

BeginCancel(h, m) ==
    /\ row[m] \in {"APPROVED", "PENDING"}
    /\ Begins(h, m, "cancel", "none")
    /\ UNCHANGED <<row, age, hubtel, reached>>

\* Hubtel cancels by number: every mandate of it.  An answer that is lost is an error to staff,
\* and the row stays as it was.
CallCancel(h) ==
    /\ act[h].at = "cancel"
    /\ \/ LET live == {m \in Mandates : hubtel[m] \in {"PENDING", "APPROVED"}} IN
          /\ hubtel' = [m \in Mandates |-> IF m \in live THEN "CANCELLED" ELSE hubtel[m]]
          /\ reached' = [m \in Mandates |-> reached[m] \cup (IF m \in live THEN {"CANCELLED"} ELSE {})]
          /\ Goes(h, "cancelled", "none") \/ Done(h)
       \/ Done(h) /\ UNCHANGED <<hubtel, reached>>
    /\ UNCHANGED <<row, age>>

WriteCancelled(h) ==
    /\ act[h].at = "cancelled"
    /\ Write(act[h].on, "CANCELLED")
    /\ Done(h)
    /\ UNCHANGED <<hubtel, reached>>

BeginReactivate(h, m) ==
    /\ row[m] = "CANCELLED"
    /\ Begins(h, m, "reactivate", "none")
    /\ UNCHANGED <<row, age, hubtel, reached>>

CallReactivate(h) ==
    /\ act[h].at = "reactivate"
    /\ \/ \E answer \in {"PENDING", "APPROVED"} :
          /\ Requested(act[h].on, answer)
          /\ Goes(h, "reactivated", Normalize(answer)) \/ Done(h)       \* the answer is lost
       \/ Done(h) /\ UNCHANGED <<hubtel, reached>>
    /\ UNCHANGED <<row, age>>

\* The row takes the id of the request it now waits for, and callbacks that carry another are
\* refused.  (An approval on the spot has no id, and the row keeps the one it had.)
WriteReactivated(h) ==
    /\ act[h].at = "reactivated"
    /\ Write(act[h].on, IF act[h].said = "APPROVED" THEN "APPROVED" ELSE "PENDING")
    /\ reached' = [reached EXCEPT ![act[h].on] =
                      IF act[h].said = "APPROVED" \/ hubtel[act[h].on] = "CANCELLED"
                      THEN @ ELSE Outcomes \cap {hubtel[act[h].on]}]
    /\ Done(h)
    /\ UNCHANGED hubtel

-----------------------------------------------------------------------------
(* What Hubtel says of a mandate: asked for by staff or by the sweep, given in the answer to *)
(* a code, or brought by a callback.                                                         *)

\* checkPreapprovalStatus and submitPreapprovalOtp.
BeginCheck(h, m) ==
    /\ row[m] \notin {"none", "deleted"}
    /\ Begins(h, m, "check", "none")
    /\ UNCHANGED <<row, age, hubtel, reached>>

\* Slip: only mandates that have become too old are asked about.
MutListStale(m) ==
    /\ row[m] = "PENDING" /\ age[m] = "old"
    /\ Begins(Sweep, m, "check", "none")
    /\ UNCHANGED <<row, age, hubtel, reached>>

\* reconcilePendingPreapprovals: pending for five minutes, and for less than 72 hours.
ListStale(m) ==
    /\ row[m] = "PENDING" /\ age[m] = "stale"
    /\ Begins(Sweep, m, "check", "none")
    /\ UNCHANGED <<row, age, hubtel, reached>>

CheckAnswered(h) ==
    /\ act[h].at = "check"
    /\ Goes(h, "apply", Normalize(hubtel[act[h].on]))
    /\ UNCHANGED <<row, age, hubtel, reached>>

CheckFailed(h) ==
    /\ act[h].at = "check"
    /\ Done(h)
    /\ UNCHANGED <<row, age, hubtel, reached>>

\* processPreapprovalCallback: any outcome of the request the row stands for, late or again.
ReceiveCallback(h, m) ==
    /\ row[m] \notin {"none", "deleted"}
    /\ \E said \in reached[m] : Begins(h, m, "apply", Normalize(said))
    /\ UNCHANGED <<row, age, hubtel, reached>>

\* applyPreapprovalStatus: a repeat changes nothing and an approval stands, by the row as the
\* handler read it.  (A row deleted since is an error.)
ApplyStatus(h) ==
    /\ act[h].at = "apply"
    /\ LET saw == act[h].saw
           said == act[h].said IN
       IF said = "none" \/ saw = said \/ saw = "APPROVED" \/ row[act[h].on] = "deleted"
       THEN UNCHANGED <<row, age>>
       ELSE Write(act[h].on, said)
    /\ Done(h)
    /\ UNCHANGED <<hubtel, reached>>

-----------------------------------------------------------------------------
SweepStep == CheckAnswered(Sweep) \/ CheckFailed(Sweep) \/ ApplyStatus(Sweep)

HandlerStep(h) ==
    \/ CreateMandate(h) \/ RequestMandate(h) \/ DeleteMandate(h) \/ StoreRequest(h)
    \/ CallCancel(h) \/ WriteCancelled(h)
    \/ CallReactivate(h) \/ WriteReactivated(h)
    \/ CheckAnswered(h) \/ CheckFailed(h) \/ ApplyStatus(h)

Next ==
    \/ \E m \in Mandates :
          CustomerAnswers(m) \/ FiveMinutesPass(m) \/ ThreeDaysPass(m) \/ ListStale(m)
    \/ \E h \in Handlers, m \in Mandates :
          \/ LookForMandate(h, m) \/ BeginCancel(h, m) \/ BeginReactivate(h, m)
          \/ BeginCheck(h, m) \/ ReceiveCallback(h, m)
    \/ \E h \in Handlers : HandlerStep(h)
    \/ SweepStep

\* The sweep runs every five minutes, and Hubtel answers some of its questions about each
\* mandate.  Nothing is assumed of customers, staff or callbacks.
Fairness ==
    /\ WF_vars(SweepStep)
    /\ \A m \in Mandates :
          /\ WF_vars(FiveMinutesPass(m))
          /\ SF_vars(ListStale(m))
          /\ SF_vars(act[Sweep].on = m /\ CheckAnswered(Sweep))

Spec == Init /\ [][Next]_vars /\ Fairness

-----------------------------------------------------------------------------
(* Properties. *)

TypeOK ==
    /\ row \in [Mandates -> {"none", "PENDING", "deleted"} \cup Outcomes]
    /\ age \in [Mandates -> {"fresh", "stale", "old"}]
    /\ hubtel \in [Mandates -> {"none", "PENDING"} \cup Outcomes]
    /\ reached \in [Mandates -> SUBSET Outcomes]
    /\ \A h \in Actors : act[h].said \in {"none"} \cup Outcomes

\* What became of a mandate is learnt without its callback, unless 72 hours go by first or
\* the customer is asked anew: one who approved is not left waiting.
SettledIsLearnt ==
    \A m \in Mandates :
        row[m] = "PENDING" /\ hubtel[m] \in Outcomes ~>
            row[m] # "PENDING" \/ hubtel[m] = "PENDING" \/ age[m] = "old"
=============================================================================

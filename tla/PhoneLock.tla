------------------------------ MODULE PhoneLock ------------------------------
(***************************************************************************)
(* The lock on a financed phone (PayTrigger), for one phone and the one    *)
(* contract it is sold on.  There is no "lock" call: PayTrigger and the    *)
(* phone each hold a date, and the phone locks itself when its date        *)
(* passes, online or not.  What the contract says is turned into a date by *)
(* reconcileContract, which hooks, the morning sweep, callbacks and staff  *)
(* all run, overlapping: each loads the contract, decides, sends, and      *)
(* records what it sent over whatever the row says by then.                *)
(*                                                                         *)
(* A date is how many lock moments are still ahead of it, 0 once it has    *)
(* passed, so it falls as time goes by wherever it is held.                *)
(***************************************************************************)
EXTENDS Integers

CONSTANTS
    Hook, Direct,   \* the contract's inbox, and who else reconciles: sweep, callback, staff
    Horizon,        \* the cap on how far ahead a phone may be opened, as an instalment
                    \* further off counts
    MaxMishaps      \* bound: sends that fail and handlers that die

Handlers == {Hook, Direct}

ASSUME HandlersAssumption == Hook # Direct
ASSUME HorizonAssumption == Horizon \in Nat \ {0} /\ MaxMishaps \in Nat

VARIABLES
    contract,   \* status, lock moments until that of its next unpaid instalment, agent owes,
                \* and whether a payment was reversed after it was completed
    furthest,   \* history: the furthest it was ever paid up to
    device,     \* PayTriggerDevice
    date,       \* the lock date PayTrigger holds
    phone,      \* the phone: switched on, and the date it has heard
    inbox,      \* a notified reconcile waits
    pc, dec,    \* where each handler is and what it decided
    pinning,    \* staff wait for Direct's reconcile to issue a PIN
    mishaps

vars == <<contract, furthest, device, date, phone, inbox, pc, dec, pinning, mishaps>>

\* In place of a date once the lock is removed.
Free == Horizon + 1

Before(n) == IF n \in {0, Free} THEN n ELSE n - 1

Decision(action, d) == [action |-> action, date |-> d]
NoDecision == Decision("none", 0)   \* also the fingerprint of a row that has none

Init ==
    /\ contract = [status |-> "PENDING_DEPOSIT", slack |-> 0, owes |-> FALSE, reversed |-> FALSE]
    /\ furthest = 0
    /\ device = [enrol |-> "QUEUED", linked |-> FALSE, held |-> 0, fp |-> NoDecision,
                 doubt |-> TRUE, awaiting |-> FALSE, release |-> FALSE]
    /\ date = 0
    /\ phone = [on |-> FALSE, date |-> 0]
    /\ inbox = FALSE
    /\ pc = [h \in Handlers |-> "idle"]
    /\ dec = [h \in Handlers |-> NoDecision]
    /\ pinning = FALSE
    /\ mishaps = 0

Mishap == mishaps < MaxMishaps /\ mishaps' = mishaps + 1

-----------------------------------------------------------------------------
(* The contract, which changes elsewhere and then notifies; the hook is lost with a process *)
(* that dies between the two.                                                               *)

ContractBecomes(new) ==
    /\ contract' = new
    /\ furthest' = IF new.slack > furthest THEN new.slack ELSE furthest
    /\ \/ inbox' = TRUE /\ UNCHANGED mishaps
       \/ Mishap /\ UNCHANGED inbox
    /\ UNCHANGED <<device, date, phone, pc, dec, pinning>>

Contract(status, slack, owes) ==
    [status |-> status, slack |-> slack, owes |-> owes, reversed |-> FALSE]

\* A payment: it is paid up to some instalment, or off; it cures a default.
Pay ==
    /\ contract.status \in {"PENDING_DEPOSIT", "ACTIVE", "DEFAULTED"}
    /\ \/ \E slack \in contract.slack + 1..Horizon :
             ContractBecomes(Contract("ACTIVE", slack, contract.owes))
       \/ contract.status # "PENDING_DEPOSIT" /\ ContractBecomes(Contract("COMPLETED", 0, FALSE))

\* A reversal unpays instalments and leaves the status as it is.
ReversePayment ==
    \/ /\ contract.status = "ACTIVE"
       /\ \E slack \in 0..contract.slack - 1 :
             ContractBecomes([contract EXCEPT !.slack = slack])
    \/ /\ contract.status = "COMPLETED"
       /\ ContractBecomes([contract EXCEPT !.reversed = TRUE])

MarkDefaulted ==
    /\ contract.status = "ACTIVE" /\ contract.slack = 0
    /\ ContractBecomes(Contract("DEFAULTED", 0, contract.owes))

CancelContract ==
    /\ contract.status \in {"PENDING_DEPOSIT", "ACTIVE", "DEFAULTED"}
    /\ ContractBecomes(Contract("CANCELLED", 0, FALSE))

\* An agent collects on the contract, or remits what is owed on it.
AgentBalance ==
    /\ contract.status = "ACTIVE"
    /\ ContractBecomes([contract EXCEPT !.owes = ~@])

\* A lock moment passes: they are days apart, and a reconcile takes seconds.
Tick ==
    /\ ~pinning /\ \A h \in Handlers : pc[h] = "idle"
    /\ contract' = [contract EXCEPT !.slack = Before(@)]
    /\ furthest' = Before(furthest)
    /\ device' = [device EXCEPT !.held = Before(@), !.fp.date = Before(@)]
    /\ date' = Before(date)
    /\ phone' = [phone EXCEPT !.date = Before(@)]
    /\ UNCHANGED <<inbox, pc, dec, pinning, mishaps>>

-----------------------------------------------------------------------------
(* decide *)

\* Slip: an instalment past its lock moment is given the cap's date.
MutScheduleDate == Horizon

\* The lock moment of the next unpaid instalment.
ScheduleDate == contract.slack

\* Locking is sent only to a phone the row takes to be open.
IsOpen == device.enrol = "ACTIVE" /\ device.held > 0

Decide ==
    CASE contract.status = "COMPLETED" -> Decision("RELEASE", Horizon)
      [] contract.status \in {"CANCELLED", "DEFAULTED", "PENDING_DEPOSIT"} ->
            Decision(IF IsOpen THEN "LOCK" ELSE "NONE", 0)
      [] contract.status = "ACTIVE" /\ contract.owes -> Decision("LOCK", 0)   \* action HOLD
      [] contract.status = "ACTIVE" /\ ~contract.owes ->
            Decision(IF ScheduleDate = 0 THEN "LOCK" ELSE "EXTEND", ScheduleDate)

-----------------------------------------------------------------------------
(* reconcileContract *)

Enforced == device.enrol \in {"QUEUED", "ACTIVE"}

Goes(h, at) == pc' = [pc EXCEPT ![h] = at]
Stops(h) == Goes(h, "idle") /\ UNCHANGED dec
Carries(h, at, d) == Goes(h, at) /\ dec' = [dec EXCEPT ![h] = d]
Done(h) == Carries(h, "idle", NoDecision)

\* The phone's row, linked to the contract if it is not yet.
Row ==
    IF device.linked THEN device
    ELSE [device EXCEPT !.linked = TRUE, !.fp = NoDecision, !.release = FALSE, !.awaiting = FALSE]

\* The contract and its phone are loaded and the decision made, before a call that sends the
\* lock-screen text.  Nothing is sent to a phone not yet switched on, nor for a decision the
\* row says was carried out; a release no longer due is called off; a phone never switched on
\* goes back to stock with a cancelled contract.
Load(h, forced) ==
    /\ pc[h] = "idle"
    /\ Enforced
    /\ LET d == Decide
           active == device.enrol = "ACTIVE"
           row == IF d.action = "RELEASE" THEN [Row EXCEPT !.release = TRUE]
                  ELSE [Row EXCEPT !.release = FALSE]
           current == row.fp = d /\ ~forced
       IN
       \/ /\ d.action = "RELEASE"
          /\ device' = row
          /\ IF active /\ row.held = 0 THEN Carries(h, "send", d) ELSE Stops(h)
       \/ /\ contract.status = "CANCELLED" /\ ~active
          /\ device' = [row EXCEPT !.linked = FALSE, !.fp = NoDecision] /\ Stops(h)
       \/ /\ d.action # "RELEASE" /\ ~(contract.status = "CANCELLED" /\ ~active)
          /\ device' = row
          /\ CASE current \/ (d.action # "NONE" /\ ~active) -> Stops(h)
               [] ~current /\ (d.action = "NONE" \/ (active /\ d.action = "LOCK" /\ ~IsOpen)) ->
                     Carries(h, "note", d)
               [] ~current /\ active /\ (d.action = "EXTEND" \/ IsOpen) -> Carries(h, "send", d)
    /\ UNCHANGED <<contract, furthest, date, phone, mishaps>>

\* The inbox runs one reconcile at a time, for all the notices that came meanwhile.
Drain == inbox /\ inbox' = FALSE /\ Load(Hook, FALSE) /\ UNCHANGED pinning

\* The sweep, which also links a phone whose notice was lost; or with force, of a linked phone,
\* an activation callback or staff.
Reconcile(forced) ==
    /\ device.linked \/ (~forced /\ contract.status # "CANCELLED")
    /\ ~pinning
    /\ Load(Direct, forced)
    /\ UNCHANGED <<inbox, pinning>>

\* There was nothing to send: the decision is recorded as carried out.
Note(h) ==
    /\ pc[h] = "note"
    /\ device' = [device EXCEPT !.fp = dec[h]]
    /\ Done(h)
    /\ UNCHANGED <<contract, furthest, date, phone, inbox, pinning, mishaps>>

Taken(h) == IF date = Free THEN Free ELSE dec[h].date

\* PayTrigger takes the date; or it does, or does not, and the call fails: it is tried again
\* by way of the inbox, unless its tries are used up or the process is restarted.
Send(h) ==
    /\ pc[h] = "send"
    /\ \/ /\ date' = Taken(h)
          /\ Goes(h, "record")
          /\ UNCHANGED <<dec, inbox, mishaps>>
       \/ /\ Mishap
          /\ date' \in {date, Taken(h)}
          /\ inbox' \in {inbox, TRUE}
          /\ Done(h)
    /\ UNCHANGED <<contract, furthest, device, phone, pinning>>

\* Recorded over what any other reconcile has recorded since.
Record(h) ==
    /\ pc[h] = "record"
    /\ device' = [device EXCEPT !.held = dec[h].date, !.fp = dec[h],
                                !.doubt = TRUE]
    /\ Done(h)
    /\ UNCHANGED <<contract, furthest, date, phone, inbox, pinning, mishaps>>

\* The process dies; an inbox dies with it.
Die(h) ==
    /\ pc[h] # "idle"
    /\ Mishap
    /\ inbox' = FALSE
    /\ Done(h)
    /\ pinning' = (pinning /\ h # Direct)
    /\ UNCHANGED <<contract, furthest, device, date, phone>>

-----------------------------------------------------------------------------
(* The phone, and what is heard of it *)

Open == phone.on /\ phone.date > 0

\* First switched on, it locks itself.
SwitchOn ==
    /\ ~phone.on
    /\ phone' = [phone EXCEPT !.on = TRUE]
    /\ UNCHANGED <<contract, furthest, device, date, inbox, pc, dec, pinning, mishaps>>

\* Online, it hears the date PayTrigger holds.
Connect ==
    /\ phone.on /\ phone.date # date
    /\ phone' = [phone EXCEPT !.date = date]
    /\ UNCHANGED <<contract, furthest, device, date, inbox, pc, dec, pinning, mishaps>>

\* Slip: a locked phone is shown when its date has passed.
MutReported ==
    IF phone.date = Free
    THEN [device EXCEPT !.enrol = "REMOVED", !.doubt = FALSE, !.awaiting = FALSE]
    ELSE [device EXCEPT !.enrol = "ACTIVE",
                        !.doubt = FALSE,
                        !.awaiting = ~Open /\ device.held = 0]

\* applyReportedState: what PayTrigger says of a phone that is on or has been released.
Reported ==
    IF phone.date = Free
    THEN [device EXCEPT !.enrol = "REMOVED", !.doubt = FALSE, !.awaiting = FALSE]
    ELSE [device EXCEPT !.enrol = "ACTIVE",
                        !.doubt = FALSE,
                        !.awaiting = ~Open /\ device.held > 0]

\* A callback, or a read by the sweep, by verifyDevice or a minute after a payment.  A phone
\* first heard of as switched on is reconciled: by the callback that says so at once, else
\* by way of the inbox.
Report ==
    /\ phone.on /\ Enforced
    /\ device' = Reported
    /\ inbox' = (inbox \/ (device.enrol = "QUEUED" /\ phone.date # Free /\ device.linked))
    /\ UNCHANGED <<contract, furthest, date, phone, pc, dec, pinning, mishaps>>

\* Whose state is in doubt: the phones the morning sweep reads, those whose date is the next to
\* pass among them, the day before it does.
InDoubt ==
    \/ device.enrol = "QUEUED"
    \/ device.awaiting
    \/ device.doubt
    \/ device.held = 1

StatusRead == InDoubt /\ Report

\* Staff ask for a PIN: the contract is reconciled first, with force.
AskForPin ==
    /\ device.enrol = "ACTIVE" /\ device.linked
    /\ ~pinning /\ pinning' = TRUE
    /\ Load(Direct, TRUE)
    /\ UNCHANGED inbox

\* Refused unless the row says the date is to come.  The customer, with no data, types the
\* PIN, which carries the date PayTrigger holds.
IssuePin ==
    /\ pinning /\ pc[Direct] = "idle"
    /\ pinning' = FALSE
    /\ \/ device.held = 0 /\ UNCHANGED <<device, phone>>
       \/ /\ device.held > 0
          /\ phone' = IF date = Free THEN phone ELSE [phone EXCEPT !.date = date]
          /\ device' = [device EXCEPT !.awaiting = FALSE]
    /\ UNCHANGED <<contract, furthest, date, inbox, pc, dec, mishaps>>

-----------------------------------------------------------------------------
(* The lock is removed from a phone paid off *)

\* Slip: not checked to have been switched on.
MutStartRelease(staff) ==
    /\ pc[Direct] = "idle" /\ ~pinning
    /\ device.linked
    /\ staff \/ device.release
    /\ contract.status = "COMPLETED"
    /\ Goes(Direct, "release")
    /\ UNCHANGED <<contract, furthest, device, date, phone, inbox, dec, pinning, mishaps>>

\* The sweep, of a release whose hold period is over and that staff do not hold, or staff at
\* any time: the contract is looked at again.
StartRelease(staff) ==
    /\ pc[Direct] = "idle" /\ ~pinning
    /\ device.enrol = "ACTIVE" /\ device.linked
    /\ staff \/ device.release
    /\ IF contract.status = "COMPLETED"
       THEN Goes(Direct, "release") /\ UNCHANGED device
       ELSE ~staff /\ device' = [device EXCEPT !.release = FALSE] /\ UNCHANGED pc
    /\ UNCHANGED <<contract, furthest, date, phone, inbox, dec, pinning, mishaps>>

\* PayTrigger uninstalls itself; or the call fails, whether or not it did.
Remove ==
    /\ pc[Direct] = "release"
    /\ Goes(Direct, "idle")
    /\ \/ /\ date' = Free
          /\ device' = [device EXCEPT !.enrol = "REMOVED", !.doubt = FALSE,
                                      !.release = FALSE, !.awaiting = FALSE]
          /\ UNCHANGED mishaps
       \/ /\ Mishap
          /\ date' \in {date, Free}
          /\ UNCHANGED device
    /\ UNCHANGED <<contract, furthest, phone, inbox, dec, pinning>>

-----------------------------------------------------------------------------
Run(h) == Note(h) \/ Send(h) \/ Record(h)

Next ==
    \/ Pay \/ ReversePayment \/ MarkDefaulted \/ CancelContract \/ AgentBalance
    \/ Tick
    \/ Drain
    \/ \E forced \in BOOLEAN : Reconcile(forced)
    \/ \E h \in Handlers : Run(h) \/ Die(h)
    \/ SwitchOn \/ Connect \/ Report \/ AskForPin \/ IssuePin
    \/ (\E staff \in BOOLEAN : StartRelease(staff)) \/ Remove

Spec == Init /\ [][Next]_vars

\* What is begun is finished.
Finishes ==
    /\ \A h \in Handlers : WF_vars(Run(h))
    /\ WF_vars(Remove) /\ WF_vars(IssuePin)

\* And the inbox is drained; the sweep reconciles, reads and releases every morning.  Nothing
\* makes a customer pay, a phone come online or staff act.
Fairness ==
    /\ Finishes
    /\ WF_vars(Drain)
    /\ SF_vars(Reconcile(FALSE))
    /\ WF_vars(StatusRead)
    /\ SF_vars(StartRelease(FALSE))

FinishSpec == Spec /\ Finishes
FairSpec == Spec /\ Fairness

Dates == 0..Horizon
Statuses == {"PENDING_DEPOSIT", "ACTIVE", "DEFAULTED", "COMPLETED", "CANCELLED"}
Actions == {"none", "EXTEND", "LOCK", "RELEASE", "NONE"}

\* Every date held, sent or recorded is a date within the cap (maxUnlockHorizonDays), the
\* record of what was sent is one of reconcileContract's actions, and a removed phone is one
\* that was switched on.
TypeOK ==
    /\ contract \in [status : Statuses, slack : Dates, owes : BOOLEAN, reversed : BOOLEAN]
    /\ furthest \in Dates
    /\ device \in [enrol : {"QUEUED", "ACTIVE", "REMOVED"}, linked : BOOLEAN, held : Dates,
                    fp : [action : Actions, date : Dates],
                    doubt : BOOLEAN,
                    awaiting : BOOLEAN, release : BOOLEAN]
    /\ date \in Dates \cup {Free}
    /\ phone \in [on : BOOLEAN, date : Dates \cup {Free}]
    /\ Free \in {date, phone.date} => phone.on
    /\ inbox \in BOOLEAN
    /\ pc \in [Handlers -> {"idle", "note", "send", "record", "release"}]
    /\ dec \in [Handlers -> [action : Actions, date : Dates]]
    /\ pinning \in BOOLEAN
    /\ mishaps \in 0..MaxMishaps

\* Until a contract is paid off neither PayTrigger nor the phone has a date later than it was ever
\* paid up to, and its lock is not removed: whichever reconcile sends last, from whatever it read,
\* and whatever the next instalment is by then.
OpenOnlyAsPaid ==
    contract.status # "COMPLETED" => date <= furthest /\ phone.date <= furthest

\* Paid off, or up to an instalment whose lock moment is the next to pass: a phone is read the
\* day before its date passes, and one that is paid up to a later one comes to that day.
PaidUp == {Contract("COMPLETED", 0, FALSE), Contract("ACTIVE", 1, FALSE)}

\* A switched-on phone whose contract is paid up and stays as it is opens, or staff are shown
\* it among those paid and still locked (awaitingPinSince), or its lock is removed: whatever
\* sends failed, were lost with a process or overtook one another, and though the phone may
\* never come online.
PaidPhoneOpensOrIsShown ==
    \A paid \in PaidUp :
        (phone.on /\ contract = paid)
            ~> (Open \/ device.awaiting \/ device.enrol = "REMOVED" \/ contract # paid)

MustLock ==
    \/ contract.status \in {"DEFAULTED", "CANCELLED"}
    \/ contract.status = "ACTIVE" /\ contract.slack = 0

\* The phone of a contract that stays unpaid is locked for good, unless its lock was removed
\* while the contract was paid off: whatever date it was left with passes though no lock was
\* ever sent to it, and no reconcile, forced or repeated, no callback and no PIN opens it
\* again ("missing a day never leaves one open", runPayTriggerSweep).
UnpaidPhoneStaysLocked ==
    SF_vars(Tick) /\ <>[]MustLock => <>[](~Open \/ date = Free)

\* "A reversal can un-complete a contract: a release no longer due is called off": the lock is
\* not removed from a phone whose customer is found not to have paid.
ReversedIsNotReleased ==
    [][pc'[Direct] = "release" /\ pc[Direct] # "release" => ~contract.reversed]_vars
=============================================================================

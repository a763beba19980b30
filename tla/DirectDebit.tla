----------------------------- MODULE DirectDebit -----------------------------
(***************************************************************************)
(* Direct debits of one contract: the morning run collects what is due and *)
(* retries what bounced, staff may charge at any time, and Hubtel's answer *)
(* comes at once, later, or never, when the five-minute sweep gives up.    *)
(* The run, the callbacks and staff overlap at their awaits and may die    *)
(* there.  What happens to a collected charge beyond its claim is in       *)
(* HubtelCharge, and is one step here.  Amounts are left out.              *)
(***************************************************************************)
EXTENDS Integers, Sequences, FiniteSets

CONSTANTS
    Run,            \* the 08:00 job
    Callbacks,      \* handlers of callbacks, of the sweep and of charges by hand
    PaymentMethod,  \* Contract.paymentMethod
    RetryScheduleDays, \* RETRY_SCHEDULE_DAYS
    MaxDebits,      \* bound: debits ever asked for
    MaxMishaps,     \* bound: charges by hand and handlers that die, together
    Days            \* whether the business is open, over the days that come

ASSUME RetryScheduleAssumption == RetryScheduleDays \in Seq(1..7)
ASSUME DaysAssumption == Days \subseteq BOOLEAN
ASSUME HandlersAssumption == Run \notin Callbacks
ASSUME BoundsAssumption == MaxDebits \in Nat /\ MaxMishaps \in Nat

Handlers == {Run} \cup Callbacks
Debits == 1..MaxDebits
Never == 99         \* nextRetryAt is null

VARIABLES
    status,     \* HubtelTransaction.status, "none" before the row exists
    byHand,     \* the debits staff asked for
    retryCount,
    retryIn,    \* days until nextRetryAt
    parent,     \* the debit a retry replaces, 0 for none
    wallet,     \* what Hubtel did
    recorded,   \* the debits in the ledger
    owing,      \* what may be asked of the contract today
    working,    \* the business is open (looked at by the run alone)
    pc, on,     \* where each handler is, and its debit
    queue,      \* the run's list of retries
    deaths

rowVars == <<status, byHand, retryCount, retryIn, parent>>
handlerVars == <<pc, on, queue>>
vars == <<rowVars, wallet, recorded, owing, working, handlerVars, deaths>>

Init ==
    /\ status = [d \in Debits |-> "none"]
    /\ byHand = {}
    /\ retryCount = [d \in Debits |-> 0]
    /\ retryIn = [d \in Debits |-> Never]
    /\ parent = [d \in Debits |-> 0]
    /\ wallet = [d \in Debits |-> "untouched"]
    /\ recorded = {}
    /\ owing = "nothing"
    /\ working = TRUE
    /\ pc = [h \in Handlers |-> "idle"]
    /\ on = [h \in Handlers |-> 0]
    /\ queue = {}
    /\ deaths = 0

GoTo(h, at) == pc' = [pc EXCEPT ![h] = at]

\* What follows a settled or an answered call: the run lists its retries after the
\* collection and goes on with them, others are done.
Proceed(h) ==
    /\ GoTo(h, IF h # Run THEN "idle" ELSE IF parent[on[h]] = 0 THEN "list" ELSE "retries")
    /\ on' = [on EXCEPT ![h] = 0]

-----------------------------------------------------------------------------
(* The world: days, the customer, the contract and its mandate, Hubtel. *)

\* A day begins with the run.  An instalment falls due, what was due is overdue.
NextDay(open) ==
    /\ \A h \in Handlers : pc[h] = "idle"
    /\ working' = open
    /\ owing' \in CASE owing = "nothing" -> {"nothing", "due"}
                    [] owing \in {"due", "overdue"} -> {"overdue"}
                    [] owing = "closed" -> {"closed"}
    /\ retryIn' = [d \in Debits |-> IF retryIn[d] \in 1..7 THEN retryIn[d] - 1 ELSE retryIn[d]]
    /\ GoTo(Run, "collect")
    /\ UNCHANGED <<status, byHand, retryCount, parent, wallet, recorded, on, queue, deaths>>

\* "due" and "overdue" are of an ACTIVE contract with an APPROVED mandate attached, "nothing"
\* of one that has no due amount, no such mandate, or is not ACTIVE for a while.  It is
\* paid, in part or in full, it defaults and is cured, it is cancelled; the mandate is
\* revoked, detached, or approved anew (Mandate).
ContractMoves ==
    /\ owing # "closed"
    /\ owing' \in {"nothing", "overdue", "closed"} \ {owing}
    /\ UNCHANGED <<rowVars, wallet, recorded, working, handlerVars, deaths>>

\* No customer has to approve: a debit Hubtel took on may be taken, soon or late, or never.
WalletIsDebited(d) ==
    /\ wallet[d] = "asked"
    /\ wallet' = [wallet EXCEPT ![d] = "taken"]
    /\ UNCHANGED <<rowVars, recorded, owing, working, handlerVars, deaths>>

\* A handler dies between two awaits.
Die(h) ==
    /\ pc[h] # "idle"
    /\ Cardinality(byHand) + deaths < MaxMishaps
    /\ deaths' = deaths + 1
    /\ GoTo(h, "idle")
    /\ on' = [on EXCEPT ![h] = 0]
    /\ queue' = IF h = Run THEN {} ELSE queue
    /\ UNCHANGED <<rowVars, wallet, recorded, owing, working>>

-----------------------------------------------------------------------------
(* chargeDirectDebit *)

\* A new row, written before Hubtel is called.
CreateRow(replaces, hand) ==
    \E d \in Debits :
        /\ \A e \in Debits : status[e] = "none" <=> e >= d
        /\ status' = [status EXCEPT ![d] = "PENDING"]
        /\ byHand' = IF hand THEN byHand \cup {d} ELSE byHand
        /\ parent' = [parent EXCEPT ![d] = replaces]
        /\ retryCount' = [retryCount EXCEPT ![d] = IF replaces = 0 THEN 0 ELSE retryCount[replaces]]
        /\ on' = IF hand THEN on ELSE [on EXCEPT ![Run] = d]
        /\ UNCHANGED retryIn

Chargeable == owing \in {"due", "overdue"}

\* "Charge now", for any amount of the balance, due or not, and its call to Hubtel: taken
\* on; refused, which ReceiveFailure settles; or never made.
StaffCharge ==
    /\ Cardinality(byHand) + deaths < MaxMishaps
    /\ owing # "closed"
    /\ CreateRow(0, TRUE)
    /\ \E d \in Debits :
          /\ status'[d] # status[d]
          /\ wallet' \in {wallet, [wallet EXCEPT ![d] = "asked"]}
    /\ UNCHANGED <<recorded, owing, working, pc, queue, deaths>>

\* processDirectDebitCallback's claim: a success overrides a failure and calls off its
\* retry, a failure only settles a pending row, and schedules the next attempt there is.
Settle(h, d, result) ==
    /\ status' = [status EXCEPT ![d] = result]
    /\ retryIn' = [retryIn EXCEPT ![d] = IF result = "SUCCESS" THEN Never ELSE @]
    /\ GoTo(h, IF result = "SUCCESS" THEN "record" ELSE "schedule")
    /\ on' = [on EXCEPT ![h] = d]
    /\ UNCHANGED <<byHand, retryCount, parent, recorded, owing, working, queue, deaths>>

\* Hubtel refuses outright, and the run settles the row itself.
CallRefused ==
    /\ pc[Run] = "call"
    /\ Settle(Run, on[Run], "FAILED")
    /\ UNCHANGED wallet

\* Hubtel takes the debit on, whether or not its answer arrives.
CallTaken ==
    /\ pc[Run] = "call"
    /\ wallet' = [wallet EXCEPT ![on[Run]] = "asked"]
    /\ Proceed(Run)
    /\ UNCHANGED <<rowVars, recorded, owing, working, queue, deaths>>

\* A callback, or the sweep's status check, brings Hubtel's answer.
ReceiveSuccess(h, d) ==
    /\ h \in Callbacks
    /\ pc[h] = "idle"
    /\ wallet[d] = "taken"
    /\ status[d] \in {"PENDING", "FAILED"}
    /\ Settle(h, d, "SUCCESS")
    /\ UNCHANGED wallet

\* It failed; or it has gone fifteen minutes unanswered and the sweep gives it up.
ReceiveFailure(h, d) ==
    /\ h \in Callbacks
    /\ pc[h] = "idle"
    /\ wallet[d] # "taken"
    /\ status[d] = "PENDING"
    /\ \A g \in Handlers : on[g] # d
    /\ Settle(h, d, "FAILED")
    /\ UNCHANGED wallet

\* In whole days from the start of today.
Schedule(h) ==
    /\ pc[h] = "schedule"
    /\ IF retryCount[on[h]] < Len(RetryScheduleDays)
       THEN /\ retryCount' = [retryCount EXCEPT ![on[h]] = @ + 1]
            /\ retryIn' = [retryIn EXCEPT ![on[h]] = RetryScheduleDays[retryCount[on[h]] + 1]]
       ELSE UNCHANGED <<retryCount, retryIn>>
    /\ Proceed(h)
    /\ UNCHANGED <<status, byHand, parent, wallet, recorded, owing, working, queue, deaths>>

\* recordSuccessfulHubtelCharge: into the ledger, unless the contract is closed or owes
\* less than the amount; then it is put before staff.
Record(h) ==
    /\ pc[h] = "record"
    /\ \/ /\ owing # "closed"
          /\ recorded' = recorded \cup {on[h]}
          /\ owing' \in {owing, "nothing", "closed"}
          /\ UNCHANGED status
       \/ /\ on[h] \notin recorded
          /\ status' = [status EXCEPT ![on[h]] = "NEEDS_REVIEW"]
          /\ UNCHANGED <<recorded, owing>>
    /\ Proceed(h)
    /\ UNCHANGED <<byHand, retryCount, retryIn, parent, wallet, working, queue, deaths>>

\* A success whose handler died before recording it is taken up by the sweep.
RetryUnrecorded(h, d) ==
    /\ h \in Callbacks
    /\ pc[h] = "idle"
    /\ status[d] = "SUCCESS"
    /\ d \notin recorded
    /\ \A g \in Handlers : on[g] # d
    /\ GoTo(h, "record")
    /\ on' = [on EXCEPT ![h] = d]
    /\ UNCHANGED <<rowVars, wallet, recorded, owing, working, queue, deaths>>

-----------------------------------------------------------------------------
(* runDirectDebitCollections *)

\* Nothing is collected on a day the business is closed nor, in BOTH, before the customer
\* has let the instalment go overdue.
ReadContract ==
    /\ pc[Run] = "collect"
    /\ GoTo(Run, IF working /\ Chargeable /\ (PaymentMethod = "BOTH" => owing = "overdue")
                 THEN "busy" ELSE "list")
    /\ UNCHANGED <<rowVars, wallet, recorded, owing, working, on, queue, deaths>>

\* Slip: a debit that failed for good stays in hand.
MutFailedInHand(d) == status[d] \in {"PENDING", "FAILED"}

\* An attempt in hand: unanswered, or failed with its retry to come.
InHand(d) == status[d] = "PENDING" \/ (status[d] = "FAILED" /\ retryIn[d] # Never)

ReadInHand ==
    /\ pc[Run] = "busy"
    /\ GoTo(Run, IF \E d \in Debits : InHand(d) THEN "list" ELSE "charge")
    /\ UNCHANGED <<rowVars, wallet, recorded, owing, working, on, queue, deaths>>

\* chargeDirectDebit reads the contract again, and not what is due of it: an amount that has
\* been paid meanwhile is asked for all the same, unless the contract no longer runs, has no
\* approved mandate or owes less.  The run goes on past a refusal.
Charge ==
    /\ pc[Run] = "charge"
    /\ \/ owing # "closed" /\ CreateRow(0, FALSE) /\ GoTo(Run, "call")
       \/ ~Chargeable /\ GoTo(Run, "list") /\ UNCHANGED <<rowVars, on>>
    /\ UNCHANGED <<wallet, recorded, owing, working, queue, deaths>>

-----------------------------------------------------------------------------
(* retryFailedDirectDebits *)

ListRetries ==
    /\ pc[Run] = "list"
    /\ queue' = {d \in Debits : status[d] = "FAILED" /\ retryIn[d] = 0}
    /\ GoTo(Run, "retries")
    /\ UNCHANGED <<rowVars, wallet, recorded, owing, working, on, deaths>>

\* Slip: the retry goes out beside an unanswered attempt.
MutRetryAnyway(d) ==
    /\ pc[Run] = "retries"
    /\ d \in queue
    /\ queue' = queue \ {d}
    /\ GoTo(Run, "create")
    /\ on' = [on EXCEPT ![Run] = d]
    /\ UNCHANGED <<rowVars, wallet, recorded, owing, working, deaths>>

\* The contract is read afresh: a retry with nothing left to ask for is called off, one
\* that finds an attempt unanswered stays due for the next run.
LookAtRetry(d) ==
    /\ pc[Run] = "retries"
    /\ d \in queue
    /\ queue' = queue \ {d}
    /\ IF ~Chargeable
       THEN retryIn' = [retryIn EXCEPT ![d] = Never] /\ UNCHANGED <<pc, on>>
       ELSE /\ IF \E e \in Debits : status[e] = "PENDING"
               THEN UNCHANGED <<pc, on>>
               ELSE GoTo(Run, "create") /\ on' = [on EXCEPT ![Run] = d]
            /\ UNCHANGED retryIn
    /\ UNCHANGED <<status, byHand, retryCount, parent, wallet, recorded, owing, working, deaths>>

CreateRetry ==
    /\ pc[Run] = "create"
    /\ CreateRow(on[Run], FALSE)
    /\ GoTo(Run, "callOff")
    /\ UNCHANGED <<wallet, recorded, owing, working, queue, deaths>>

\* Slip: the bounced row keeps its retry date.
MutKeepDate ==
    /\ pc[Run] = "callOff"
    /\ GoTo(Run, "call")
    /\ UNCHANGED <<rowVars, wallet, recorded, owing, working, on, queue, deaths>>

\* The new row carries the chain on; the old one is never picked up again.
CallOff ==
    /\ pc[Run] = "callOff"
    /\ retryIn' = [retryIn EXCEPT ![parent[on[Run]]] = Never]
    /\ GoTo(Run, "call")
    /\ UNCHANGED <<status, byHand, retryCount, parent, wallet, recorded, owing, working,
                   on, queue, deaths>>

EndRun ==
    /\ pc[Run] = "retries"
    /\ queue = {}
    /\ working' = TRUE
    /\ GoTo(Run, "idle")
    /\ UNCHANGED <<rowVars, wallet, recorded, owing, on, queue, deaths>>

-----------------------------------------------------------------------------
Step(h) == Schedule(h) \/ Record(h)

RunStep ==
    \/ ReadContract
    \/ ReadInHand
    \/ Charge
    \/ CallRefused
    \/ CallTaken
    \/ ListRetries
    \/ \E d \in Debits : LookAtRetry(d)
    \/ CreateRetry
    \/ CallOff
    \/ EndRun

Next ==
    \/ \E open \in Days : NextDay(open)
    \/ ContractMoves
    \/ RunStep
    \/ \E h \in Handlers : Step(h) \/ Die(h)
    \/ \E d \in Debits : WalletIsDebited(d)
    \/ StaffCharge
    \/ \E h \in Callbacks, d \in Debits :
          \/ ReceiveSuccess(h, d)
          \/ ReceiveFailure(h, d)
          \/ RetryUnrecorded(h, d)

Spec == Init /\ [][Next]_vars

\* Working days come; handlers that do not die go on; the sweep, every five minutes, settles
\* what is unanswered, for which Hubtel has to answer some of its status checks, in whichever
\* way.  Nothing is assumed of callbacks, of the customer's wallet or of people.
Fairness ==
    /\ WF_vars(RunStep)
    /\ \A h \in Handlers : WF_vars(Step(h))
    /\ SF_vars(NextDay(TRUE))
    /\ \A d \in Debits : SF_vars(\E h \in Callbacks : ReceiveSuccess(h, d) \/ ReceiveFailure(h, d))

FairSpec == Spec /\ Fairness

-----------------------------------------------------------------------------
(* Properties. *)

TypeOK ==
    /\ status \in [Debits -> {"none", "PENDING", "SUCCESS", "FAILED", "NEEDS_REVIEW"}]
    /\ byHand \subseteq Debits
    /\ retryCount \in [Debits -> 0..Len(RetryScheduleDays)]
    /\ retryIn \in [Debits -> 0..7 \cup {Never}]
    /\ parent \in [Debits -> 0..MaxDebits]
    /\ wallet \in [Debits -> {"untouched", "asked", "taken"}]
    /\ recorded \subseteq Debits
    /\ owing \in {"nothing", "due", "overdue", "closed"}
    /\ working \in BOOLEAN
    /\ on \in [Handlers -> 0..MaxDebits]
    /\ queue \subseteq Debits

\* "Wait for it rather than risk both succeeding": what the morning run asks for by itself,
\* collections and retries, over any days, deaths and staff charges, is never waiting for
\* two answers at once.
OneUnanswered == Cardinality({d \in Debits \ byHand : status[d] = "PENDING"}) <= 1

\* A bounced debit is followed by one retry; only a death between the new row and the
\* calling off of the old one makes it two.
RetriedOnce ==
    \A d \in Debits : Cardinality({e \in Debits : parent[e] = d}) <= 1 + deaths

\* However attempts bounce, go unanswered or lose their handler, a contract that stays
\* overdue under an approved mandate is asked again and again (here: until the model has no
\* debit left).
KeepsAsking == <>[](owing = "overdue") => <>(\A d \in Debits : status[d] # "none")
=============================================================================

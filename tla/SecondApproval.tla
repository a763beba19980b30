--------------------------- MODULE SecondApproval ---------------------------
(***************************************************************************)
(* Two people for what takes money off the books: whoever asks files a     *)
(* request, and it happens when another person who may do the same         *)
(* approves it.  The requests here are of one kind and about one payment   *)
(* or contract; whether it can happen twice is the ledger's own matter.    *)
(***************************************************************************)
CONSTANTS
    People,     \* those who may ask for the action and approve it
    Requests,   \* rows they may file about it
    Handlers,   \* calls that may overlap
    None

VARIABLES
    status,     \* ApprovalRequest.status of each row, and who asked and decided
    doneFor,    \* requests the action was carried out for
    call,       \* what each call is doing, for which row, by whom
    lost        \* requests whose call died

vars == <<status, doneFor, call, lost>>

Idle == [at |-> "idle", on |-> None, by |-> None, decision |-> "none"]

Init ==
    /\ status = [q \in Requests |-> [is |-> "none", asked |-> None, decided |-> None]]
    /\ doneFor = {}
    /\ call = [h \in Handlers |-> Idle]
    /\ lost = {}

Done(h) == call' = [call EXCEPT ![h] = Idle]
Goes(h, at) == call' = [call EXCEPT ![h].at = at]

-----------------------------------------------------------------------------
(* requestApproval *)

\* One that is waiting already is an error; otherwise a row is made, by then maybe a second.
FindWaiting(h, q, p) ==
    /\ call[h].at = "idle"
    /\ status[q].is = "none"
    /\ \A other \in Handlers : call[other].on # q
    /\ \A other \in Requests : status[other].is # "PENDING"
    /\ call' = [call EXCEPT ![h] = [at |-> "create", on |-> q, by |-> p, decision |-> "none"]]
    /\ UNCHANGED <<status, doneFor, lost>>

CreateRequest(h) ==
    /\ call[h].at = "create"
    /\ status' = [status EXCEPT ![call[h].on] = [is |-> "PENDING", asked |-> call[h].by, decided |-> None]]
    /\ Done(h)
    /\ UNCHANGED <<doneFor, lost>>

-----------------------------------------------------------------------------
(* decideApproval *)

\* Whoever asked may withdraw the request, and never approve it.  The status is not looked at.
ReadRequest(h, q, p, decision) ==
    /\ call[h].at = "idle"
    /\ status[q].is # "none"
    /\ decision = "APPROVED" => status[q].asked # p
    /\ call' = [call EXCEPT ![h] = [at |-> "claim", on |-> q, by |-> p, decision |-> decision]]
    /\ UNCHANGED <<status, doneFor, lost>>

\* Slip: the claim does not ask that the request be pending.
MutClaim(h) ==
    /\ call[h].at = "claim"
    /\ status' = [status EXCEPT ![call[h].on].is = call[h].decision, ![call[h].on].decided = call[h].by]
    /\ IF call[h].decision = "APPROVED" THEN Goes(h, "carry out") ELSE Done(h)
    /\ UNCHANGED <<doneFor, lost>>

\* One decision wins: a request decided meanwhile is an error.
Claim(h) ==
    /\ call[h].at = "claim"
    /\ LET q == call[h].on IN
       IF status[q].is = "PENDING"
       THEN /\ status' = [status EXCEPT ![q].is = call[h].decision, ![q].decided = call[h].by]
            /\ IF call[h].decision = "APPROVED" THEN Goes(h, "carry out") ELSE Done(h)
       ELSE UNCHANGED status /\ Done(h)
    /\ UNCHANGED <<doneFor, lost>>

\* carryOut: the action happens, in one write or transaction, or is refused.
CarryOut(h) ==
    /\ call[h].at = "carry out"
    /\ \/ doneFor' = doneFor \cup {call[h].on} /\ Done(h)
       \/ Goes(h, "put back") /\ UNCHANGED doneFor
    /\ UNCHANGED <<status, lost>>

\* Refused, so nothing happened, and the request is open again.
PutBack(h) ==
    /\ call[h].at = "put back"
    /\ status' = [status EXCEPT ![call[h].on].is = "PENDING", ![call[h].on].decided = None]
    /\ Done(h)
    /\ UNCHANGED <<doneFor, lost>>

\* The process dies.
Die(h) ==
    /\ call[h].at # "idle"
    /\ lost' = lost \cup {call[h].on}
    /\ Done(h)
    /\ UNCHANGED <<status, doneFor>>

-----------------------------------------------------------------------------
Next ==
    \/ \E h \in Handlers, q \in Requests, p \in People :
          \/ FindWaiting(h, q, p)
          \/ \E decision \in {"APPROVED", "REJECTED"} : ReadRequest(h, q, p, decision)
    \/ \E h \in Handlers : CreateRequest(h) \/ Claim(h) \/ CarryOut(h) \/ PutBack(h) \/ Die(h)

Spec == Init /\ [][Next]_vars

-----------------------------------------------------------------------------
(* Properties. *)

TypeOK ==
    /\ status \in [Requests -> [is : {"none", "PENDING", "APPROVED", "REJECTED"},
                                asked : People \cup {None}, decided : People \cup {None}]]
    /\ doneFor \subseteq Requests
    /\ lost \subseteq Requests
    /\ \A h \in Handlers : call[h].at \in {"idle", "create", "claim", "carry out", "put back"}

\* What was done for a request stays approved, by somebody else than who asked: no decision
\* that comes later, and no call that failed, reopens or rejects it.  And a request that reads
\* as approved was carried out, is being, or lost the call that was to: never both put aside
\* and approved.
ApprovedIsCarriedOut ==
    \A q \in Requests :
        /\ q \in doneFor => status[q].is = "APPROVED" /\ status[q].asked # status[q].decided
        /\ status[q].is = "APPROVED" =>
              \/ q \in doneFor \cup lost
              \/ \E h \in Handlers : call[h].on = q /\ call[h].at \in {"carry out", "put back"}
=============================================================================

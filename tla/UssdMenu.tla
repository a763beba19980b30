------------------------------ MODULE UssdMenu ------------------------------
(***************************************************************************)
(* Paying by USSD: the gateway walks a customer through a menu kept in a   *)
(* session row, one input a call, and the last reply hands them to         *)
(* Hubtel's checkout with a cart, leaving behind a pending row keyed on    *)
(* Hubtel's session id.  Calls of one session may overlap: each goes by    *)
(* the row it read.  What Hubtel then does is Fulfilment's.                *)
(***************************************************************************)
EXTENDS Integers

CONSTANTS
    Sessions,      \* Hubtel's session ids, all dialled from one phone
    Contracts,     \* what that customer can pay on
    Loans,         \* those of them that are device loans
    Requests,      \* the gateway's calls that may overlap
    MaxOwed,       \* bound: what a contract owes
    MaxLives,      \* bound: times the menu of one session is opened
    None

VARIABLES
    menu,      \* UssdSession of each session: state, contract, amount and which life of it
    req,       \* what each call is doing, and the menu row it read
    row,       \* HubtelTransaction of each session: status, contract and amount
    young,     \* the row is less than five minutes old
    carts      \* carts Hubtel was given for each session

vars == <<menu, req, row, young, carts>>

Closed(life) == [state |-> "none", contract |-> None, amount |-> 0, life |-> life]

Init ==
    /\ menu = [s \in Sessions |-> Closed(0)]
    /\ req = [r \in Requests |-> [at |-> "idle", session |-> None, saw |-> Closed(0)]]
    /\ row = [s \in Sessions |-> [status |-> "none", contract |-> None, amount |-> 0]]
    /\ young = [s \in Sessions |-> FALSE]
    /\ carts = [s \in Sessions |-> {}]

-----------------------------------------------------------------------------
(* Time passes; what became of the cart is recorded on the row. *)

FiveMinutesPass(s) ==
    /\ young[s]
    /\ young' = [young EXCEPT ![s] = FALSE]
    /\ UNCHANGED <<menu, req, row, carts>>

RowSettles(s) ==
    /\ row[s].status = "PENDING"
    /\ row' = [row EXCEPT ![s].status = "settled"]
    /\ UNCHANGED <<menu, req, young, carts>>

-----------------------------------------------------------------------------
(* handleUssdInput *)

Goes(r, at) == req' = [req EXCEPT ![r].at = at]
Done(r) == req' = [req EXCEPT ![r] = [at |-> "idle", session |-> None, saw |-> Closed(0)]]

EndSession(s) == menu' = [menu EXCEPT ![s] = Closed(@.life)]

\* startSession, on a first call or one of a session that is gone or over its five minutes:
\* the row is created, in the place of one that is out of time.
StartSession(s) ==
    /\ menu[s].life < MaxLives
    /\ menu' = [menu EXCEPT ![s] = [Closed(@.life + 1) EXCEPT !.state = "MAIN_MENU"]]
    /\ UNCHANGED <<req, row, young, carts>>

\* The gateway reports that the customer hung up, or pruneExpiredUssdSessions finds the row
\* out of time.
DropSession(s) ==
    /\ menu[s].state # "none"
    /\ EndSession(s)
    /\ UNCHANGED <<req, row, young, carts>>

\* Any other call reads the row.
Receive(r, s) ==
    /\ req[r].at = "idle"
    /\ menu[s].state # "none"
    /\ req' = [req EXCEPT ![r] = [at |-> "reply", session |-> s, saw |-> menu[s]]]
    /\ UNCHANGED <<menu, row, young, carts>>

At(was, state) == [was EXCEPT !.state = state]

NextStateFor(k) == IF k \in Loans THEN "DEVICE_LOAN_CHOOSE" ELSE "ENTER_AMOUNT"

\* beginForCustomer: nothing to pay on, one contract, or a list to choose from.
BeginForCustomer(was, owed) ==
    LET payable == {k \in Contracts : owed[k] > 0} IN
    IF \E k, l \in payable : k # l
    THEN {At(was, "SELECT_CONTRACT")}
    ELSE {[At(was, NextStateFor(k)) EXCEPT !.contract = k] : k \in payable}

\* The rows the menu can move to on one input, given what the contracts owe when it looks.
Advances(was, owed) ==
    CASE was.state = "MAIN_MENU" ->
            BeginForCustomer(was, owed) \cup {At(was, "NO_CONTRACT"), At(was, "ENTER_ALT_PHONE")}
      [] was.state = "NO_CONTRACT" -> {At(was, "ENTER_ALT_PHONE"), Closed(was.life)}
      [] was.state = "ENTER_ALT_PHONE" -> BeginForCustomer(was, owed) \cup {At(was, "MAIN_MENU")}
      [] was.state = "SELECT_CONTRACT" ->
            {[At(was, NextStateFor(k)) EXCEPT !.contract = k] : k \in Contracts}
      [] was.state \in {"ENTER_AMOUNT", "DEVICE_LOAN_CHOOSE"} ->
            {[At(was, "CONFIRM") EXCEPT !.amount = a] : a \in 1..owed[was.contract]}
                \cup {Closed(was.life)}
      [] was.state = "CONFIRM" -> {Closed(was.life)}

\* The move goes by the row the call read and is written over the row as it is now.  It is
\* found again by its own id, which a row made anew does not have, except by
\* beginForCustomer, which goes by the session's.  Or the input is only asked for again.
Reply(r) ==
    /\ req[r].at = "reply"
    /\ LET s == req[r].session
           saw == req[r].saw IN
       \/ \E owed \in [Contracts -> 0..MaxOwed] : \E m \in Advances(saw, owed) :
             /\ menu[s].state # "none"
             /\ menu[s].life = saw.life \/ m \in BeginForCustomer(saw, owed)
             /\ menu' = [menu EXCEPT ![s] = [m EXCEPT !.life = menu[s].life]]
       \/ UNCHANGED menu
    /\ Done(r)
    /\ UNCHANGED <<row, young, carts>>

\* A prompt this phone has not answered yet, for this contract.
WaitingPrompt(k) ==
    \E s \in Sessions : row[s].status = "PENDING" /\ row[s].contract = k /\ young[s]

\* Confirmed: the session ends; then a closed day or a waiting prompt can still refuse.
Confirm(r) ==
    /\ req[r].at = "reply" /\ req[r].saw.state = "CONFIRM"
    /\ LET s == req[r].session IN
       IF menu[s].life = req[r].saw.life THEN EndSession(s) ELSE UNCHANGED menu
    /\ \/ Done(r)
       \/ ~WaitingPrompt(req[r].saw.contract) /\ Goes(r, "find")
    /\ UNCHANGED <<row, young, carts>>

-----------------------------------------------------------------------------
(* beginUssdCheckout *)

Cart(saw) == [contract |-> saw.contract, amount |-> saw.amount]
RowCart(s) == [contract |-> row[s].contract, amount |-> row[s].amount]

AnswerCart(r, s) == carts' = [carts EXCEPT ![s] = @ \cup {Cart(req[r].saw)}]

\* Slip: a session seen before is taken for the same confirmation.
MutFindCheckout(r) ==
    /\ req[r].at = "find"
    /\ LET s == req[r].session IN
       IF row[s].status = "none" THEN Goes(r, "create") /\ UNCHANGED carts
       ELSE Done(r) /\ AnswerCart(r, s)
    /\ UNCHANGED <<menu, row, young>>

\* The same confirmation seen before gets the same cart, a different one of the same session
\* is refused, and a first one gets a row.
FindCheckout(r) ==
    /\ req[r].at = "find"
    /\ LET s == req[r].session IN
       \/ row[s].status = "none" /\ Goes(r, "create") /\ UNCHANGED carts
       \/ row[s].status # "none" /\ RowCart(s) = Cart(req[r].saw) /\ Done(r) /\ AnswerCart(r, s)
       \/ row[s].status # "none" /\ RowCart(s) # Cart(req[r].saw) /\ Done(r) /\ UNCHANGED carts
    /\ UNCHANGED <<menu, row, young>>

\* clientReference is unique: a row made meanwhile is an error.
CreateCheckout(r) ==
    /\ req[r].at = "create"
    /\ LET s == req[r].session IN
       IF row[s].status = "none"
       THEN /\ row' = [row EXCEPT ![s] =
                [status |-> "PENDING", contract |-> req[r].saw.contract, amount |-> req[r].saw.amount]]
            /\ young' = [young EXCEPT ![s] = TRUE]
            /\ AnswerCart(r, s)
       ELSE UNCHANGED <<row, young, carts>>
    /\ Done(r)
    /\ UNCHANGED <<menu>>

-----------------------------------------------------------------------------
Next ==
    \/ \E s \in Sessions :
          \/ FiveMinutesPass(s) \/ RowSettles(s)
          \/ StartSession(s) \/ DropSession(s)
    \/ \E r \in Requests :
          \/ Reply(r) \/ Confirm(r) \/ FindCheckout(r) \/ CreateCheckout(r)
          \/ \E s \in Sessions : Receive(r, s)

Spec == Init /\ [][Next]_vars

-----------------------------------------------------------------------------
(* Properties. *)

MenuStates == {"none", "MAIN_MENU", "NO_CONTRACT", "ENTER_ALT_PHONE", "SELECT_CONTRACT",
               "ENTER_AMOUNT", "DEVICE_LOAN_CHOOSE", "CONFIRM"}
Menus == [state : MenuStates, contract : Contracts \cup {None}, amount : 0..MaxOwed, life : 0..MaxLives]

TypeOK ==
    /\ menu \in [Sessions -> Menus]
    /\ \A r \in Requests :
          /\ req[r].at \in {"idle", "reply", "find", "create"}
          /\ req[r].saw \in Menus
          /\ req[r].at \in {"find", "create"} => req[r].saw.state = "CONFIRM" /\ req[r].saw.amount > 0
    /\ row \in [Sessions -> [status : {"none", "PENDING", "settled"},
                             contract : Contracts \cup {None}, amount : 0..MaxOwed]]
    /\ young \in [Sessions -> BOOLEAN]

\* "The same confirmation arriving twice, which must not become two payments": however often
\* a session is confirmed or dialled again, Hubtel is given one cart for it, the one the row
\* that will be credited says.
OneCartASession == \A s \in Sessions : carts[s] \subseteq {RowCart(s)}
=============================================================================

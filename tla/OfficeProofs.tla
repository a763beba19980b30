---------------------------- MODULE OfficeProofs ----------------------------
(***************************************************************************)
(* For any sessions, mandates, phones, people, days and calls that         *)
(* overlap, what Office's parts promise and the types they keep.  A part's *)
(* invariant is about its own variables, which the steps of the others     *)
(* leave alone, so each is proved over its own steps, its types after it,  *)
(* and put together at the end.                                            *)
(***************************************************************************)
EXTENDS Office, WellFoundedInduction, TLAPS

-----------------------------------------------------------------------------
(* The menu: a row is made once, where there was none, and before it is made no cart was    *)
(* given; from then on its cart is the only one that can be.  Of the menu nothing is needed: *)
(* whatever a call read and however late it confirms, the row decides.                      *)

\* Rows and calls have their fields, and a call that confirms is of a session.
MenuShape ==
    /\ cartRow = [s \in Sessions |-> cartRow[s]]
    /\ carts = [s \in Sessions |-> carts[s]]
    /\ req = [r \in UssdRequests |-> req[r]]
    /\ \A s \in Sessions :
          cartRow[s] = [status |-> cartRow[s].status, contract |-> cartRow[s].contract, amount |-> cartRow[s].amount]
    /\ \A r \in UssdRequests :
          /\ req[r] = [at |-> req[r].at, session |-> req[r].session, saw |-> req[r].saw]
          /\ req[r].at # "idle" => req[r].session \in Sessions

NoCartBeforeTheRow == \A s \in Sessions : cartRow[s].status = "none" => carts[s] = {}

MenuInv == MenuShape /\ NoCartBeforeTheRow /\ Ussd!OneCartASession

LEMMA MenuInit == Ussd!Init => MenuInv
  BY DEF Ussd!Init, MenuInv, MenuShape, NoCartBeforeTheRow, Ussd!OneCartASession, Ussd!RowCart

\* What leaves the row and the carts alone, and puts calls only in sessions.
LEMMA CallsOnly ==
  ASSUME MenuInv, UNCHANGED <<cartRow, carts>>, MenuShape'
  PROVE  MenuInv'
  BY DEF MenuInv, NoCartBeforeTheRow, Ussd!OneCartASession, Ussd!RowCart

\* A call goes on in its session or ends.
LEMMA CallMoves ==
  ASSUME MenuInv, NEW r \in UssdRequests, NEW at, req[r].at # "idle",
         Ussd!Goes(r, at) \/ Ussd!Done(r), UNCHANGED <<cartRow, carts>>
  PROVE  MenuShape'
<1> USE DEF MenuInv, MenuShape
<1>1. /\ req' = [p \in UssdRequests |-> req'[p]]
      /\ \A p \in UssdRequests \ {r} : req'[p] = req[p]
  BY DEF Ussd!Goes, Ussd!Done
<1>2. CASE Ussd!Done(r)
  <2>1. req'[r] = [at |-> "idle", session |-> None, saw |-> Ussd!Closed(0)]
    BY <1>2 DEF Ussd!Done
  <2>2. QED
    BY <1>1, <2>1
<1>3. CASE Ussd!Goes(r, at)
  <2>1. req'[r] = [req[r] EXCEPT !.at = at]
    BY <1>3 DEF Ussd!Goes
  <2>2. req'[r] = [at |-> at, session |-> req[r].session, saw |-> req[r].saw]
    BY <2>1
  <2>3. QED
    BY <1>1, <2>2
<1>4. QED
  BY <1>2, <1>3

LEMMA ReceiveInv ==
  ASSUME MenuInv, NEW r \in UssdRequests, NEW s \in Sessions, Ussd!Receive(r, s)
  PROVE  MenuInv'
<1>1. MenuShape'
  BY DEF MenuInv, MenuShape, Ussd!Receive
<1>2. QED
  BY <1>1, CallsOnly DEF Ussd!Receive

LEMMA RowSettlesInv ==
  ASSUME MenuInv, NEW s \in Sessions, Ussd!RowSettles(s)
  PROVE  MenuInv'
<1> USE DEF MenuInv, Ussd!RowSettles
<1>1. MenuShape'
  BY DEF MenuShape
<1>2. \A t \in Sessions : Ussd!RowCart(t)' = Ussd!RowCart(t) /\ (cartRow'[t].status = "none" => cartRow[t].status = "none")
  BY DEF MenuShape, Ussd!RowCart
<1>3. QED
  BY <1>1, <1>2 DEF NoCartBeforeTheRow, Ussd!OneCartASession

\* A cart given again is the row's own.
LEMMA FindCheckoutInv ==
  ASSUME MenuInv, NEW r \in UssdRequests, Ussd!FindCheckout(r)
  PROVE  MenuInv'
<1> DEFINE s == req[r].session
<1> USE DEF MenuInv, Ussd!FindCheckout
<1>1. s \in Sessions /\ req[r].at # "idle"
  BY DEF MenuShape
<1>2. CASE UNCHANGED carts
  BY <1>1, <1>2, CallMoves, CallsOnly
<1>3. CASE cartRow[s].status # "none" /\ Ussd!RowCart(s) = Ussd!Cart(req[r].saw) /\ Ussd!Done(r) /\ Ussd!AnswerCart(r, s)
  <2>1. carts' = [carts EXCEPT ![s] = @ \cup {Ussd!RowCart(s)}]
    BY <1>3 DEF Ussd!AnswerCart
  <2>2. MenuShape'
    BY <1>1, <1>3, <2>1 DEF MenuShape, Ussd!Done
  <2>3. \A t \in Sessions : carts'[t] \subseteq carts[t] \cup {Ussd!RowCart(t)} /\ (t # s => carts'[t] = carts[t])
    BY <1>1, <2>1 DEF MenuShape
  <2>4. QED
    BY <1>3, <2>2, <2>3 DEF NoCartBeforeTheRow, Ussd!OneCartASession, Ussd!RowCart
<1>4. QED
  BY <1>2, <1>3

\* The first cart of a session is the one its new row has.
LEMMA CreateCheckoutInv ==
  ASSUME MenuInv, NEW r \in UssdRequests, Ussd!CreateCheckout(r)
  PROVE  MenuInv'
<1> USE DEF MenuInv, Ussd!CreateCheckout
<1>0. PICK s \in Sessions : s = req[r].session
  BY DEF MenuShape
<1>1. s \in Sessions /\ req[r].at # "idle" /\ Ussd!Done(r)
  BY DEF MenuShape
<1>2. CASE cartRow[s].status # "none"
  BY <1>0, <1>1, <1>2, CallMoves, CallsOnly
<1>3. CASE cartRow[s].status = "none"
  <2>1. cartRow' = [cartRow EXCEPT ![s] = [status |-> "PENDING", contract |-> req[r].saw.contract,
                                   amount |-> req[r].saw.amount]]
        /\ carts' = [carts EXCEPT ![s] = @ \cup {Ussd!Cart(req[r].saw)}]
    BY <1>0, <1>3 DEF Ussd!AnswerCart
  <2>2. MenuShape'
    <3>1. \A t \in Sessions : cartRow'[t] = [status |-> cartRow'[t].status, contract |-> cartRow'[t].contract,
                                        amount |-> cartRow'[t].amount]
      BY <1>1, <2>1 DEF MenuShape
    <3>2. cartRow' = [t \in Sessions |-> cartRow'[t]] /\ carts' = [t \in Sessions |-> carts'[t]]
      BY <2>1 DEF MenuShape
    <3>3. /\ req' = [p \in UssdRequests |-> req'[p]]
          /\ \A p \in UssdRequests \ {r} : req'[p] = req[p]
          /\ req'[r] = [at |-> "idle", session |-> None, saw |-> Ussd!Closed(0)]
      BY <1>1 DEF MenuShape, Ussd!Done
    <3>4. \A p \in UssdRequests :
             /\ req'[p] = [at |-> req'[p].at, session |-> req'[p].session, saw |-> req'[p].saw]
             /\ req'[p].at # "idle" => req'[p].session \in Sessions
      BY <3>3 DEF MenuShape
    <3>5. QED
      BY <3>1, <3>2, <3>3, <3>4 DEF MenuShape
  <2>3. carts[s] = {} /\ carts'[s] = {Ussd!Cart(req[r].saw)} /\ Ussd!RowCart(s)' = Ussd!Cart(req[r].saw)
        /\ cartRow'[s].status # "none"
    BY <1>1, <1>3, <2>1 DEF MenuShape, NoCartBeforeTheRow, Ussd!RowCart, Ussd!Cart
  <2>4. \A t \in Sessions \ {s} : carts'[t] = carts[t] /\ cartRow'[t] = cartRow[t]
    BY <1>1, <2>1 DEF MenuShape
  <2>5. QED
    BY <2>2, <2>3, <2>4 DEF NoCartBeforeTheRow, Ussd!OneCartASession, Ussd!RowCart
<1>4. QED
  BY <1>2, <1>3

LEMMA MenuNext == MenuInv /\ [Ussd!Next]_ussdVars => MenuInv'
<1> SUFFICES ASSUME MenuInv, [Ussd!Next]_ussdVars
             PROVE  MenuInv'
  OBVIOUS
<1>1. CASE UNCHANGED <<req, cartRow, carts>>
  <2>1. MenuShape'
    BY <1>1 DEF MenuInv, MenuShape
  <2>2. QED
    BY <1>1, <2>1, CallsOnly
<1>2. ASSUME NEW s \in Sessions,
             Ussd!FiveMinutesPass(s) \/ Ussd!RowSettles(s) \/ Ussd!StartSession(s) \/ Ussd!DropSession(s)
      PROVE  MenuInv'
  BY <1>1, <1>2, RowSettlesInv DEF Ussd!FiveMinutesPass, Ussd!StartSession, Ussd!DropSession
<1>3. ASSUME NEW r \in UssdRequests, Ussd!Reply(r) \/ Ussd!Confirm(r)
      PROVE  MenuInv'
  <2>1. /\ req[r].at # "idle" /\ UNCHANGED <<cartRow, carts>>
        /\ Ussd!Done(r) \/ Ussd!Goes(r, "find")
    BY <1>3 DEF Ussd!Reply, Ussd!Confirm
  <2>2. QED
    BY <2>1, CallMoves, CallsOnly
<1>4. QED
  BY <1>1, <1>2, <1>3, ReceiveInv, FindCheckoutInv, CreateCheckoutInv DEF Ussd!Next, ussdVars

\* Types of the menu: one that pays has its contract, and what is confirmed an amount.
GoodMenu(m) ==
    /\ m \in Ussd!Menus
    /\ m.state \in {"ENTER_AMOUNT", "DEVICE_LOAN_CHOOSE", "CONFIRM"} => m.contract \in Contracts
    /\ m.state = "CONFIRM" => m.amount > 0

MenuTypes ==
    /\ Ussd!TypeOK
    /\ \A s \in Sessions : GoodMenu(menu[s])
    /\ \A r \in UssdRequests :
          /\ GoodMenu(req[r].saw)
          /\ req[r].at # "idle" => req[r].saw.state # "none"

LEMMA ClosedIsGood ==
  ASSUME NEW life \in 0..MaxLives
  PROVE  GoodMenu(Ussd!Closed(life)) /\ Ussd!Closed(life).state = "none"
  BY MenuAssumption DEF Ussd!Closed, GoodMenu, Ussd!Menus, Ussd!MenuStates

\* A menu that moves on has its fields.
LEMMA MenuWritten ==
  ASSUME NEW was \in Ussd!Menus, NEW state \in Ussd!MenuStates
  PROVE  /\ Ussd!At(was, state) \in Ussd!Menus
         /\ Ussd!At(was, state).state = state
         /\ Ussd!At(was, state).contract = was.contract
         /\ \A k \in Contracts : LET m == [Ussd!At(was, state) EXCEPT !.contract = k] IN
                m \in Ussd!Menus /\ m.state = state /\ m.contract = k
         /\ \A a \in 0..MaxOwed : LET m == [Ussd!At(was, state) EXCEPT !.amount = a] IN
                m \in Ussd!Menus /\ m.state = state /\ m.amount = a /\ m.contract = was.contract
  BY DEF Ussd!At, Ussd!Menus

LEMMA BeginsGood ==
  ASSUME NEW was, GoodMenu(was), NEW owed, NEW m \in Ussd!BeginForCustomer(was, owed)
  PROVE  GoodMenu(m)
<1>1. CASE m = Ussd!At(was, "SELECT_CONTRACT")
  BY <1>1, MenuWritten DEF GoodMenu, Ussd!MenuStates
<1>2. ASSUME NEW k \in Contracts, m = [Ussd!At(was, Ussd!NextStateFor(k)) EXCEPT !.contract = k]
      PROVE  GoodMenu(m)
  <2>1. Ussd!NextStateFor(k) \in {"DEVICE_LOAN_CHOOSE", "ENTER_AMOUNT"}
    BY DEF Ussd!NextStateFor
  <2>2. QED
    BY <1>2, <2>1, MenuWritten DEF GoodMenu, Ussd!MenuStates
<1>3. QED
  BY <1>1, <1>2 DEF Ussd!BeginForCustomer

\* Whatever the customer enters, the menu moves on to a good row.
LEMMA AdvancesGood ==
  ASSUME NEW was, GoodMenu(was), was.state # "none", NEW owed \in [Contracts -> 0..MaxOwed],
         NEW m \in Ussd!Advances(was, owed)
  PROVE  GoodMenu(m)
<1>1. was \in Ussd!Menus /\ was.state \in Ussd!MenuStates /\ was.life \in 0..MaxLives
  BY DEF GoodMenu, Ussd!Menus
<1>2. GoodMenu(Ussd!Closed(was.life))
  BY <1>1, ClosedIsGood
<1>3. \A state \in {"NO_CONTRACT", "ENTER_ALT_PHONE", "MAIN_MENU"} : GoodMenu(Ussd!At(was, state))
  BY <1>1, MenuWritten DEF GoodMenu, Ussd!MenuStates
<1>4. CASE was.state = "MAIN_MENU"
  BY <1>3, <1>4, BeginsGood DEF Ussd!Advances
<1>5. CASE was.state = "NO_CONTRACT"
  BY <1>2, <1>3, <1>5 DEF Ussd!Advances
<1>6. CASE was.state = "ENTER_ALT_PHONE"
  BY <1>3, <1>6, BeginsGood DEF Ussd!Advances
<1>7. CASE was.state = "SELECT_CONTRACT"
  <2>1. PICK k \in Contracts : m = [Ussd!At(was, Ussd!NextStateFor(k)) EXCEPT !.contract = k]
    BY <1>7 DEF Ussd!Advances
  <2>2. Ussd!NextStateFor(k) \in {"DEVICE_LOAN_CHOOSE", "ENTER_AMOUNT"}
    BY DEF Ussd!NextStateFor
  <2>3. QED
    BY <1>1, <2>1, <2>2, MenuWritten DEF GoodMenu, Ussd!MenuStates
<1>8. CASE was.state \in {"ENTER_AMOUNT", "DEVICE_LOAN_CHOOSE"}
  <2>1. \/ m = Ussd!Closed(was.life)
        \/ \E a \in 1..owed[was.contract] : m = [Ussd!At(was, "CONFIRM") EXCEPT !.amount = a]
    BY <1>8 DEF Ussd!Advances
  <2>2. was.contract \in Contracts /\ owed[was.contract] \in 0..MaxOwed
    BY <1>8 DEF GoodMenu
  <2>3. ASSUME NEW a \in 1..owed[was.contract], m = [Ussd!At(was, "CONFIRM") EXCEPT !.amount = a]
        PROVE  GoodMenu(m)
    <3>1. a \in 0..MaxOwed /\ a > 0
      BY <2>2, <2>3, MenuAssumption
    <3>2. QED
      BY <1>1, <2>2, <2>3, <3>1, MenuWritten DEF GoodMenu, Ussd!MenuStates
  <2>4. QED
    BY <1>2, <2>1, <2>3
<1>9. CASE was.state = "CONFIRM"
  BY <1>2, <1>9 DEF Ussd!Advances
<1>10. QED
  BY <1>1, <1>4, <1>5, <1>6, <1>7, <1>8, <1>9 DEF Ussd!MenuStates

LEMMA MenuTypesInit == Ussd!Init => MenuTypes
<1> SUFFICES ASSUME Ussd!Init
             PROVE  MenuTypes
  OBVIOUS
<1>1. GoodMenu(Ussd!Closed(0)) /\ Ussd!Closed(0).state = "none"
  BY ClosedIsGood, MenuAssumption
<1>2. \A r \in UssdRequests : req[r].at = "idle" /\ req[r].saw = Ussd!Closed(0)
  BY DEF Ussd!Init
<1>3. \A s \in Sessions : menu[s] = Ussd!Closed(0)
  BY DEF Ussd!Init
<1>4. Ussd!TypeOK
  <2>1. menu \in [Sessions -> Ussd!Menus]
    BY <1>1 DEF Ussd!Init, GoodMenu
  <2>2. QED
    BY <1>1, <1>2, <2>1, MenuAssumption DEF Ussd!Init, Ussd!TypeOK, GoodMenu
<1>5. QED
  BY <1>1, <1>2, <1>3, <1>4 DEF MenuTypes

\* One call moves to a good row, or one session's menu does.
LEMMA CallTyped ==
  ASSUME MenuTypes, MenuShape, NEW r \in UssdRequests,
         req' = [req EXCEPT ![r] = req'[r]],
         req'[r].at \in {"idle", "reply", "find", "create"}, GoodMenu(req'[r].saw),
         req'[r].at # "idle" => req'[r].saw.state # "none",
         req'[r].at \in {"find", "create"} => req'[r].saw.state = "CONFIRM",
         menu' \in [Sessions -> Ussd!Menus], \A s \in Sessions : GoodMenu(menu'[s]),
         UNCHANGED <<cartRow, young>>
  PROVE  MenuTypes'
<1>1. \A p \in UssdRequests \ {r} : req'[p] = req[p]
  BY DEF MenuShape
<1>2. Ussd!TypeOK'
  BY <1>1 DEF MenuTypes, Ussd!TypeOK, GoodMenu
<1>3. QED
  BY <1>1, <1>2 DEF MenuTypes

LEMMA MenuTyped ==
  ASSUME MenuTypes, NEW s \in Sessions, NEW new, menu' = [menu EXCEPT ![s] = new] \/ UNCHANGED menu,
         GoodMenu(new)
  PROVE  menu' \in [Sessions -> Ussd!Menus] /\ \A t \in Sessions : GoodMenu(menu'[t])
<1>1. menu \in [Sessions -> Ussd!Menus] /\ new \in Ussd!Menus
  BY DEF MenuTypes, Ussd!TypeOK, GoodMenu
<1>2. QED
  BY <1>1 DEF MenuTypes

\* A call that ends is as it began.
LEMMA CallDone ==
  ASSUME MenuShape, NEW r \in UssdRequests, Ussd!Done(r)
  PROVE  /\ req' = [req EXCEPT ![r] = req'[r]]
         /\ req'[r].at = "idle" /\ req'[r].saw = Ussd!Closed(0)
  BY DEF MenuShape, Ussd!Done

LEMMA CallGoes ==
  ASSUME MenuShape, NEW r \in UssdRequests, NEW at, Ussd!Goes(r, at)
  PROVE  /\ req' = [req EXCEPT ![r] = req'[r]]
         /\ req'[r].at = at /\ req'[r].saw = req[r].saw
<1>1. req'[r] = [req[r] EXCEPT !.at = at] /\ req' = [req EXCEPT ![r] = req'[r]]
  BY DEF MenuShape, Ussd!Goes
<1>2. req[r] = [at |-> req[r].at, session |-> req[r].session, saw |-> req[r].saw]
  BY DEF MenuShape
<1>3. QED
  BY <1>1, <1>2

LEMMA SessionTyped ==
  ASSUME MenuTypes, NEW s \in Sessions,
         Ussd!FiveMinutesPass(s) \/ Ussd!RowSettles(s) \/ Ussd!StartSession(s) \/ Ussd!DropSession(s)
  PROVE  MenuTypes'
<1>1. menu[s] \in Ussd!Menus /\ menu[s].life \in 0..MaxLives
  BY DEF MenuTypes, Ussd!TypeOK, Ussd!Menus
<1>2. CASE Ussd!FiveMinutesPass(s)
  BY <1>2 DEF MenuTypes, Ussd!TypeOK, Ussd!FiveMinutesPass
<1>3. CASE Ussd!RowSettles(s)
  BY <1>3 DEF MenuTypes, Ussd!TypeOK, Ussd!RowSettles
<1>4. CASE Ussd!StartSession(s)
  <2>1. PICK new : new = [Ussd!Closed(menu[s].life + 1) EXCEPT !.state = "MAIN_MENU"]
    OBVIOUS
  <2>2. menu[s].life + 1 \in 0..MaxLives
    BY <1>1, <1>4, MenuAssumption DEF Ussd!StartSession
  <2>3. GoodMenu(new)
    BY <2>1, <2>2, MenuAssumption DEF Ussd!Closed, GoodMenu, Ussd!Menus, Ussd!MenuStates
  <2>4. menu' = [menu EXCEPT ![s] = new] /\ UNCHANGED <<req, cartRow, young>>
    BY <1>4, <2>1 DEF Ussd!StartSession
  <2>5. QED
    BY <2>3, <2>4, MenuTyped DEF MenuTypes, Ussd!TypeOK
<1>5. CASE Ussd!DropSession(s)
  <2>1. PICK new : new = Ussd!Closed(menu[s].life)
    OBVIOUS
  <2>2. GoodMenu(new)
    BY <1>1, <2>1, ClosedIsGood
  <2>3. menu' = [menu EXCEPT ![s] = new] /\ UNCHANGED <<req, cartRow, young>>
    BY <1>5, <2>1 DEF Ussd!DropSession, Ussd!EndSession
  <2>4. QED
    BY <2>2, <2>3, MenuTyped DEF MenuTypes, Ussd!TypeOK
<1>6. QED
  BY <1>2, <1>3, <1>4, <1>5

LEMMA ReceiveTyped ==
  ASSUME MenuTypes, MenuShape, NEW r \in UssdRequests, NEW s \in Sessions, Ussd!Receive(r, s)
  PROVE  MenuTypes'
<1>1. /\ req' = [req EXCEPT ![r] = req'[r]]
      /\ req'[r].at = "reply" /\ req'[r].saw = menu[s] /\ menu[s].state # "none"
      /\ UNCHANGED <<menu, cartRow, young>>
  BY DEF Ussd!Receive, MenuShape
<1>2. GoodMenu(menu[s]) /\ menu \in [Sessions -> Ussd!Menus] /\ \A t \in Sessions : GoodMenu(menu[t])
  BY DEF MenuTypes, Ussd!TypeOK
<1>3. QED
  BY <1>1, <1>2, CallTyped

LEMMA ReplyTyped ==
  ASSUME MenuTypes, MenuShape, NEW r \in UssdRequests, Ussd!Reply(r)
  PROVE  MenuTypes'
<1>1. PICK s : s = req[r].session
  OBVIOUS
<1>2. s \in Sessions /\ GoodMenu(req[r].saw) /\ req[r].saw.state # "none" /\ menu[s] \in Ussd!Menus
      /\ GoodMenu(menu[s])
  BY <1>1 DEF MenuTypes, MenuShape, Ussd!Reply, Ussd!TypeOK
<1>3. ASSUME NEW owed \in [Contracts -> 0..MaxOwed], NEW m \in Ussd!Advances(req[r].saw, owed),
             menu' = [menu EXCEPT ![s] = [m EXCEPT !.life = menu[s].life]]
      PROVE  menu' \in [Sessions -> Ussd!Menus] /\ \A t \in Sessions : GoodMenu(menu'[t])
  <2>1. GoodMenu(m)
    BY <1>2, <1>3, AdvancesGood
  <2>2. menu[s].life \in 0..MaxLives
    BY <1>2 DEF Ussd!Menus
  <2>3. GoodMenu([m EXCEPT !.life = menu[s].life])
    BY <2>1, <2>2 DEF GoodMenu, Ussd!Menus
  <2>4. QED
    BY <1>2, <1>3, <2>3, MenuTyped
<1>4. menu' \in [Sessions -> Ussd!Menus] /\ \A t \in Sessions : GoodMenu(menu'[t])
  <2>1. CASE UNCHANGED menu
    BY <1>2, <2>1, MenuTyped
  <2>2. QED
    BY <1>1, <1>3, <2>1 DEF Ussd!Reply
<1>5. /\ req' = [req EXCEPT ![r] = req'[r]]
      /\ req'[r].at = "idle" /\ req'[r].saw = Ussd!Closed(0) /\ UNCHANGED <<cartRow, young>>
  BY CallDone DEF Ussd!Reply
<1>6. GoodMenu(Ussd!Closed(0))
  BY ClosedIsGood, MenuAssumption
<1>7. QED
  BY <1>4, <1>5, <1>6, CallTyped

LEMMA ConfirmTyped ==
  ASSUME MenuTypes, MenuShape, NEW r \in UssdRequests, Ussd!Confirm(r)
  PROVE  MenuTypes'
<1>1. PICK s : s = req[r].session
  OBVIOUS
<1>2. s \in Sessions /\ GoodMenu(req[r].saw) /\ req[r].saw.state = "CONFIRM" /\ menu[s].life \in 0..MaxLives
  BY <1>1 DEF MenuTypes, MenuShape, Ussd!Confirm, Ussd!TypeOK, Ussd!Menus
<1>3. GoodMenu(Ussd!Closed(menu[s].life)) /\ GoodMenu(Ussd!Closed(0))
  BY <1>2, ClosedIsGood, MenuAssumption
<1>4. menu' = [menu EXCEPT ![s] = Ussd!Closed(menu[s].life)] \/ UNCHANGED menu
  BY <1>1 DEF Ussd!Confirm, Ussd!EndSession
<1>5. menu' \in [Sessions -> Ussd!Menus] /\ \A t \in Sessions : GoodMenu(menu'[t])
  BY <1>2, <1>3, <1>4, MenuTyped
<1>6. /\ req' = [req EXCEPT ![r] = req'[r]] /\ UNCHANGED <<cartRow, young>>
      /\ \/ req'[r].at = "idle" /\ req'[r].saw = Ussd!Closed(0)
         \/ req'[r].at = "find" /\ req'[r].saw = req[r].saw
  BY CallDone, CallGoes DEF Ussd!Confirm
<1>7. QED
  BY <1>2, <1>3, <1>5, <1>6, CallTyped

LEMMA FindCheckoutTyped ==
  ASSUME MenuTypes, MenuShape, NEW r \in UssdRequests, Ussd!FindCheckout(r)
  PROVE  MenuTypes'
<1>1. /\ req' = [req EXCEPT ![r] = req'[r]] /\ UNCHANGED <<menu, cartRow, young>>
      /\ \/ req'[r].at = "idle" /\ req'[r].saw = Ussd!Closed(0)
         \/ req'[r].at = "create" /\ req'[r].saw = req[r].saw
  BY CallDone, CallGoes DEF Ussd!FindCheckout
<1>2. req[r].saw.state = "CONFIRM" /\ GoodMenu(req[r].saw)
  BY DEF MenuTypes, Ussd!TypeOK, Ussd!FindCheckout
<1>3. GoodMenu(Ussd!Closed(0))
  BY ClosedIsGood, MenuAssumption
<1>4. menu \in [Sessions -> Ussd!Menus] /\ \A t \in Sessions : GoodMenu(menu[t])
  BY DEF MenuTypes, Ussd!TypeOK
<1>5. QED
  BY <1>1, <1>2, <1>3, <1>4, CallTyped

LEMMA CreateCheckoutTyped ==
  ASSUME MenuTypes, MenuShape, NEW r \in UssdRequests, Ussd!CreateCheckout(r)
  PROVE  MenuTypes'
<1>1. PICK s : s = req[r].session
  OBVIOUS
<1>2. s \in Sessions /\ req[r].saw \in Ussd!Menus
  BY <1>1 DEF MenuTypes, MenuShape, Ussd!CreateCheckout, Ussd!TypeOK
<1>3. req' = [req EXCEPT ![r] = req'[r]] /\ UNCHANGED menu
      /\ req'[r].at = "idle" /\ req'[r].saw = Ussd!Closed(0) /\ GoodMenu(Ussd!Closed(0))
  BY CallDone, ClosedIsGood, MenuAssumption DEF Ussd!CreateCheckout
<1>4. /\ cartRow' \in [Sessions -> [status : {"none", "PENDING", "settled"},
                                contract : Contracts \cup {None}, amount : 0..MaxOwed]]
      /\ young' \in [Sessions -> BOOLEAN]
  <2>1. CASE UNCHANGED <<cartRow, young>>
    BY <2>1 DEF MenuTypes, Ussd!TypeOK
  <2>2. CASE /\ cartRow' = [cartRow EXCEPT ![s] = [status |-> "PENDING", contract |-> req[r].saw.contract,
                                                amount |-> req[r].saw.amount]]
             /\ young' = [young EXCEPT ![s] = TRUE]
    <3>1. req[r].saw.contract \in Contracts \cup {None} /\ req[r].saw.amount \in 0..MaxOwed
      BY <1>2 DEF Ussd!Menus
    <3>2. QED
      BY <1>2, <2>2, <3>1 DEF MenuTypes, Ussd!TypeOK
  <2>3. QED
    BY <1>1, <2>1, <2>2 DEF Ussd!CreateCheckout
<1>5. \A p \in UssdRequests \ {r} : req'[p] = req[p]
  BY <1>3 DEF MenuShape
<1>6. Ussd!TypeOK'
  BY <1>3, <1>4, <1>5 DEF MenuTypes, Ussd!TypeOK, GoodMenu
<1>7. QED
  BY <1>3, <1>5, <1>6 DEF MenuTypes

LEMMA MenuTypesNext == MenuTypes /\ MenuShape /\ [Ussd!Next]_ussdVars => MenuTypes'
<1>1. ASSUME MenuTypes, UNCHANGED ussdVars
      PROVE  MenuTypes'
  BY <1>1 DEF ussdVars, MenuTypes, Ussd!TypeOK
<1>2. QED
  BY <1>1, SessionTyped, ReceiveTyped, ReplyTyped, ConfirmTyped, FindCheckoutTyped, CreateCheckoutTyped
     DEF Ussd!Next

-----------------------------------------------------------------------------
(* Fulfilment: an order that was paid and is in the ledger, or before staff, stays so, and   *)
(* nothing else is ever answered with success.                                               *)

Answer == {"verdict", "state", "late"}

\* Rows and tellers have their fields, and a teller under way is about a session.
OrderShape ==
    /\ wallet = [s \in Sessions |-> wallet[s]]
    /\ txRow = [s \in Sessions |-> txRow[s]]
    /\ told = [s \in Sessions |-> told[s]]
    /\ answer = [s \in Sessions |-> answer[s]]
    /\ \A s \in Sessions : answer[s] = [f \in Answer |-> answer[s][f]]
    /\ pc = [t \in Order!Tellers |-> pc[t]]
    /\ on = [t \in Order!Tellers |-> on[t]]
    /\ says = [t \in Order!Tellers |-> says[t]]
    /\ \A t \in Order!Tellers : pc[t] # "idle" => on[t] \in Sessions

Accounted(s) == wallet[s] = "paid" /\ txRow[s] \in {"SUCCESS", "NEEDS_REVIEW"}

SettledWasPaid == \A s \in Sessions : txRow[s] \in {"SUCCESS", "NEEDS_REVIEW"} => wallet[s] = "paid"

\* What a call reports was so, and a success anybody holds is accounted for.
IsRight(t) ==
    /\ pc[t] = "settle" /\ says[t] \in {"paid", "disagrees"} => wallet[on[t]] = "paid"
    /\ pc[t] \in {"write", "send"} /\ says[t] = "success" => Accounted(on[t])

TellersAreRight == \A t \in Order!Tellers : IsRight(t)

AnswersAreRight == \A s \in Sessions : answer[s].verdict = "success" => Accounted(s)

OrderInv ==
    /\ OrderShape /\ SettledWasPaid /\ TellersAreRight /\ AnswersAreRight
    /\ ToldSuccessIsAccounted

LEMMA OrderInit == Order!Init => OrderInv
<1> SUFFICES ASSUME Order!Init
             PROVE  OrderInv
  OBVIOUS
<1> USE DEF Order!Init
<1>1. OrderShape
  BY DEF OrderShape, Answer
<1>2. SettledWasPaid /\ TellersAreRight /\ AnswersAreRight
  BY DEF SettledWasPaid, TellersAreRight, IsRight, AnswersAreRight
<1>3. ToldSuccessIsAccounted
  BY DEF ToldSuccessIsAccounted, Order!ToldSuccessIsAccounted
<1>4. QED
  BY <1>1, <1>2, <1>3 DEF OrderInv

\* A step under which what is accounted for and what is paid stays so, that settles only what
\* was paid, and after which answers and tellers are right, keeps the invariant.
LEMMA OrderKept ==
  ASSUME OrderInv, OrderShape', SettledWasPaid', TellersAreRight',
         \A s \in Sessions : Accounted(s) => Accounted(s)',
         \A s \in Sessions : answer'[s].verdict # answer[s].verdict /\ answer'[s].verdict = "success"
                                => Accounted(s),
         \A s \in Sessions : told'[s] # told[s] /\ told'[s] = "success" => Accounted(s)
  PROVE  OrderInv'
<1>1. AnswersAreRight'
  BY DEF OrderInv, AnswersAreRight
<1>2. ToldSuccessIsAccounted'
  <2>1. \A s \in Sessions : told[s] = "success" => Accounted(s)
    BY DEF OrderInv, ToldSuccessIsAccounted, Order!ToldSuccessIsAccounted, Accounted
  <2>2. \A s \in Sessions : told'[s] = "success" => Accounted(s)'
    BY <2>1
  <2>3. QED
    BY <2>2 DEF ToldSuccessIsAccounted, Order!ToldSuccessIsAccounted, Accounted
<1>3. QED
  BY <1>1, <1>2 DEF OrderInv

\* What was true of the tellers other than the one who moves still is.
LEMMA OneTeller ==
  ASSUME OrderInv, NEW t \in Order!Tellers,
         \A u \in Order!Tellers \ {t} : pc'[u] = pc[u] /\ on'[u] = on[u] /\ says'[u] = says[u],
         \A s \in Sessions : Accounted(s) => Accounted(s)',
         \A s \in Sessions : wallet[s] = "paid" => wallet'[s] = "paid",
         IsRight(t)'
  PROVE  TellersAreRight'
<1>1. ASSUME NEW u \in Order!Tellers \ {t}
      PROVE  IsRight(u)'
  <2>1. pc[u] # "idle" => on[u] \in Sessions
    BY DEF OrderInv, OrderShape
  <2>2. pc'[u] = pc[u] /\ on'[u] = on[u] /\ says'[u] = says[u] /\ IsRight(u)
    BY DEF OrderInv, TellersAreRight
  <2>3. pc[u] # "idle" => (Accounted(on[u]) => wallet'[on[u]] = "paid" /\ txRow'[on[u]] \in {"SUCCESS", "NEEDS_REVIEW"})
    BY <2>1 DEF Accounted
  <2>4. pc[u] # "idle" => (wallet[on[u]] = "paid" => wallet'[on[u]] = "paid")
    BY <2>1
  <2>5. QED
    BY <2>2, <2>3, <2>4 DEF IsRight, Accounted
<1>2. QED
  BY <1>1 DEF TellersAreRight

LEMMA OneTellerShape ==
  ASSUME OrderShape, NEW t \in Order!Tellers,
         pc' = [u \in Order!Tellers |-> pc'[u]] /\ on' = [u \in Order!Tellers |-> on'[u]]
             /\ says' = [u \in Order!Tellers |-> says'[u]],
         \A u \in Order!Tellers \ {t} : pc'[u] = pc[u] /\ on'[u] = on[u] /\ says'[u] = says[u],
         pc'[t] # "idle" => on'[t] \in Sessions,
         UNCHANGED <<wallet, told>>,
         txRow' = [s \in Sessions |-> txRow'[s]],
         answer' = [s \in Sessions |-> answer'[s]],
         \A s \in Sessions : answer'[s] = [f \in Answer |-> answer'[s][f]]
  PROVE  OrderShape'
  BY DEF OrderShape

\* One teller moves; nothing but who holds what changes.
LEMMA TellerMoves ==
  ASSUME OrderInv, NEW t \in Order!Tellers,
         pc' = [u \in Order!Tellers |-> pc'[u]] /\ on' = [u \in Order!Tellers |-> on'[u]]
             /\ says' = [u \in Order!Tellers |-> says'[u]],
         \A u \in Order!Tellers \ {t} : pc'[u] = pc[u] /\ on'[u] = on[u] /\ says'[u] = says[u],
         pc'[t] # "idle" => on'[t] \in Sessions,
         UNCHANGED <<wallet, txRow, told>>,
         answer' = [s \in Sessions |-> answer'[s]],
         \A s \in Sessions : answer'[s] = [f \in Answer |-> answer'[s][f]],
         \A s \in Sessions : answer'[s].verdict # answer[s].verdict /\ answer'[s].verdict = "success"
                                => Accounted(s),
         IsRight(t)'
  PROVE  OrderInv'
<1>1. OrderShape'
  BY OneTellerShape DEF OrderInv, OrderShape
<1>2. \A s \in Sessions : Accounted(s) => Accounted(s)'
  BY DEF Accounted
<1>3. TellersAreRight'
  BY <1>2, OneTeller
<1>4. SettledWasPaid'
  BY DEF OrderInv, SettledWasPaid
<1>5. QED
  BY <1>1, <1>2, <1>3, <1>4, OrderKept

\* A teller who ends says nothing any more.
LEMMA TellerEnds ==
  ASSUME OrderInv, NEW t \in Order!Tellers, Order!TellerDone(t), UNCHANGED <<wallet, txRow, told>>,
         answer' = [s \in Sessions |-> answer'[s]],
         \A s \in Sessions : answer'[s] = [f \in Answer |-> answer'[s][f]],
         \A s \in Sessions : answer'[s].verdict = answer[s].verdict
  PROVE  OrderInv'
<1>1. /\ pc' = [u \in Order!Tellers |-> pc'[u]] /\ on' = [u \in Order!Tellers |-> on'[u]]
             /\ says' = [u \in Order!Tellers |-> says'[u]]
      /\ \A u \in Order!Tellers \ {t} : pc'[u] = pc[u] /\ on'[u] = on[u] /\ says'[u] = says[u]
      /\ pc'[t] = "idle"
  BY DEF OrderInv, OrderShape, Order!TellerDone
<1>2. IsRight(t)'
  BY <1>1 DEF IsRight
<1>3. QED
  BY <1>1, <1>2, TellerMoves

\* A field of an answer is written, and the others stay.
LEMMA StateWritten ==
  ASSUME OrderShape, NEW s \in Sessions, NEW v, answer' = [answer EXCEPT ![s].state = v]
  PROVE  /\ answer' = [r \in Sessions |-> answer'[r]]
         /\ \A r \in Sessions : answer'[r] = [f \in Answer |-> answer'[r][f]]
         /\ \A r \in Sessions : answer'[r].verdict = answer[r].verdict
  BY DEF OrderShape, Answer

LEMMA LateWritten ==
  ASSUME OrderShape, NEW s \in Sessions, NEW v, answer' = [answer EXCEPT ![s].late = v]
  PROVE  /\ answer' = [r \in Sessions |-> answer'[r]]
         /\ \A r \in Sessions : answer'[r] = [f \in Answer |-> answer'[r][f]]
         /\ \A r \in Sessions : answer'[r].verdict = answer[r].verdict
  BY DEF OrderShape, Answer

LEMMA VerdictWritten ==
  ASSUME OrderShape, NEW s \in Sessions, NEW v, NEW w,
         answer' = [answer EXCEPT ![s].verdict = v, ![s].state = w]
  PROVE  /\ answer' = [r \in Sessions |-> answer'[r]]
         /\ \A r \in Sessions : answer'[r] = [f \in Answer |-> answer'[r][f]]
         /\ \A r \in Sessions \ {s} : answer'[r].verdict = answer[r].verdict
         /\ answer'[s].verdict = v
  BY DEF OrderShape, Answer

\* The world: the tellers are where they were.
LEMMA WorldKept ==
  ASSUME OrderInv, UNCHANGED <<told, pc, on, says>>, OrderShape',
         \A s \in Sessions : Accounted(s) => Accounted(s)',
         \A s \in Sessions : wallet[s] = "paid" => wallet'[s] = "paid",
         SettledWasPaid',
         \A s \in Sessions : answer'[s].verdict = answer[s].verdict
  PROVE  OrderInv'
<1>1. ASSUME NEW t \in Order!Tellers
      PROVE  IsRight(t)'
  <2>1. pc[t] # "idle" => on[t] \in Sessions
    BY DEF OrderInv, OrderShape
  <2>2. IsRight(t)
    BY DEF OrderInv, TellersAreRight
  <2>3. QED
    BY <2>1, <2>2 DEF IsRight, Accounted
<1>2. TellersAreRight'
  BY <1>1 DEF TellersAreRight
<1>3. QED
  BY <1>2, OrderKept

LEMMA HourPassesInv ==
  ASSUME OrderInv, NEW s \in Sessions, Order!HourPasses(s)
  PROVE  OrderInv'
<1>1. /\ answer' = [answer EXCEPT ![s].late = TRUE]
      /\ UNCHANGED <<wallet, txRow, told, pc, on, says>>
  BY DEF Order!HourPasses, Order!tellerVars
<1>2. /\ answer' = [r \in Sessions |-> answer'[r]]
      /\ \A r \in Sessions : answer'[r] = [f \in Answer |-> answer'[r][f]]
      /\ \A r \in Sessions : answer'[r].verdict = answer[r].verdict
  BY <1>1, LateWritten DEF OrderInv
<1>3. OrderShape'
  BY <1>1, <1>2 DEF OrderInv, OrderShape
<1>4. SettledWasPaid' /\ \A r \in Sessions : Accounted(r) => Accounted(r)'
  BY <1>1 DEF OrderInv, SettledWasPaid, Accounted
<1>5. QED
  BY <1>1, <1>2, <1>3, <1>4, WorldKept

\* A wallet that paid has paid.
LEMMA CheckoutInv ==
  ASSUME OrderInv, NEW s \in Sessions, Order!Checkout(s)
  PROVE  OrderInv'
<1>1. /\ wallet[s] # "paid"
      /\ UNCHANGED <<txRow, answer, told, pc, on, says>>
  BY DEF Order!Checkout, Order!tellerVars
<1>2. wallet' = [r \in Sessions |-> wallet'[r]] /\ \A r \in Sessions \ {s} : wallet'[r] = wallet[r]
  BY DEF Order!Checkout, OrderInv, OrderShape
<1>3. \A r \in Sessions : wallet[r] = "paid" => wallet'[r] = "paid"
  BY <1>1, <1>2
<1>4. OrderShape'
  BY <1>1, <1>2 DEF OrderInv, OrderShape
<1>5. SettledWasPaid' /\ \A r \in Sessions : Accounted(r) => Accounted(r)'
  BY <1>1, <1>3 DEF OrderInv, SettledWasPaid, Accounted
<1>6. QED
  BY <1>1, <1>3, <1>4, <1>5, WorldKept

\* The status check settles a pending row as paid only if it was.
LEMMA ReconcileCheckoutInv ==
  ASSUME OrderInv, NEW s \in Sessions, Order!ReconcileCheckout(s)
  PROVE  OrderInv'
<1>1. /\ txRow[s] = "PENDING"
      /\ UNCHANGED <<wallet, answer, told, pc, on, says>>
  BY DEF Order!ReconcileCheckout, Order!tellerVars
<1>2. PICK new \in Order!Outcomes(IF wallet[s] = "paid" THEN "paid" ELSE "unpaid", "PENDING") :
          txRow' = [txRow EXCEPT ![s] = new]
  BY DEF Order!ReconcileCheckout
<1>3. new \in {"SUCCESS", "NEEDS_REVIEW"} => wallet[s] = "paid"
  <2>1. Order!Outcomes("unpaid", "PENDING") = {"FAILED"}
    BY DEF Order!Outcomes
  <2>2. QED
    BY <2>1
<1>4. txRow' = [r \in Sessions |-> txRow'[r]] /\ (\A r \in Sessions \ {s} : txRow'[r] = txRow[r])
      /\ txRow'[s] = new
  BY <1>2 DEF OrderInv, OrderShape
<1>5. OrderShape'
  BY <1>1, <1>4 DEF OrderInv, OrderShape
<1>6. SettledWasPaid' /\ \A r \in Sessions : Accounted(r) => Accounted(r)'
  BY <1>1, <1>3, <1>4 DEF OrderInv, SettledWasPaid, Accounted
<1>7. QED
  BY <1>1, <1>5, <1>6, WorldKept

LEMMA ListUnansweredInv ==
  ASSUME OrderInv, NEW s \in Sessions, Order!ListUnanswered(s)
  PROVE  OrderInv'
<1>1. /\ pc' = [pc EXCEPT ![Sweep] = IF answer[s].late THEN "give up" ELSE "read"]
      /\ on' = [on EXCEPT ![Sweep] = s]
      /\ UNCHANGED <<wallet, txRow, answer, told, says>>
      /\ Sweep \in Order!Tellers
  BY DEF Order!ListUnanswered, Order!TellerGoes, Order!Tellers
<1>2. /\ pc' = [u \in Order!Tellers |-> pc'[u]] /\ on' = [u \in Order!Tellers |-> on'[u]]
             /\ says' = [u \in Order!Tellers |-> says'[u]]
      /\ \A u \in Order!Tellers \ {Sweep} : pc'[u] = pc[u] /\ on'[u] = on[u] /\ says'[u] = says[u]
      /\ pc'[Sweep] \in {"give up", "read"} /\ on'[Sweep] = s
  BY <1>1 DEF OrderInv, OrderShape
<1>3. IsRight(Sweep)'
  BY <1>2 DEF IsRight
<1>4. answer' = [r \in Sessions |-> answer'[r]] /\ \A r \in Sessions : answer'[r] = [f \in Answer |-> answer'[r][f]]
  BY <1>1 DEF OrderInv, OrderShape
<1>5. QED
  BY <1>1, <1>2, <1>3, <1>4, TellerMoves

\* What a call reports is what the wallet did.
LEMMA ReceiveFulfilmentInv ==
  ASSUME OrderInv, NEW f \in Fulfilments, NEW s \in Sessions, Order!ReceiveFulfilment(f, s)
  PROVE  OrderInv'
<1>1. /\ pc' = [pc EXCEPT ![f] = "settle"]
      /\ on' = [on EXCEPT ![f] = s]
      /\ UNCHANGED <<wallet, txRow, answer, told>>
      /\ f \in Order!Tellers
  BY DEF Order!ReceiveFulfilment, Order!TellerGoes, Order!Tellers
<1>2. PICK report \in Order!Reports(s) : says' = [says EXCEPT ![f] = report]
  BY DEF Order!ReceiveFulfilment
<1>3. report \in {"paid", "disagrees"} => wallet[s] = "paid"
  BY DEF Order!Reports
<1>4. /\ pc' = [u \in Order!Tellers |-> pc'[u]] /\ on' = [u \in Order!Tellers |-> on'[u]]
             /\ says' = [u \in Order!Tellers |-> says'[u]]
      /\ \A u \in Order!Tellers \ {f} : pc'[u] = pc[u] /\ on'[u] = on[u] /\ says'[u] = says[u]
      /\ pc'[f] = "settle" /\ on'[f] = s /\ says'[f] = report
  BY <1>1, <1>2 DEF OrderInv, OrderShape
<1>5. IsRight(f)'
  BY <1>1, <1>3, <1>4 DEF IsRight
<1>6. answer' = [r \in Sessions |-> answer'[r]] /\ \A r \in Sessions : answer'[r] = [g \in Answer |-> answer'[r][g]]
  BY <1>1 DEF OrderInv, OrderShape
<1>7. QED
  BY <1>1, <1>4, <1>5, <1>6, TellerMoves

\* Whatever is settled with success was paid, now or before.
LEMMA SettleFulfilmentInv ==
  ASSUME OrderInv, NEW t \in Order!Tellers, Order!SettleFulfilment(t)
  PROVE  OrderInv'
<1> DEFINE s == on[t]
<1>1. /\ pc[t] = "settle" /\ s \in Sessions
      /\ pc' = [pc EXCEPT ![t] = "write"]
      /\ UNCHANGED <<wallet, answer, told, on>>
  BY DEF Order!SettleFulfilment, Order!TellerGoes, OrderInv, OrderShape
<1>2. PICK new \in Order!Outcomes(says[t], txRow[s]) :
          txRow' = [txRow EXCEPT ![s] = new] /\ says' = [says EXCEPT ![t] = Order!Verdict(new)]
  BY DEF Order!SettleFulfilment
<1>3. new \in {"SUCCESS", "NEEDS_REVIEW"} => wallet[s] = "paid"
  <2>1. CASE txRow[s] \in {"SUCCESS", "NEEDS_REVIEW"}
    BY <1>1, <2>1 DEF OrderInv, SettledWasPaid
  <2>2. CASE says[t] \in {"paid", "disagrees"}
    BY <1>1, <2>2 DEF OrderInv, TellersAreRight, IsRight
  <2>3. CASE txRow[s] \notin {"SUCCESS", "NEEDS_REVIEW"} /\ says[t] \notin {"paid", "disagrees"}
    BY <1>2, <2>3 DEF Order!Outcomes
  <2>4. QED
    BY <2>1, <2>2, <2>3
<1>4. txRow[s] \in {"SUCCESS", "NEEDS_REVIEW"} => new = txRow[s]
  BY <1>2 DEF Order!Outcomes
<1>5. txRow' = [r \in Sessions |-> txRow'[r]] /\ (\A r \in Sessions \ {s} : txRow'[r] = txRow[r])
      /\ txRow'[s] = new
  BY <1>1, <1>2 DEF OrderInv, OrderShape
<1>6. /\ pc' = [u \in Order!Tellers |-> pc'[u]] /\ on' = [u \in Order!Tellers |-> on'[u]]
             /\ says' = [u \in Order!Tellers |-> says'[u]]
      /\ \A u \in Order!Tellers \ {t} : pc'[u] = pc[u] /\ on'[u] = on[u] /\ says'[u] = says[u]
      /\ pc'[t] = "write" /\ on'[t] = s /\ says'[t] = Order!Verdict(new)
  BY <1>1, <1>2 DEF OrderInv, OrderShape
<1>7. OrderShape'
  BY <1>1, <1>5, <1>6, OneTellerShape DEF OrderInv, OrderShape
<1>8. SettledWasPaid' /\ \A r \in Sessions : Accounted(r) => Accounted(r)'
  BY <1>1, <1>3, <1>4, <1>5 DEF OrderInv, SettledWasPaid, Accounted
<1>9. IsRight(t)'
  <2>1. says'[t] = "success" => new \in {"SUCCESS", "NEEDS_REVIEW"}
    BY <1>6 DEF Order!Verdict
  <2>2. QED
    BY <1>1, <1>3, <1>5, <1>6, <2>1 DEF IsRight, Accounted
<1>10. TellersAreRight'
  BY <1>1, <1>6, <1>8, <1>9, OneTeller
<1>11. QED
  BY <1>1, <1>7, <1>8, <1>10, OrderKept

LEMMA WriteVerdictInv ==
  ASSUME OrderInv, NEW t \in Order!Tellers, Order!WriteVerdict(t)
  PROVE  OrderInv'
<1> DEFINE s == on[t]
<1>1. /\ pc[t] = "write" /\ s \in Sessions
      /\ pc' = [pc EXCEPT ![t] = "read"]
      /\ answer' = [answer EXCEPT ![s].verdict = says[t], ![s].state = "PENDING"]
      /\ UNCHANGED <<wallet, txRow, told, on, says>>
  BY DEF Order!WriteVerdict, Order!TellerGoes, OrderInv, OrderShape
<1>2. /\ answer' = [r \in Sessions |-> answer'[r]]
      /\ \A r \in Sessions : answer'[r] = [f \in Answer |-> answer'[r][f]]
      /\ \A r \in Sessions \ {s} : answer'[r].verdict = answer[r].verdict
      /\ answer'[s].verdict = says[t]
  BY <1>1, VerdictWritten DEF OrderInv
<1>3. says[t] = "success" => Accounted(s)
  BY <1>1 DEF OrderInv, TellersAreRight, IsRight
<1>4. /\ pc' = [u \in Order!Tellers |-> pc'[u]] /\ on' = [u \in Order!Tellers |-> on'[u]]
             /\ says' = [u \in Order!Tellers |-> says'[u]]
      /\ \A u \in Order!Tellers \ {t} : pc'[u] = pc[u] /\ on'[u] = on[u] /\ says'[u] = says[u]
      /\ pc'[t] = "read" /\ on'[t] = s
  BY <1>1 DEF OrderInv, OrderShape
<1>5. IsRight(t)'
  BY <1>4 DEF IsRight
<1>6. \A r \in Sessions : answer'[r].verdict # answer[r].verdict /\ answer'[r].verdict = "success"
                             => Accounted(r)
  BY <1>2, <1>3
<1>7. QED
  BY <1>1, <1>2, <1>4, <1>5, <1>6, TellerMoves

\* The answer read is one that is right.
LEMMA ReadVerdictInv ==
  ASSUME OrderInv, NEW t \in Order!Tellers, Order!ReadVerdict(t)
  PROVE  OrderInv'
<1> DEFINE s == on[t]
<1>1. /\ s \in Sessions
      /\ pc' = [pc EXCEPT ![t] = "send"]
      /\ says' = [says EXCEPT ![t] = answer[s].verdict]
      /\ UNCHANGED <<wallet, txRow, answer, told, on>>
  BY DEF Order!ReadVerdict, Order!TellerGoes, OrderInv, OrderShape
<1>2. /\ pc' = [u \in Order!Tellers |-> pc'[u]] /\ on' = [u \in Order!Tellers |-> on'[u]]
             /\ says' = [u \in Order!Tellers |-> says'[u]]
      /\ \A u \in Order!Tellers \ {t} : pc'[u] = pc[u] /\ on'[u] = on[u] /\ says'[u] = says[u]
      /\ pc'[t] = "send" /\ on'[t] = s /\ says'[t] = answer[s].verdict
  BY <1>1 DEF OrderInv, OrderShape
<1>3. answer[s].verdict = "success" => Accounted(s)
  BY <1>1 DEF OrderInv, AnswersAreRight
<1>4. IsRight(t)'
  BY <1>1, <1>2, <1>3 DEF IsRight, Accounted
<1>5. answer' = [r \in Sessions |-> answer'[r]] /\ \A r \in Sessions : answer'[r] = [g \in Answer |-> answer'[r][g]]
  BY <1>1 DEF OrderInv, OrderShape
<1>6. QED
  BY <1>1, <1>2, <1>4, <1>5, TellerMoves

\* Hubtel is told what was read, which is still so.
LEMMA SendVerdictInv ==
  ASSUME OrderInv, NEW t \in Order!Tellers, Order!SendVerdict(t)
  PROVE  OrderInv'
<1> DEFINE s == on[t]
<1>1. /\ pc[t] = "send" /\ s \in Sessions
      /\ UNCHANGED <<wallet, txRow, answer>>
      /\ answer' = [r \in Sessions |-> answer'[r]]
      /\ \A r \in Sessions : answer'[r] = [g \in Answer |-> answer'[r][g]]
  BY DEF Order!SendVerdict, OrderInv, OrderShape
<1>2. CASE Order!TellerDone(t) /\ UNCHANGED told
  BY <1>1, <1>2, TellerEnds
<1>3. CASE /\ told' = [told EXCEPT ![s] = says[t]]
           /\ Order!TellerGoes(t, "mark")
           /\ UNCHANGED <<on, says>>
  <2>1. pc' = [pc EXCEPT ![t] = "mark"]
    BY <1>3 DEF Order!TellerGoes
  <2>2. /\ pc' = [u \in Order!Tellers |-> pc'[u]] /\ on' = [u \in Order!Tellers |-> on'[u]]
               /\ says' = [u \in Order!Tellers |-> says'[u]]
        /\ \A u \in Order!Tellers \ {t} : pc'[u] = pc[u] /\ on'[u] = on[u] /\ says'[u] = says[u]
        /\ pc'[t] = "mark" /\ on'[t] = s
    BY <1>3, <2>1 DEF OrderInv, OrderShape
  <2>3. told' = [r \in Sessions |-> told'[r]] /\ (\A r \in Sessions \ {s} : told'[r] = told[r])
        /\ told'[s] = says[t]
    BY <1>1, <1>3 DEF OrderInv, OrderShape
  <2>4. OrderShape'
    <3>1. \A u \in Order!Tellers : pc'[u] # "idle" => on'[u] \in Sessions
      BY <1>1, <2>2 DEF OrderInv, OrderShape
    <3>2. QED
      BY <1>1, <2>2, <2>3, <3>1 DEF OrderInv, OrderShape
  <2>5. SettledWasPaid' /\ \A r \in Sessions : Accounted(r) => Accounted(r)'
    BY <1>1 DEF OrderInv, SettledWasPaid, Accounted
  <2>6. TellersAreRight'
    <3>1. IsRight(t)'
      BY <2>2 DEF IsRight
    <3>2. QED
      BY <1>1, <2>2, <2>5, <3>1, OneTeller
  <2>7. says[t] = "success" => Accounted(s)
    BY <1>1 DEF OrderInv, TellersAreRight, IsRight
  <2>8. \A r \in Sessions : told'[r] # told[r] /\ told'[r] = "success" => Accounted(r)
    BY <2>3, <2>7
  <2>9. QED
    BY <1>1, <2>4, <2>5, <2>6, <2>8, OrderKept
<1>4. QED
  BY <1>2, <1>3 DEF Order!SendVerdict

LEMMA MarkSentInv ==
  ASSUME OrderInv, NEW t \in Order!Tellers, Order!MarkSent(t)
  PROVE  OrderInv'
<1>1. Order!TellerDone(t) /\ UNCHANGED <<wallet, txRow, told>>
  BY DEF Order!MarkSent
<1>2. on[t] \in Sessions /\ answer' = [answer EXCEPT ![on[t]].state = "SENT"]
  BY DEF Order!MarkSent, OrderInv, OrderShape
<1>3. QED
  BY <1>1, <1>2, StateWritten, TellerEnds DEF OrderInv

LEMMA GiveUpInv ==
  ASSUME OrderInv, Order!GiveUp
  PROVE  OrderInv'
<1>1. Sweep \in Order!Tellers
  BY DEF Order!Tellers
<1>2. Order!TellerDone(Sweep) /\ UNCHANGED <<wallet, txRow, told>>
  BY DEF Order!GiveUp
<1>3. on[Sweep] \in Sessions /\ answer' = [answer EXCEPT ![on[Sweep]].state = "UNDELIVERED"]
  BY <1>1 DEF Order!GiveUp, OrderInv, OrderShape
<1>4. QED
  BY <1>1, <1>2, <1>3, StateWritten, TellerEnds DEF OrderInv

LEMMA DieInv ==
  ASSUME OrderInv, NEW t \in Order!Tellers, Order!Die(t)
  PROVE  OrderInv'
<1>1. Order!TellerDone(t) /\ UNCHANGED <<wallet, txRow, answer, told>>
  BY DEF Order!Die
<1>2. answer' = [r \in Sessions |-> answer'[r]] /\ \A r \in Sessions : answer'[r] = [g \in Answer |-> answer'[r][g]]
  BY <1>1 DEF OrderInv, OrderShape
<1>3. QED
  BY <1>1, <1>2, TellerEnds

LEMMA OrderNext == OrderInv /\ [Order!Next]_orderVars => OrderInv'
<1> SUFFICES ASSUME OrderInv, [Order!Next]_orderVars
             PROVE  OrderInv'
  OBVIOUS
<1>1. CASE UNCHANGED orderVars
  <2>1. UNCHANGED <<wallet, txRow, answer, told, pc, on, says>>
    BY <1>1 DEF orderVars
  <2>2. OrderShape' /\ SettledWasPaid' /\ \A s \in Sessions : Accounted(s) => Accounted(s)'
    BY <2>1 DEF OrderInv, OrderShape, SettledWasPaid, Accounted
  <2>3. QED
    BY <2>1, <2>2, WorldKept
<1>2. ASSUME NEW s \in Sessions,
             Order!HourPasses(s) \/ Order!Checkout(s) \/ Order!ReconcileCheckout(s) \/ Order!ListUnanswered(s)
      PROVE  OrderInv'
  BY <1>2, HourPassesInv, CheckoutInv, ReconcileCheckoutInv, ListUnansweredInv
<1>3. ASSUME NEW t \in Order!Tellers, Order!TellerStep(t) \/ Order!Die(t)
      PROVE  OrderInv'
  BY <1>3, SettleFulfilmentInv, WriteVerdictInv, ReadVerdictInv, SendVerdictInv, MarkSentInv, DieInv
     DEF Order!TellerStep
<1>4. ASSUME Order!GiveUp
      PROVE  OrderInv'
  BY <1>4, GiveUpInv
<1>5. QED
  BY <1>1, <1>2, <1>3, <1>4, ReceiveFulfilmentInv DEF Order!Next

\* Types of orders: what a call reports, and what is answered, are the words for it.
SaysTyped(t) ==
    /\ pc[t] = "settle" => says[t] \in {"paid", "disagrees", "unpaid"}
    /\ pc[t] \in {"write", "send"} => says[t] \in {"none", "success", "failed"}

OrderTypes == Order!TypeOK /\ \A t \in Order!Tellers : SaysTyped(t)

LEMMA OrderTypesInit == Order!Init => OrderTypes
  BY DEF Order!Init, OrderTypes, Order!TypeOK, SaysTyped

LEMMA OutcomesTyped ==
  ASSUME NEW report, NEW was \in {"PENDING", "SUCCESS", "FAILED", "NEEDS_REVIEW"},
         NEW new \in Order!Outcomes(report, was)
  PROVE  new \in {"PENDING", "SUCCESS", "FAILED", "NEEDS_REVIEW"}
         /\ Order!Verdict(new) \in {"success", "failed"}
<1>1. CASE report = "paid" /\ was \in {"PENDING", "FAILED"}
  BY <1>1 DEF Order!Outcomes, Order!Verdict
<1>2. CASE report = "disagrees" /\ was \in {"PENDING", "FAILED"}
  BY <1>2 DEF Order!Outcomes, Order!Verdict
<1>3. CASE report = "unpaid" /\ was = "PENDING"
  BY <1>3 DEF Order!Outcomes, Order!Verdict
<1>4. CASE ~(report = "paid" /\ was \in {"PENDING", "FAILED"})
           /\ ~(report = "disagrees" /\ was \in {"PENDING", "FAILED"})
           /\ ~(report = "unpaid" /\ was = "PENDING")
  BY <1>4 DEF Order!Outcomes, Order!Verdict
<1>5. QED
  BY <1>1, <1>2, <1>3, <1>4

\* One teller moves; the rows have their types.
LEMMA TellerTyped ==
  ASSUME OrderTypes, OrderShape, NEW t \in Order!Tellers, NEW at, NEW word,
         pc' = [pc EXCEPT ![t] = at], says' = [says EXCEPT ![t] = word] \/ (UNCHANGED says /\ word = says[t]),
         at \in {"idle", "settle", "write", "read", "send", "mark", "give up"},
         at = "settle" => word \in {"paid", "disagrees", "unpaid"},
         at \in {"write", "send"} => word \in {"none", "success", "failed"},
         UNCHANGED wallet,
         txRow' \in [Sessions -> {"PENDING", "SUCCESS", "FAILED", "NEEDS_REVIEW"}],
         answer' \in [Sessions -> [verdict : {"none", "success", "failed"},
                                   state : {"none", "PENDING", "SENT", "UNDELIVERED"}, late : BOOLEAN]],
         told' \in [Sessions -> {"none", "success", "failed"}]
  PROVE  OrderTypes'
<1>1. \A u \in Order!Tellers \ {t} : pc'[u] = pc[u] /\ says'[u] = says[u]
  BY DEF OrderShape
<1>2. pc'[t] = at /\ says'[t] = word
  BY DEF OrderShape
<1>3. \A u \in Order!Tellers : SaysTyped(u)'
  BY <1>1, <1>2 DEF OrderTypes, SaysTyped
<1>4. QED
  BY <1>3 DEF OrderTypes, Order!TypeOK

LEMMA WorldTyped ==
  ASSUME OrderTypes, NEW s \in Sessions,
         Order!HourPasses(s) \/ Order!Checkout(s) \/ Order!ReconcileCheckout(s)
  PROVE  OrderTypes'
<1>1. \A t \in Order!Tellers : SaysTyped(t)'
  BY DEF OrderTypes, SaysTyped, Order!HourPasses, Order!Checkout, Order!ReconcileCheckout, Order!tellerVars
<1>2. CASE Order!HourPasses(s)
  BY <1>1, <1>2 DEF OrderTypes, Order!TypeOK, Order!HourPasses, Order!tellerVars
<1>3. CASE Order!Checkout(s)
  <2>1. PICK w \in {"paid", "declined"} : wallet' = [wallet EXCEPT ![s] = w]
    BY <1>3 DEF Order!Checkout
  <2>2. wallet' \in [Sessions -> {"open", "paid", "declined"}]
    BY <2>1 DEF OrderTypes, Order!TypeOK
  <2>3. UNCHANGED <<txRow, answer, told, pc>>
    BY <1>3 DEF Order!Checkout, Order!tellerVars
  <2>4. QED
    BY <1>1, <2>2, <2>3 DEF OrderTypes, Order!TypeOK
<1>4. CASE Order!ReconcileCheckout(s)
  <2>1. PICK new \in Order!Outcomes(IF wallet[s] = "paid" THEN "paid" ELSE "unpaid", "PENDING") :
            txRow' = [txRow EXCEPT ![s] = new]
    BY <1>4 DEF Order!ReconcileCheckout
  <2>2. new \in {"PENDING", "SUCCESS", "FAILED", "NEEDS_REVIEW"}
    BY <2>1, OutcomesTyped
  <2>3. QED
    BY <1>1, <1>4, <2>1, <2>2 DEF OrderTypes, Order!TypeOK, Order!ReconcileCheckout, Order!tellerVars
<1>5. QED
  BY <1>2, <1>3, <1>4

LEMMA ReportTyped ==
  ASSUME OrderTypes, OrderShape, NEW f \in Fulfilments, NEW s \in Sessions, Order!ReceiveFulfilment(f, s)
  PROVE  OrderTypes'
<1>1. PICK word \in Order!Reports(s) : says' = [says EXCEPT ![f] = word]
  BY DEF Order!ReceiveFulfilment
<1>2. word \in {"paid", "disagrees", "unpaid"}
  <2>1. CASE wallet[s] = "paid"
    BY <1>1, <2>1 DEF Order!Reports
  <2>2. CASE wallet[s] = "declined"
    BY <1>1, <2>2 DEF Order!Reports
  <2>3. CASE wallet[s] # "paid" /\ wallet[s] # "declined"
    BY <1>1, <2>3 DEF Order!Reports
  <2>4. QED
    BY <2>1, <2>2, <2>3
<1>3. f \in Order!Tellers /\ pc' = [pc EXCEPT ![f] = "settle"] /\ UNCHANGED <<wallet, txRow, answer, told>>
  BY DEF Order!ReceiveFulfilment, Order!TellerGoes, Order!Tellers
<1>4. QED
  BY <1>1, <1>2, <1>3, TellerTyped DEF OrderTypes, Order!TypeOK

LEMMA TellerStepTyped ==
  ASSUME OrderTypes, OrderShape, NEW t \in Order!Tellers, Order!TellerStep(t)
  PROVE  OrderTypes'
<1>1. PICK s : s = on[t]
  OBVIOUS
<1>2. s \in Sessions
  BY <1>1 DEF OrderShape, Order!TellerStep, Order!SettleFulfilment, Order!WriteVerdict, Order!ReadVerdict,
     Order!SendVerdict, Order!MarkSent
<1>3. Order!TypeOK /\ SaysTyped(t)
  BY DEF OrderTypes
<1>4. CASE Order!SettleFulfilment(t)
  <2>1. PICK new \in Order!Outcomes(says[t], txRow[s]) :
            txRow' = [txRow EXCEPT ![s] = new] /\ says' = [says EXCEPT ![t] = Order!Verdict(new)]
    BY <1>1, <1>4 DEF Order!SettleFulfilment, Order!TellerGoes
  <2>2. new \in {"PENDING", "SUCCESS", "FAILED", "NEEDS_REVIEW"} /\ Order!Verdict(new) \in {"success", "failed"}
    BY <1>2, <1>3, <2>1, OutcomesTyped DEF Order!TypeOK
  <2>3. pc' = [pc EXCEPT ![t] = "write"] /\ UNCHANGED <<wallet, answer, told>>
    BY <1>4 DEF Order!SettleFulfilment, Order!TellerGoes
  <2>4. QED
    BY <1>2, <1>3, <2>1, <2>2, <2>3, TellerTyped DEF Order!TypeOK
<1>5. CASE Order!WriteVerdict(t)
  <2>1. pc[t] = "write" /\ pc' = [pc EXCEPT ![t] = "read"] /\ UNCHANGED <<wallet, txRow, told, says>>
        /\ answer' = [answer EXCEPT ![s].verdict = says[t], ![s].state = "PENDING"]
    BY <1>1, <1>5 DEF Order!WriteVerdict, Order!TellerGoes
  <2>2. says[t] \in {"none", "success", "failed"}
    BY <1>3, <2>1 DEF SaysTyped
  <2>3. answer' \in [Sessions -> [verdict : {"none", "success", "failed"},
                                  state : {"none", "PENDING", "SENT", "UNDELIVERED"}, late : BOOLEAN]]
    <3>1. PICK new : new = [answer[s] EXCEPT !.verdict = says[t], !.state = "PENDING"]
      OBVIOUS
    <3>2. answer[s] \in [verdict : {"none", "success", "failed"},
                         state : {"none", "PENDING", "SENT", "UNDELIVERED"}, late : BOOLEAN]
      BY <1>2, <1>3 DEF Order!TypeOK
    <3>3. new \in [verdict : {"none", "success", "failed"},
                   state : {"none", "PENDING", "SENT", "UNDELIVERED"}, late : BOOLEAN]
      BY <2>2, <3>1, <3>2
    <3>4. answer' = [answer EXCEPT ![s] = new]
      BY <2>1, <3>1
    <3>5. QED
      BY <1>3, <3>3, <3>4 DEF Order!TypeOK
  <2>4. QED
    BY <1>3, <2>1, <2>3, TellerTyped DEF Order!TypeOK
<1>6. CASE Order!ReadVerdict(t)
  <2>1. pc' = [pc EXCEPT ![t] = "send"] /\ UNCHANGED <<wallet, txRow, answer, told>>
        /\ says' = [says EXCEPT ![t] = answer[s].verdict]
    BY <1>1, <1>6 DEF Order!ReadVerdict, Order!TellerGoes
  <2>2. answer[s].verdict \in {"none", "success", "failed"}
    BY <1>2, <1>3 DEF Order!TypeOK
  <2>3. QED
    BY <1>3, <2>1, <2>2, TellerTyped DEF Order!TypeOK
<1>7. CASE Order!SendVerdict(t)
  <2>1. UNCHANGED <<wallet, txRow, answer>>
        /\ \/ told' = [told EXCEPT ![s] = says[t]] /\ pc' = [pc EXCEPT ![t] = "mark"] /\ UNCHANGED says
           \/ pc' = [pc EXCEPT ![t] = "idle"] /\ says' = [says EXCEPT ![t] = "none"] /\ UNCHANGED told
    BY <1>1, <1>7 DEF Order!SendVerdict, Order!TellerGoes, Order!TellerDone
  <2>2. says[t] \in {"none", "success", "failed"}
    BY <1>3, <1>7 DEF SaysTyped, Order!SendVerdict
  <2>3. told' \in [Sessions -> {"none", "success", "failed"}]
    BY <1>2, <1>3, <2>1, <2>2 DEF Order!TypeOK
  <2>4. QED
    BY <1>3, <2>1, <2>3, TellerTyped DEF Order!TypeOK
<1>8. CASE Order!MarkSent(t)
  <2>1. UNCHANGED <<wallet, txRow, told>> /\ answer' = [answer EXCEPT ![s].state = "SENT"]
        /\ pc' = [pc EXCEPT ![t] = "idle"] /\ says' = [says EXCEPT ![t] = "none"]
    BY <1>1, <1>8 DEF Order!MarkSent, Order!TellerDone
  <2>2. answer' \in [Sessions -> [verdict : {"none", "success", "failed"},
                                  state : {"none", "PENDING", "SENT", "UNDELIVERED"}, late : BOOLEAN]]
    BY <1>2, <1>3, <2>1 DEF Order!TypeOK
  <2>3. QED
    BY <1>3, <2>1, <2>2, TellerTyped DEF Order!TypeOK
<1>9. QED
  BY <1>4, <1>5, <1>6, <1>7, <1>8 DEF Order!TellerStep

LEMMA SweepTyped ==
  ASSUME OrderTypes, OrderShape, Order!GiveUp \/ \E s \in Sessions : Order!ListUnanswered(s)
  PROVE  OrderTypes'
<1> USE DEF Order!TellerGoes, Order!TellerDone
<1>1. Sweep \in Order!Tellers /\ Order!TypeOK
  BY DEF Order!Tellers, OrderTypes
<1>2. CASE Order!GiveUp
  <2>1. PICK s : s = on[Sweep]
    OBVIOUS
  <2>2. s \in Sessions /\ answer' = [answer EXCEPT ![s].state = "UNDELIVERED"]
    BY <1>1, <1>2, <2>1 DEF OrderShape, Order!GiveUp
  <2>3. answer' \in [Sessions -> [verdict : {"none", "success", "failed"},
                                  state : {"none", "PENDING", "SENT", "UNDELIVERED"}, late : BOOLEAN]]
    BY <1>1, <2>2 DEF Order!TypeOK
  <2>4. QED
    BY <1>1, <1>2, <2>3, TellerTyped DEF Order!TypeOK, Order!GiveUp
<1>3. ASSUME NEW s \in Sessions, Order!ListUnanswered(s)
      PROVE  OrderTypes'
  <2>1. PICK at \in {"give up", "read"} : pc' = [pc EXCEPT ![Sweep] = at]
    BY <1>3 DEF Order!ListUnanswered
  <2>2. UNCHANGED <<wallet, txRow, answer, told, says>>
    BY <1>3 DEF Order!ListUnanswered
  <2>3. QED
    BY <1>1, <2>1, <2>2, TellerTyped DEF Order!TypeOK
<1>4. QED
  BY <1>2, <1>3

LEMMA OrderTypesNext == OrderTypes /\ OrderShape /\ [Order!Next]_orderVars => OrderTypes'
<1> SUFFICES ASSUME OrderTypes, OrderShape, [Order!Next]_orderVars
             PROVE  OrderTypes'
  OBVIOUS
<1>1. CASE UNCHANGED orderVars
  BY <1>1 DEF orderVars, OrderTypes, Order!TypeOK, SaysTyped
<1>2. ASSUME NEW f \in Order!Tellers, Order!Die(f)
      PROVE  OrderTypes'
  <2>1. pc' = [pc EXCEPT ![f] = "idle"] /\ says' = [says EXCEPT ![f] = "none"]
        /\ UNCHANGED <<wallet, txRow, answer, told>>
    BY <1>2 DEF Order!Die, Order!TellerDone
  <2>2. QED
    BY <2>1, TellerTyped DEF OrderTypes, Order!TypeOK
<1>3. QED
  BY <1>1, <1>2, WorldTyped, ReportTyped, TellerStepTyped, SweepTyped DEF Order!Next

-----------------------------------------------------------------------------
(* Mandates: every row has its fields, and a handler at work is at a mandate.                 *)

Act == {"at", "on", "saw", "said"}

DebitShape ==
    /\ mandate = [m \in Mandates |-> mandate[m]]
    /\ hubtel = [m \in Mandates |-> hubtel[m]]
    /\ reached = [m \in Mandates |-> reached[m]]
    /\ act = [h \in Debit!Actors |-> act[h]]
    /\ \A h \in Debit!Actors :
          /\ act[h] = [f \in Act |-> act[h][f]]
          /\ act[h].at # "idle" => act[h].on \in Mandates

LEMMA DebitShapeInit == Debit!Init => DebitShape
<1> SUFFICES ASSUME Debit!Init
             PROVE  DebitShape
  OBVIOUS
<1>1. QED
  BY DEF Debit!Init, Debit!Idle, DebitShape, Act

\* What is written, by Hubtel or here, is written to a mandate.
RowsKept ==
    /\ mandate' = [m \in Mandates |-> mandate'[m]]
    /\ hubtel' = [m \in Mandates |-> hubtel'[m]]
    /\ reached' = [m \in Mandates |-> reached'[m]]

LEMMA EveryStepKeepsRows ==
  ASSUME DebitShape, [Debit!Next]_debitVars
  PROVE  RowsKept
<1>1. CASE UNCHANGED <<mandate, hubtel, reached>>
  BY <1>1 DEF RowsKept, DebitShape
<1>2. ASSUME NEW h \in Debit!Actors, Debit!HandlerStep(h)
      PROVE  RowsKept
  <2>1. CASE Debit!CreateMandate(h) \/ Debit!DeleteMandate(h) \/ Debit!StoreRequest(h)
                \/ Debit!WriteCancelled(h) \/ Debit!ApplyStatus(h)
    BY <2>1 DEF Debit!CreateMandate, Debit!DeleteMandate, Debit!StoreRequest,
       Debit!WriteCancelled, Debit!ApplyStatus, Debit!Write, RowsKept, DebitShape
  <2>2. CASE Debit!RequestMandate(h) \/ Debit!CallReactivate(h)
    BY <2>2 DEF Debit!RequestMandate, Debit!CallReactivate, Debit!Requested, RowsKept, DebitShape
  <2>3. CASE Debit!CallCancel(h)
    BY <2>3 DEF Debit!CallCancel, RowsKept, DebitShape
  <2>4. CASE Debit!WriteReactivated(h)
    BY <2>4 DEF Debit!WriteReactivated, Debit!Write, RowsKept, DebitShape
  <2>5. CASE Debit!CheckAnswered(h) \/ Debit!CheckFailed(h)
    BY <1>1, <2>5 DEF Debit!CheckAnswered, Debit!CheckFailed
  <2>6. QED
    BY <1>2, <2>1, <2>2, <2>3, <2>4, <2>5 DEF Debit!HandlerStep
<1>3. CASE Debit!SweepStep
  BY <1>2, <1>3 DEF Debit!SweepStep, Debit!HandlerStep, Debit!Actors
<1>4. ASSUME NEW h \in Handlers, Debit!HandlerStep(h)
      PROVE  RowsKept
  BY <1>2, <1>4 DEF Debit!Actors
<1>5. ASSUME NEW m \in Mandates, Debit!CustomerAnswers(m)
      PROVE  RowsKept
  BY <1>5 DEF Debit!CustomerAnswers, RowsKept, DebitShape
<1>6. ASSUME NEW m \in Mandates,
             Debit!FiveMinutesPass(m) \/ Debit!ThreeDaysPass(m) \/ Debit!ListStale(m)
      PROVE  RowsKept
  BY <1>1, <1>6 DEF Debit!FiveMinutesPass, Debit!ThreeDaysPass, Debit!ListStale
<1>7. ASSUME NEW h \in Handlers, NEW m \in Mandates,
             \/ Debit!LookForMandate(h, m) \/ Debit!BeginCancel(h, m) \/ Debit!BeginReactivate(h, m)
             \/ Debit!BeginCheck(h, m) \/ Debit!ReceiveCallback(h, m)
      PROVE  RowsKept
  BY <1>1, <1>7 DEF Debit!LookForMandate, Debit!BeginCancel, Debit!BeginReactivate,
     Debit!BeginCheck, Debit!ReceiveCallback
<1>8. QED
  BY <1>1, <1>3, <1>4, <1>5, <1>6, <1>7 DEF Debit!Next, debitVars

\* A handler begins at a mandate, goes on at the one it is at, or ends.
OneMoves(h) ==
    \/ Debit!Done(h)
    \/ \E at, said : act[h].at # "idle" /\ Debit!Goes(h, at, said)
    \/ \E m \in Mandates : \E at, said : Debit!Begins(h, m, at, said)

LEMMA MoverKeepsShape ==
  ASSUME DebitShape, RowsKept, NEW h \in Debit!Actors, OneMoves(h)
  PROVE  DebitShape'
<1>1. ASSUME NEW new, act' = [act EXCEPT ![h] = new], new = [f \in Act |-> new[f]],
             new.at # "idle" => new.on \in Mandates
      PROVE  DebitShape'
  BY <1>1 DEF DebitShape, RowsKept
<1>2. CASE Debit!Done(h)
  <2>1. Debit!Idle = [f \in Act |-> Debit!Idle[f]] /\ Debit!Idle.at = "idle"
    BY DEF Debit!Idle, Act
  <2>2. QED
    BY <1>1, <1>2, <2>1 DEF Debit!Done
<1>3. ASSUME NEW at, NEW said, act[h].at # "idle", Debit!Goes(h, at, said)
      PROVE  DebitShape'
  <2>1. PICK new : new = [act[h] EXCEPT !.at = at, !.said = said]
    OBVIOUS
  <2>2. act' = [act EXCEPT ![h] = new]
    BY <1>3, <2>1 DEF Debit!Goes
  <2>3. new = [f \in Act |-> new[f]] /\ new.on = act[h].on
    BY <2>1 DEF DebitShape, Act
  <2>4. QED
    BY <1>1, <1>3, <2>2, <2>3 DEF DebitShape
<1>4. ASSUME NEW m \in Mandates, NEW at, NEW said, Debit!Begins(h, m, at, said)
      PROVE  DebitShape'
  <2>1. PICK new : new = [at |-> at, on |-> m, saw |-> mandate[m], said |-> said]
    OBVIOUS
  <2>2. act' = [act EXCEPT ![h] = new]
    BY <1>4, <2>1 DEF Debit!Begins
  <2>3. new = [f \in Act |-> new[f]] /\ new.on = m
    BY <2>1 DEF Act
  <2>4. QED
    BY <1>1, <2>2, <2>3
<1>5. QED
  BY <1>2, <1>3, <1>4 DEF OneMoves

LEMMA DebitShapeNext == DebitShape /\ [Debit!Next]_debitVars => DebitShape'
<1> SUFFICES ASSUME DebitShape, [Debit!Next]_debitVars
             PROVE  DebitShape'
  OBVIOUS
<1>1. RowsKept
  BY EveryStepKeepsRows
<1>2. CASE UNCHANGED act
  BY <1>1, <1>2 DEF DebitShape, RowsKept
<1>3. ASSUME NEW h \in Debit!Actors, Debit!HandlerStep(h)
      PROVE  OneMoves(h)
  BY <1>3 DEF Debit!HandlerStep, OneMoves, Debit!CreateMandate, Debit!RequestMandate,
     Debit!DeleteMandate, Debit!StoreRequest, Debit!CallCancel, Debit!WriteCancelled,
     Debit!CallReactivate, Debit!WriteReactivated, Debit!CheckAnswered, Debit!CheckFailed,
     Debit!ApplyStatus
<1>4. ASSUME NEW h \in Debit!Actors, NEW m \in Mandates,
             \/ Debit!LookForMandate(h, m) \/ Debit!BeginCancel(h, m) \/ Debit!BeginReactivate(h, m)
             \/ Debit!BeginCheck(h, m) \/ Debit!ReceiveCallback(h, m)
             \/ h = Sweep /\ Debit!ListStale(m)
      PROVE  OneMoves(h)
  BY <1>4 DEF OneMoves, Debit!LookForMandate, Debit!BeginCancel, Debit!BeginReactivate,
     Debit!BeginCheck, Debit!ReceiveCallback, Debit!ListStale
<1>5. Sweep \in Debit!Actors /\ Handlers \subseteq Debit!Actors
  BY DEF Debit!Actors
<1>6. CASE Debit!SweepStep
  BY <1>1, <1>3, <1>5, <1>6, MoverKeepsShape DEF Debit!SweepStep, Debit!HandlerStep
<1>7. ASSUME NEW m \in Mandates,
             Debit!CustomerAnswers(m) \/ Debit!FiveMinutesPass(m) \/ Debit!ThreeDaysPass(m)
      PROVE  DebitShape'
  BY <1>2, <1>7 DEF Debit!CustomerAnswers, Debit!FiveMinutesPass, Debit!ThreeDaysPass
<1>8. ASSUME NEW m \in Mandates, Debit!ListStale(m)
      PROVE  DebitShape'
  BY <1>1, <1>4, <1>5, <1>8, MoverKeepsShape
<1>9. ASSUME NEW h \in Handlers, Debit!HandlerStep(h)
      PROVE  DebitShape'
  BY <1>1, <1>3, <1>5, <1>9, MoverKeepsShape
<1>10. ASSUME NEW h \in Handlers, NEW m \in Mandates,
              \/ Debit!LookForMandate(h, m) \/ Debit!BeginCancel(h, m) \/ Debit!BeginReactivate(h, m)
              \/ Debit!BeginCheck(h, m) \/ Debit!ReceiveCallback(h, m)
       PROVE  DebitShape'
  BY <1>1, <1>4, <1>5, <1>10, MoverKeepsShape
<1>11. QED
  BY <1>2, <1>6, <1>7, <1>8, <1>9, <1>10 DEF Debit!Next, debitVars

\* Types of mandates: a row is written with a status, and a handler is told one.
LEMMA DebitTypesInit == Debit!Init => Debit!TypeOK
  BY DEF Debit!Init, Debit!TypeOK, Debit!Idle, Debit!Outcomes

LEMMA WriteTyped ==
  ASSUME Debit!TypeOK, NEW m \in Mandates, NEW status \in {"none", "PENDING", "deleted"} \cup Debit!Outcomes,
         Debit!Write(m, status)
  PROVE  /\ mandate' \in [Mandates -> {"none", "PENDING", "deleted"} \cup Debit!Outcomes]
         /\ age' \in [Mandates -> {"fresh", "stale", "old"}]
  BY DEF Debit!TypeOK, Debit!Write

LEMMA RequestedTyped ==
  ASSUME Debit!TypeOK, NEW m \in Mandates, NEW word \in {"PENDING", "APPROVED"}, Debit!Requested(m, word)
  PROVE  /\ hubtel' \in [Mandates -> {"none", "PENDING"} \cup Debit!Outcomes]
         /\ reached' \in [Mandates -> SUBSET Debit!Outcomes]
<1>1. word \in {"none", "PENDING"} \cup Debit!Outcomes
      /\ (IF word = "APPROVED" THEN reached[m] \cup {word} ELSE reached[m]) \in SUBSET Debit!Outcomes
  BY DEF Debit!Outcomes, Debit!TypeOK
<1>2. QED
  BY <1>1 DEF Debit!TypeOK, Debit!Requested

LEMMA NormalizeTyped ==
  ASSUME NEW raw
  PROVE  Debit!Normalize(raw) \in {"none"} \cup Debit!Outcomes
  BY DEF Debit!Normalize, Debit!Outcomes

\* One handler goes on with something it may be told, or ends.
LEMMA HandlerTold ==
  ASSUME Debit!TypeOK, DebitShape, NEW h \in Debit!Actors,
         \/ Debit!Done(h)
         \/ \E at : \E said \in {"none"} \cup Debit!Outcomes :
               \/ Debit!Goes(h, at, said)
               \/ \E m \in Mandates : Debit!Begins(h, m, at, said)
  PROVE  \A g \in Debit!Actors : act'[g].said \in {"none"} \cup Debit!Outcomes
<1>1. \A g \in Debit!Actors \ {h} : act'[g] = act[g]
  BY DEF Debit!Done, Debit!Goes, Debit!Begins, DebitShape
<1>2. act'[h].said \in {"none"} \cup Debit!Outcomes
  <2>1. CASE Debit!Done(h)
    BY <2>1 DEF Debit!Done, Debit!Idle, DebitShape
  <2>2. ASSUME NEW at, NEW said \in {"none"} \cup Debit!Outcomes, Debit!Goes(h, at, said)
        PROVE  act'[h].said \in {"none"} \cup Debit!Outcomes
    <3>1. PICK new : new = [act[h] EXCEPT !.at = at, !.said = said]
      OBVIOUS
    <3>2. new.said = said
      BY <3>1 DEF DebitShape, Act
    <3>3. act'[h] = new
      BY <2>2, <3>1 DEF Debit!Goes, DebitShape
    <3>4. QED
      BY <3>2, <3>3
  <2>3. ASSUME NEW at, NEW said \in {"none"} \cup Debit!Outcomes, NEW m \in Mandates, Debit!Begins(h, m, at, said)
        PROVE  act'[h].said \in {"none"} \cup Debit!Outcomes
    BY <2>3 DEF Debit!Begins, DebitShape
  <2>4. QED
    BY <2>1, <2>2, <2>3
<1>3. QED
  BY <1>1, <1>2 DEF Debit!TypeOK

\* What it writes, and what Hubtel makes of what it asks, has its type.
LEMMA HandlerTyped ==
  ASSUME Debit!TypeOK, \A g \in Debit!Actors : act'[g].said \in {"none"} \cup Debit!Outcomes,
         UNCHANGED <<mandate, age>>
            \/ \E m \in Mandates : \E status \in {"none", "PENDING", "deleted"} \cup Debit!Outcomes :
                  Debit!Write(m, status),
         UNCHANGED <<hubtel, reached>>
            \/ \E m \in Mandates : \E word \in {"PENDING", "APPROVED"} : Debit!Requested(m, word)
  PROVE  Debit!TypeOK'
<1>1. /\ mandate' \in [Mandates -> {"none", "PENDING", "deleted"} \cup Debit!Outcomes]
      /\ age' \in [Mandates -> {"fresh", "stale", "old"}]
  BY WriteTyped DEF Debit!TypeOK
<1>2. /\ hubtel' \in [Mandates -> {"none", "PENDING"} \cup Debit!Outcomes]
      /\ reached' \in [Mandates -> SUBSET Debit!Outcomes]
  BY RequestedTyped DEF Debit!TypeOK
<1>3. QED
  BY <1>1, <1>2 DEF Debit!TypeOK

LEMMA MandateTyped ==
  ASSUME Debit!TypeOK, DebitShape, NEW m \in Mandates,
         Debit!CustomerAnswers(m) \/ Debit!FiveMinutesPass(m) \/ Debit!ThreeDaysPass(m)
  PROVE  Debit!TypeOK'
<1>1. CASE Debit!CustomerAnswers(m)
  <2>1. PICK word \in {"APPROVED", "FAILED"} :
            hubtel' = [hubtel EXCEPT ![m] = word] /\ reached' = [reached EXCEPT ![m] = @ \cup {word}]
    BY <1>1 DEF Debit!CustomerAnswers
  <2>2. word \in Debit!Outcomes
    BY <2>1 DEF Debit!Outcomes
  <2>3. QED
    BY <1>1, <2>1, <2>2 DEF Debit!TypeOK, Debit!CustomerAnswers
<1>2. CASE Debit!FiveMinutesPass(m) \/ Debit!ThreeDaysPass(m)
  BY <1>2 DEF Debit!TypeOK, Debit!FiveMinutesPass, Debit!ThreeDaysPass
<1>3. QED
  BY <1>1, <1>2

LEMMA BeginsTyped ==
  ASSUME Debit!TypeOK, DebitShape, NEW h \in Debit!Actors, NEW m \in Mandates,
         \/ Debit!LookForMandate(h, m) \/ Debit!BeginCancel(h, m) \/ Debit!BeginReactivate(h, m)
         \/ Debit!BeginCheck(h, m) \/ Debit!ReceiveCallback(h, m)
         \/ h = Sweep /\ Debit!ListStale(m)
  PROVE  Debit!TypeOK'
<1>1. \E at : \E said \in {"none"} \cup Debit!Outcomes : Debit!Begins(h, m, at, said)
  BY NormalizeTyped DEF Debit!LookForMandate, Debit!BeginCancel, Debit!BeginReactivate, Debit!BeginCheck,
     Debit!ReceiveCallback, Debit!ListStale
<1>2. UNCHANGED <<mandate, age, hubtel, reached>>
  BY DEF Debit!LookForMandate, Debit!BeginCancel, Debit!BeginReactivate, Debit!BeginCheck,
     Debit!ReceiveCallback, Debit!ListStale
<1>3. QED
  BY <1>1, <1>2, HandlerTold, HandlerTyped

LEMMA HandlerStepTyped ==
  ASSUME Debit!TypeOK, DebitShape, NEW h \in Debit!Actors, Debit!HandlerStep(h)
  PROVE  Debit!TypeOK'
<1> DEFINE Status == {"none", "PENDING", "deleted"} \cup Debit!Outcomes
           Told == {"none"} \cup Debit!Outcomes
           WritesNone == UNCHANGED <<mandate, age>>
           AsksNone == UNCHANGED <<hubtel, reached>>
<1>1. PICK m : m = act[h].on
  OBVIOUS
<1>2. act[h].at # "idle" => m \in Mandates /\ mandate[m] \in Status
  BY <1>1 DEF DebitShape, Debit!TypeOK
<1>3. act[h].said \in Told
  BY DEF Debit!TypeOK
<1>4. "PENDING" \in Status /\ "deleted" \in Status /\ "APPROVED" \in Status /\ "CANCELLED" \in Status
      /\ "none" \in Told
  BY DEF Debit!Outcomes
<1>5. CASE Debit!CreateMandate(h)
  <2>1. Debit!Write(m, "PENDING") /\ Debit!Goes(h, "request", "none") /\ AsksNone /\ act[h].at # "idle"
    BY <1>1, <1>5 DEF Debit!CreateMandate
  <2>2. QED
    BY <1>2, <1>4, <2>1, HandlerTold, HandlerTyped
<1>6. CASE Debit!RequestMandate(h)
  <2>1. act[h].at # "idle" /\ WritesNone
    BY <1>6 DEF Debit!RequestMandate
  <2>2. \/ \E word \in {"PENDING", "APPROVED"} :
              Debit!Requested(m, word) /\ Debit!Goes(h, "requested", Debit!Normalize(word))
        \/ Debit!Goes(h, "delete", "none") /\ AsksNone
        \/ Debit!Requested(m, "PENDING") /\ Debit!Goes(h, "delete", "none")
    BY <1>1, <1>6 DEF Debit!RequestMandate
  <2>3. /\ \E at : \E said \in Told : Debit!Goes(h, at, said)
        /\ AsksNone \/ \E word \in {"PENDING", "APPROVED"} : Debit!Requested(m, word)
    BY <1>4, <2>2, NormalizeTyped
  <2>4. QED
    BY <1>2, <2>1, <2>3, HandlerTold, HandlerTyped
<1>7. CASE Debit!DeleteMandate(h)
  <2>1. Debit!Write(m, "deleted") /\ Debit!Done(h) /\ AsksNone /\ act[h].at # "idle"
    BY <1>1, <1>7 DEF Debit!DeleteMandate
  <2>2. QED
    BY <1>2, <1>4, <2>1, HandlerTold, HandlerTyped
<1>8. CASE Debit!StoreRequest(h)
  <2>1. /\ Debit!Write(m, IF act[h].said = "APPROVED" THEN "APPROVED" ELSE mandate[m])
        /\ Debit!Done(h) /\ AsksNone /\ act[h].at # "idle"
    BY <1>1, <1>8 DEF Debit!StoreRequest
  <2>2. \E status \in Status : Debit!Write(m, status)
    BY <1>2, <1>4, <2>1
  <2>3. QED
    BY <1>2, <2>1, <2>2, HandlerTold, HandlerTyped
<1>9. CASE Debit!CallCancel(h)
  <2>1. WritesNone
    BY <1>9 DEF Debit!CallCancel
  <2>2. CASE Debit!Done(h) /\ AsksNone
    BY <2>1, <2>2, HandlerTold, HandlerTyped
  <2>3. CASE LET live == {n \in Mandates : hubtel[n] \in {"PENDING", "APPROVED"}} IN
             /\ hubtel' = [n \in Mandates |-> IF n \in live THEN "CANCELLED" ELSE hubtel[n]]
             /\ reached' = [n \in Mandates |-> reached[n] \cup (IF n \in live THEN {"CANCELLED"} ELSE {})]
             /\ Debit!Goes(h, "cancelled", "none") \/ Debit!Done(h)
    <3>1. /\ hubtel' \in [Mandates -> {"none", "PENDING"} \cup Debit!Outcomes]
          /\ reached' \in [Mandates -> SUBSET Debit!Outcomes]
      BY <2>3 DEF Debit!TypeOK, Debit!Outcomes
    <3>2. Debit!Done(h) \/ \E at : \E said \in Told : Debit!Goes(h, at, said)
      BY <1>4, <2>3
    <3>3. \A g \in Debit!Actors : act'[g].said \in Told
      BY <3>2, HandlerTold
    <3>4. QED
      BY <2>1, <3>1, <3>3 DEF Debit!TypeOK
  <2>4. QED
    BY <1>9, <2>2, <2>3 DEF Debit!CallCancel
<1>10. CASE Debit!WriteCancelled(h)
  <2>1. Debit!Write(m, "CANCELLED") /\ Debit!Done(h) /\ AsksNone /\ act[h].at # "idle"
    BY <1>1, <1>10 DEF Debit!WriteCancelled
  <2>2. QED
    BY <1>2, <1>4, <2>1, HandlerTold, HandlerTyped
<1>11. CASE Debit!CallReactivate(h)
  <2>1. act[h].at # "idle" /\ WritesNone
    BY <1>11 DEF Debit!CallReactivate
  <2>2. \/ \E word \in {"PENDING", "APPROVED"} :
              /\ Debit!Requested(m, word)
              /\ Debit!Goes(h, "reactivated", Debit!Normalize(word)) \/ Debit!Done(h)
        \/ Debit!Done(h) /\ AsksNone
    BY <1>1, <1>11 DEF Debit!CallReactivate
  <2>3. QED
    BY <1>2, <2>1, <2>2, HandlerTold, HandlerTyped, NormalizeTyped
<1>12. CASE Debit!WriteReactivated(h)
  <2>1. /\ Debit!Write(m, IF act[h].said = "APPROVED" THEN "APPROVED" ELSE "PENDING")
        /\ Debit!Done(h) /\ UNCHANGED hubtel /\ act[h].at # "idle"
        /\ reached' = [reached EXCEPT ![m] = IF act[h].said = "APPROVED" \/ hubtel[m] = "CANCELLED"
                                            THEN @ ELSE Debit!Outcomes \cap {hubtel[m]}]
    BY <1>1, <1>12 DEF Debit!WriteReactivated
  <2>2. \E status \in Status : Debit!Write(m, status)
    BY <1>4, <2>1
  <2>3. reached' \in [Mandates -> SUBSET Debit!Outcomes]
    BY <1>2, <2>1 DEF Debit!TypeOK
  <2>4. \A g \in Debit!Actors : act'[g].said \in Told
    BY <2>1, HandlerTold
  <2>5. mandate' \in [Mandates -> Status] /\ age' \in [Mandates -> {"fresh", "stale", "old"}]
    BY <1>2, <2>1, <2>2, WriteTyped
  <2>6. QED
    BY <2>1, <2>3, <2>4, <2>5 DEF Debit!TypeOK
<1>13. CASE Debit!CheckAnswered(h)
  <2>1. WritesNone /\ AsksNone /\ Debit!Goes(h, "apply", Debit!Normalize(hubtel[m]))
    BY <1>1, <1>13 DEF Debit!CheckAnswered
  <2>2. QED
    BY <2>1, HandlerTold, HandlerTyped, NormalizeTyped
<1>14. CASE Debit!CheckFailed(h)
  <2>1. WritesNone /\ AsksNone /\ Debit!Done(h)
    BY <1>14 DEF Debit!CheckFailed
  <2>2. QED
    BY <2>1, HandlerTold, HandlerTyped
<1>15. CASE Debit!ApplyStatus(h)
  <2>1. act[h].at # "idle" /\ AsksNone /\ Debit!Done(h)
        /\ (WritesNone \/ (act[h].said # "none" /\ Debit!Write(m, act[h].said)))
    BY <1>1, <1>15 DEF Debit!ApplyStatus
  <2>2. WritesNone \/ \E status \in Status : Debit!Write(m, status)
    BY <1>3, <2>1
  <2>3. QED
    BY <1>2, <2>1, <2>2, HandlerTold, HandlerTyped
<1>16. QED
  BY <1>5, <1>6, <1>7, <1>8, <1>9, <1>10, <1>11, <1>12, <1>13, <1>14, <1>15 DEF Debit!HandlerStep

LEMMA DebitTypesNext == Debit!TypeOK /\ DebitShape /\ [Debit!Next]_debitVars => Debit!TypeOK'
<1> SUFFICES ASSUME Debit!TypeOK, DebitShape, [Debit!Next]_debitVars
             PROVE  Debit!TypeOK'
  OBVIOUS
<1>1. Sweep \in Debit!Actors /\ Handlers \subseteq Debit!Actors
  BY DEF Debit!Actors
<1>2. CASE UNCHANGED debitVars
  BY <1>2 DEF debitVars, Debit!TypeOK
<1>3. CASE Debit!SweepStep
  BY <1>1, <1>3, HandlerStepTyped DEF Debit!SweepStep, Debit!HandlerStep
<1>4. ASSUME NEW h \in Handlers, Debit!HandlerStep(h)
      PROVE  Debit!TypeOK'
  BY <1>1, <1>4, HandlerStepTyped
<1>5. ASSUME NEW m \in Mandates, Debit!ListStale(m)
      PROVE  Debit!TypeOK'
  BY <1>1, <1>5, BeginsTyped
<1>6. QED
  BY <1>1, <1>2, <1>3, <1>4, <1>5, MandateTyped, BeginsTyped DEF Debit!Next

-----------------------------------------------------------------------------
(* A device loan's interest.  Between the first day charged and the latest no open day is    *)
(* missing and none is charged twice, and what the morning run is about to charge follows on *)
(* from the latest.  That there is a latest is the induction here: numbers are well-founded. *)

Less == {p \in Nat \X Nat : p[1] < p[2]}

LEMMA LessIsWellFounded == IsWellFoundedOn(Less, Nat)
<1>1. Less = OpToRel(<, Nat)
  BY DEF Less, OpToRel
<1>2. QED
  BY <1>1, NatLessThanWellFounded, Zenon

LEMMA Least ==
  ASSUME NEW T \in SUBSET Nat, T # {}
  PROVE  \E n \in T : \A m \in T : n <= m
<1>1. PICK n \in T : \A m \in T : <<m, n>> \notin Less
  BY LessIsWellFounded, WFMin, Zenon
<1>2. \A m \in Nat : m < n => <<m, n>> \in Less
  BY DEF Less
<1>3. \A m \in T : ~ (m < n)
  BY <1>1, <1>2
<1>4. QED
  BY <1>3

LEMMA MinIsLeast ==
  ASSUME NEW T \in SUBSET (1..Days), T # {}
  PROVE  Loan!Min(T) \in T /\ \A d \in T : Loan!Min(T) <= d
<1>1. \E n \in T : \A m \in T : n =< m
  BY Least
<1>2. QED
  BY <1>1 DEF Loan!Min

LEMMA MaxIsGreatest ==
  ASSUME NEW T \in SUBSET (1..Days), T # {}
  PROVE  Loan!Max(T) \in T /\ \A d \in T : d <= Loan!Max(T)
<1> DEFINE Left == {n \in Nat : \E d \in T : n = Days - d}
<1>1. Left # {}
  <2>1. PICK d \in T : TRUE
    OBVIOUS
  <2>2. Days - d \in Nat
    BY LoanAssumption
  <2>3. QED
    BY <2>2
<1>2. PICK n \in Left : \A m \in Left : n <= m
  BY <1>1, Least
<1>3. PICK x \in T : n = Days - x
  BY <1>2
<1>4. ASSUME NEW d \in T
      PROVE  x >= d
  <2>1. Days - d \in Nat
    BY LoanAssumption
  <2>2. n <= Days - d
    BY <1>2, <2>1
  <2>3. QED
    BY <1>3, <2>2, LoanAssumption
<1>5. \E y \in T : \A d \in T : y >= d
  BY <1>4
<1>6. Loan!Max(T) \in T /\ \A d \in T : Loan!Max(T) >= d
  BY <1>5 DEF Loan!Max
<1>7. QED
  BY <1>6

OpenDay(d) == IF d \in ClosedDays THEN 0 ELSE 1

\* Day by day from any day charged to any other.
NoGaps ==
    \A a, b \in Loan!Charged :
        /\ Grace < a /\ a <= today
        /\ \A d \in a..b : charged[d] = OpenDay(d)

AboutToCharge == {d \in Loan!DaysToCharge : d > Grace /\ d \notin ClosedDays}

LoanInv ==
    /\ today \in 1..Days
    /\ charged \in [1..Days -> Nat]
    /\ NoGaps
    /\ run.at \in {"look", "charge"} => run.days = AboutToCharge /\ run.days # {}

LEMMA LoanInit == Loan!Init => LoanInv
<1> SUFFICES ASSUME Loan!Init
             PROVE  LoanInv
  OBVIOUS
<1>1. today = 1 /\ charged = [d \in 1..Days |-> 0] /\ run.at = "due"
  BY DEF Loan!Init
<1>2. Loan!Charged = {}
  BY <1>1 DEF Loan!Charged
<1>3. QED
  BY <1>1, <1>2, LoanAssumption DEF LoanInv, NoGaps

\* What is about to be charged depends on the day and on what is charged.
LEMMA SameToCharge ==
  ASSUME UNCHANGED <<today, charged>>
  PROVE  AboutToCharge' = AboutToCharge /\ Loan!Charged' = Loan!Charged
  BY DEF AboutToCharge, Loan!DaysToCharge, Loan!Charged

\* Every open day from any charged one to today is charged once.
LEMMA ChargedUpToToday ==
  ASSUME LoanInv, Loan!ChargeInterest
  PROVE  /\ charged' \in [1..Days -> Nat]
         /\ Loan!Charged' # {}
         /\ \A a \in Loan!Charged' :
               /\ Grace < a /\ a <= today
               /\ \A d \in a..today : charged'[d] = OpenDay(d)
<1>1. /\ charged' = [d \in 1..Days |-> charged[d] + (IF d \in run.days THEN 1 ELSE 0)]
      /\ run.days = AboutToCharge /\ run.days # {}
      /\ today' = today
  BY DEF Loan!ChargeInterest, LoanInv
<1>2. today \in 1..Days /\ Days \in Nat /\ Grace \in Nat /\ charged \in [1..Days -> Nat]
  BY LoanAssumption DEF LoanInv
<1>3. charged' \in [1..Days -> Nat]
  BY <1>1, <1>2
<1>4. \A d \in 1..Days : charged'[d] = charged[d] + (IF d \in run.days THEN 1 ELSE 0)
  BY <1>1
<1>5. Loan!Charged' = {d \in 1..Days : charged'[d] > 0}
  BY DEF Loan!Charged
<1>6. \A d \in 1..Days : d \in Loan!Charged <=> charged[d] > 0
  BY DEF Loan!Charged
<1>7. CASE Loan!Charged = {}
  <2>1. run.days \subseteq {today} /\ \A d \in run.days : d > Grace /\ d \notin ClosedDays
    BY <1>1, <1>7 DEF AboutToCharge, Loan!DaysToCharge
  <2>2. \A d \in 1..Days : charged[d] = 0
    BY <1>2, <1>6, <1>7
  <2>3. run.days = {today}
    BY <1>1, <2>1
  <2>4. \A d \in 1..Days : charged'[d] = IF d = today THEN 1 ELSE 0
    BY <1>4, <2>2, <2>3
  <2>5. Loan!Charged' = {today}
    BY <1>2, <1>5, <2>4
  <2>6. Grace < today /\ OpenDay(today) = 1
    BY <2>1, <2>3 DEF OpenDay
  <2>7. \A d \in today..today : d = today
    BY <1>2
  <2>8. QED
    BY <1>2, <1>3, <2>4, <2>5, <2>6, <2>7
<1>8. CASE Loan!Charged # {}
  <2>1. PICK m \in Loan!Charged : m = Loan!Max(Loan!Charged) /\ \A d \in Loan!Charged : d <= m
    <3>1. Loan!Charged \in SUBSET (1..Days)
      BY DEF Loan!Charged
    <3>2. QED
      BY <1>8, <3>1, MaxIsGreatest
  <2>2. m \in 1..Days
    BY DEF Loan!Charged
  <2>3. \A d \in Int : d \in run.days <=> m < d /\ d <= today /\ d > Grace /\ d \notin ClosedDays
    BY <1>1, <1>2, <1>8, <2>1, <2>2 DEF AboutToCharge, Loan!DaysToCharge
  <2>4. Grace < m /\ m <= today
    BY DEF LoanInv, NoGaps
  <2>5. \A d \in 1..Days : d <= m => charged'[d] = charged[d]
    BY <1>2, <1>4, <2>2, <2>3
  <2>6. \A d \in 1..Days : m < d /\ d <= today => charged'[d] = OpenDay(d)
    <3>1. \A d \in 1..Days : m < d => charged[d] = 0
      BY <1>2, <1>6, <2>1, <2>2
    <3>2. \A d \in 1..Days : m < d /\ d <= today => (d \in run.days <=> d \notin ClosedDays)
      BY <1>2, <2>2, <2>3, <2>4
    <3>3. QED
      BY <1>4, <3>1, <3>2 DEF OpenDay
  <2>7. \A d \in 1..Days : today < d => charged'[d] = 0
    BY <1>2, <1>4, <1>6, <2>1, <2>2, <2>3, <2>4
  <2>8. ASSUME NEW a \in Loan!Charged'
        PROVE  /\ Grace < a /\ a <= today
               /\ \A d \in a..today : charged'[d] = OpenDay(d)
    <3>1. a \in 1..Days /\ charged'[a] > 0
      BY <1>5
    <3>2. a <= today
      BY <1>2, <2>7, <3>1
    <3>3. CASE a <= m
      <4>1. a \in Loan!Charged
        BY <1>6, <2>5, <3>1, <3>3
      <4>2. Grace < a /\ \A d \in a..m : charged[d] = OpenDay(d)
        BY <2>1, <4>1 DEF LoanInv, NoGaps
      <4>3. ASSUME NEW d \in a..today
            PROVE  charged'[d] = OpenDay(d)
        <5>1. d \in 1..Days
          BY <1>2, <3>1
        <5>2. CASE d <= m
          BY <2>2, <2>5, <3>1, <4>2, <5>1, <5>2
        <5>3. CASE m < d
          BY <1>2, <2>6, <3>1, <5>1, <5>3
        <5>4. QED
          BY <2>2, <5>1, <5>2, <5>3
      <4>4. QED
        BY <3>2, <4>2, <4>3
    <3>4. CASE m < a
      <4>1. Grace < a
        BY <1>2, <2>2, <2>4, <3>1, <3>4
      <4>2. \A d \in a..today : d \in 1..Days /\ m < d /\ d <= today
        BY <1>2, <2>2, <3>1, <3>4
      <4>3. QED
        BY <2>6, <3>2, <4>1, <4>2
    <3>5. QED
      BY <2>2, <3>1, <3>3, <3>4
  <2>9. Loan!Charged' # {}
    BY <1>5, <1>6, <2>2, <2>5
  <2>10. QED
    BY <1>3, <2>8, <2>9
<1>9. QED
  BY <1>7, <1>8

LEMMA ChargeInterestInv ==
  ASSUME LoanInv, Loan!ChargeInterest
  PROVE  LoanInv'
<1>1. today' = today /\ run'.at = "over"
  BY DEF Loan!ChargeInterest, Loan!Goes
<1>2. NoGaps'
  <2>1. ASSUME NEW a \in Loan!Charged', NEW b \in Loan!Charged'
        PROVE  Grace < a /\ a <= today /\ \A d \in a..b : charged'[d] = OpenDay(d)
    <3>1. Grace < a /\ a <= today /\ b <= today /\ \A d \in a..today : charged'[d] = OpenDay(d)
      BY ChargedUpToToday
    <3>2. \A d \in a..b : d \in a..today
      BY <3>1 DEF Loan!Charged, LoanInv
    <3>3. QED
      BY <3>1, <3>2
  <2>2. QED
    BY <1>1, <2>1 DEF NoGaps, OpenDay
<1>3. charged' \in [1..Days -> Nat]
  BY ChargedUpToToday
<1>4. QED
  BY <1>1, <1>2, <1>3 DEF LoanInv

\* Nothing is charged.
LEMMA NothingCharged ==
  ASSUME LoanInv, UNCHANGED charged, today' \in today..Days,
         run'.at \in {"look", "charge"} => run'.days = AboutToCharge' /\ run'.days # {}
  PROVE  LoanInv'
<1>1. Loan!Charged' = Loan!Charged
  BY DEF Loan!Charged
<1>2. today' \in 1..Days /\ \A a \in Loan!Charged : a <= today'
  BY LoanAssumption DEF LoanInv, NoGaps, Loan!Charged
<1>3. NoGaps'
  BY <1>1, <1>2 DEF LoanInv, NoGaps, OpenDay
<1>4. QED
  BY <1>2, <1>3 DEF LoanInv

LEMMA LoanNext == LoanInv /\ [Loan!Next]_loanVars => LoanInv'
<1> SUFFICES ASSUME LoanInv, [Loan!Next]_loanVars
             PROVE  LoanInv'
  OBVIOUS
<1>1. today \in today..Days
  BY LoanAssumption DEF LoanInv
<1>2. CASE UNCHANGED <<today, charged, run>>
  BY <1>1, <1>2, SameToCharge, NothingCharged DEF LoanInv
<1>3. CASE Loan!NextDay
  <2>1. today < Days /\ today' = today + 1 /\ run' = [at |-> "due", days |-> {}] /\ UNCHANGED charged
    BY <1>3 DEF Loan!NextDay
  <2>2. today' \in today..Days /\ run'.at = "due"
    BY <2>1, LoanAssumption DEF LoanInv
  <2>3. QED
    BY <2>1, <2>2, NothingCharged
<1>4. CASE Loan!ListDays
  <2>1. UNCHANGED <<today, charged>>
    BY <1>4 DEF Loan!ListDays
  <2>2. \/ run' = [at |-> "look", days |-> AboutToCharge] /\ AboutToCharge # {}
        \/ run' = [at |-> "over", days |-> {}]
    BY <1>4 DEF Loan!ListDays, Loan!Goes, AboutToCharge
  <2>3. QED
    BY <1>1, <2>1, <2>2, SameToCharge, NothingCharged
<1>5. CASE Loan!LookAtPrincipal
  <2>1. UNCHANGED <<today, charged>> /\ run.at = "look"
    BY <1>5 DEF Loan!LookAtPrincipal
  <2>2. \/ run' = [at |-> "charge", days |-> run.days]
        \/ run' = [at |-> "over", days |-> {}]
    BY <1>5 DEF Loan!LookAtPrincipal, Loan!Goes
  <2>3. run.days = AboutToCharge /\ run.days # {}
    BY <2>1 DEF LoanInv
  <2>4. QED
    BY <1>1, <2>1, <2>2, <2>3, SameToCharge, NothingCharged
<1>6. CASE UNCHANGED loanVars
  BY <1>2, <1>6 DEF loanVars
<1>7. CASE Loan!MarkDefaulted \/ Loan!WriteOffContract
  BY <1>2, <1>7 DEF Loan!MarkDefaulted, Loan!WriteOffContract
<1>8. ASSUME NEW p \in Payments, Loan!PayPrincipal(p) \/ Loan!PayInterest(p) \/ Loan!ReversePayment(p)
      PROVE  LoanInv'
  BY <1>2, <1>8 DEF Loan!PayPrincipal, Loan!PayInterest, Loan!ReversePayment
<1>9. QED
  BY <1>3, <1>4, <1>5, <1>6, <1>7, <1>8, ChargeInterestInv DEF Loan!Next

\* Only the morning's last step charges.
LEMMA OnlyChargeInterestCharges ==
  ASSUME Loan!Next, charged' # charged
  PROVE  Loan!ChargeInterest
  BY DEF Loan!Next, Loan!NextDay, Loan!MarkDefaulted, Loan!ListDays, Loan!LookAtPrincipal,
         Loan!WriteOffContract, Loan!PayPrincipal, Loan!PayInterest, Loan!ReversePayment

LEMMA ChargesEveryDayOnce ==
  ASSUME LoanInv, Loan!Next, charged' # charged
  PROVE  LET days == {d \in 1..Days : charged'[d] > 0} IN
         \A d \in Loan!Min(days)..today : charged'[d] = IF d \in ClosedDays THEN 0 ELSE 1
<1> DEFINE days == {d \in 1..Days : charged'[d] > 0}
<1>1. Loan!ChargeInterest
  BY OnlyChargeInterestCharges
<1>2. days = Loan!Charged'
  BY DEF Loan!Charged
<1>3. days # {} /\ \A a \in days : \A d \in a..today : charged'[d] = OpenDay(d)
  BY <1>1, <1>2, ChargedUpToToday
<1>4. Loan!Min(days) \in days
  BY <1>3, MinIsLeast
<1>5. QED
  BY <1>3, <1>4 DEF OpenDay

\* Types of loans: a payment is of some kind, for so many days.
LoanTypes ==
    /\ Loan!TypeOK
    /\ paid = [p \in Payments |-> paid[p]]
    /\ \A p \in Payments : paid[p] = [kind |-> paid[p].kind, days |-> paid[p].days]

LEMMA LoanTypesInit == Loan!Init => LoanTypes
  BY LoanAssumption DEF Loan!Init, LoanTypes, Loan!TypeOK, Loan!NoPayment

\* What is about to be charged is not of a day to come.
LEMMA ChargesPastDays ==
  ASSUME LoanInv
  PROVE  AboutToCharge \subseteq 1..today
<1>1. today \in 1..Days /\ Loan!Charged \in SUBSET (1..Days)
  BY DEF LoanInv, Loan!Charged
<1>2. CASE Loan!Charged = {}
  BY <1>1, <1>2, LoanAssumption DEF AboutToCharge, Loan!DaysToCharge
<1>3. CASE Loan!Charged # {}
  <2>1. Loan!Max(Loan!Charged) \in 1..Days
    BY <1>1, <1>3, MaxIsGreatest
  <2>2. QED
    BY <1>1, <1>3, <2>1, LoanAssumption DEF AboutToCharge, Loan!DaysToCharge
<1>4. QED
  BY <1>2, <1>3

\* A status the payment leaves, or moves to.
LEMMA AdvanceTyped ==
  ASSUME loan \in {"ACTIVE", "DEFAULTED", "COMPLETED", "WRITTEN_OFF"}, Loan!AdvanceContractStatus
  PROVE  loan' \in {"ACTIVE", "DEFAULTED", "COMPLETED", "WRITTEN_OFF"}
<1> DEFINE cured == loan = "DEFAULTED" => {d \in Loan!Charged \ settled' : today - d > Threshold} = {}
           clear == (\E p \in Payments : paid'[p].kind = "PRINCIPAL") /\ Loan!Charged \subseteq settled'
<1>1. loan' = CASE cured /\ clear -> "COMPLETED" [] cured -> "ACTIVE" [] OTHER -> loan
  BY DEF Loan!AdvanceContractStatus
<1> HIDE DEF cured, clear
<1>2. CASE cured /\ clear
  <2>1. loan' \in {"COMPLETED", "ACTIVE"}
    BY <1>1, <1>2
  <2>2. QED
    BY <2>1
<1>3. CASE cured /\ ~clear
  BY <1>1, <1>3
<1>4. CASE ~cured
  BY <1>1, <1>4
<1>5. QED
  BY <1>2, <1>3, <1>4

\* A payment settles days that are charged.
LEMMA PaymentTyped ==
  ASSUME LoanTypes, NEW p \in Payments, Loan!PayPrincipal(p) \/ Loan!PayInterest(p) \/ Loan!ReversePayment(p)
  PROVE  LoanTypes'
<1>1. UNCHANGED <<today, charged, run>> /\ Loan!Charged' = Loan!Charged
  BY DEF Loan!PayPrincipal, Loan!PayInterest, Loan!ReversePayment, Loan!Charged
<1>2. loan' \in {"ACTIVE", "DEFAULTED", "COMPLETED", "WRITTEN_OFF"}
  BY AdvanceTyped DEF LoanTypes, Loan!TypeOK, Loan!PayPrincipal, Loan!PayInterest, Loan!ReversePayment
<1>3. settled' \subseteq Loan!Charged
  BY DEF LoanTypes, Loan!TypeOK, Loan!PayPrincipal, Loan!PayInterest, Loan!ReversePayment, Loan!Unpaid
<1>4. /\ paid' = [q \in Payments |-> paid'[q]] /\ \A q \in Payments \ {p} : paid'[q] = paid[q]
      /\ paid'[p].kind \in {"PRINCIPAL", "INTEREST", "REVERSED"}
      /\ paid'[p] = [kind |-> paid'[p].kind, days |-> paid'[p].days]
  <2>1. CASE Loan!PayPrincipal(p)
    <3>1. paid' = [paid EXCEPT ![p] = [kind |-> "PRINCIPAL", days |-> {}]]
      BY <2>1 DEF Loan!PayPrincipal
    <3>2. QED
      BY <3>1 DEF LoanTypes
  <2>2. CASE Loan!PayInterest(p)
    <3>1. PICK days : paid' = [paid EXCEPT ![p] = [kind |-> "INTEREST", days |-> days]]
      BY <2>2 DEF Loan!PayInterest
    <3>2. QED
      BY <3>1 DEF LoanTypes
  <2>3. CASE Loan!ReversePayment(p)
    <3>1. paid' = [paid EXCEPT ![p] = [paid[p] EXCEPT !.kind = "REVERSED"]]
      BY <2>3 DEF Loan!ReversePayment
    <3>2. PICK row : row = [paid[p] EXCEPT !.kind = "REVERSED"]
      OBVIOUS
    <3>3. row = [kind |-> "REVERSED", days |-> paid[p].days]
      BY <3>2 DEF LoanTypes
    <3>4. QED
      BY <3>1, <3>2, <3>3 DEF LoanTypes
  <2>4. QED
    BY <2>1, <2>2, <2>3
<1>5. paid' = [q \in Payments |-> paid'[q]]
      /\ \A q \in Payments : /\ paid'[q].kind \in {"none", "PRINCIPAL", "INTEREST", "REVERSED"}
                             /\ paid'[q] = [kind |-> paid'[q].kind, days |-> paid'[q].days]
  BY <1>4 DEF LoanTypes, Loan!TypeOK
<1>6. QED
  BY <1>1, <1>2, <1>3, <1>5 DEF LoanTypes, Loan!TypeOK

\* The morning.
LEMMA MorningTyped ==
  ASSUME LoanTypes, LoanInv, LoanInv',
         Loan!NextDay \/ Loan!MarkDefaulted \/ Loan!ListDays \/ Loan!LookAtPrincipal \/ Loan!WriteOffContract
  PROVE  LoanTypes'
<1>1. UNCHANGED <<charged, settled, paid>> /\ Loan!Charged' = Loan!Charged
  BY DEF Loan!NextDay, Loan!MarkDefaulted, Loan!ListDays, Loan!LookAtPrincipal, Loan!WriteOffContract, Loan!Charged
<1>2. loan' \in {"ACTIVE", "DEFAULTED", "COMPLETED", "WRITTEN_OFF"}
  BY DEF LoanTypes, Loan!TypeOK, Loan!NextDay, Loan!MarkDefaulted, Loan!ListDays, Loan!LookAtPrincipal,
     Loan!WriteOffContract
<1>3. run'.at \in {"due", "look", "charge", "over"} /\ run'.days \subseteq 1..today'
  <2>1. CASE Loan!NextDay
    BY <2>1 DEF Loan!NextDay
  <2>2. CASE Loan!MarkDefaulted \/ Loan!WriteOffContract
    BY <2>2 DEF LoanTypes, Loan!TypeOK, Loan!MarkDefaulted, Loan!WriteOffContract
  <2>3. CASE Loan!ListDays
    <3>1. \/ run'.at = "look" /\ run'.days = AboutToCharge
          \/ run'.at = "over" /\ run'.days = {}
      BY <2>3 DEF Loan!ListDays, Loan!Goes, AboutToCharge
    <3>2. AboutToCharge \subseteq 1..today'
      BY <2>3, ChargesPastDays DEF Loan!ListDays
    <3>3. QED
      BY <3>1, <3>2
  <2>4. CASE Loan!LookAtPrincipal
    <3>1. \/ run'.at = "charge" /\ run'.days = run.days
          \/ run'.at = "over" /\ run'.days = {}
      BY <2>4 DEF Loan!LookAtPrincipal, Loan!Goes
    <3>2. run.days \subseteq 1..today'
      BY <2>4 DEF LoanTypes, Loan!TypeOK, Loan!LookAtPrincipal
    <3>3. QED
      BY <3>1, <3>2
  <2>5. QED
    BY <2>1, <2>2, <2>3, <2>4
<1>4. today' \in 1..Days
  BY DEF LoanInv
<1>5. QED
  BY <1>1, <1>2, <1>3, <1>4 DEF LoanTypes, Loan!TypeOK

LEMMA ChargeInterestTyped ==
  ASSUME LoanTypes, LoanInv, Loan!ChargeInterest
  PROVE  LoanTypes'
<1>1. charged' \in [1..Days -> Nat]
  BY ChargedUpToToday
<1>2. /\ UNCHANGED <<today, loan, settled, paid>> /\ run' = [at |-> "over", days |-> {}]
      /\ charged' = [d \in 1..Days |-> charged[d] + (IF d \in run.days THEN 1 ELSE 0)]
  BY DEF Loan!ChargeInterest, Loan!Goes
<1>3. Loan!Charged \subseteq Loan!Charged'
  <2>1. ASSUME NEW d \in 1..Days, charged[d] > 0
        PROVE  charged'[d] > 0
    BY <1>2, <2>1 DEF LoanInv
  <2>2. QED
    BY <2>1 DEF Loan!Charged
<1>4. settled' \subseteq Loan!Charged'
  BY <1>2, <1>3 DEF LoanTypes, Loan!TypeOK
<1>5. QED
  BY <1>1, <1>2, <1>4 DEF LoanTypes, Loan!TypeOK

LEMMA LoanTypesNext == LoanTypes /\ LoanInv /\ [Loan!Next]_loanVars => LoanTypes'
<1> SUFFICES ASSUME LoanTypes, LoanInv, [Loan!Next]_loanVars
             PROVE  LoanTypes'
  OBVIOUS
<1>1. LoanInv'
  BY LoanNext
<1>2. CASE UNCHANGED loanVars
  BY <1>2 DEF loanVars, LoanTypes, Loan!TypeOK, Loan!Charged
<1>3. QED
  BY <1>1, <1>2, PaymentTyped, MorningTyped, ChargeInterestTyped DEF Loan!Next

-----------------------------------------------------------------------------
(* Stock.  A phone that no two handlers wrote over each other agrees with its sale, its agent *)
(* and its movements, because what each handler on it has read still holds: whoever wrote     *)
(* it in between would have written beside that handler.                                     *)

ItemFields == {"status", "branch", "agent"}
SaleFields == {"is", "phone", "branch"}
MovingFields == {"pc", "type", "phone", "contract", "to"}

\* A handler under way is about a phone, one that is not is about nothing, and a running sale
\* has its phone.
StockShape ==
    /\ item = [i \in Phones |-> item[i]]
    /\ \A i \in Phones : item[i] = [f \in ItemFields |-> item[i][f]]
    /\ moved = [i \in Phones |-> moved[i]]
    /\ contract = [c \in Contracts |-> contract[c]]
    /\ \A c \in Contracts :
          /\ contract[c] = [f \in SaleFields |-> contract[c][f]]
          /\ contract[c].is \in {"waiting", "active"} => contract[c].phone \in Phones
    /\ moving = [h \in Handlers |-> moving[h]]
    /\ \A h \in Handlers :
          /\ moving[h] = [f \in MovingFields |-> moving[h][f]]
          /\ moving[h].pc # "idle" => moving[h].phone \in Phones
          /\ moving[h].pc = "idle" => moving[h].phone = None /\ moving[h].contract = None

\* The handlers of one contract take turns, and it is as its handler found it.
TakesTurns(h) ==
    LET c == moving[h].contract IN
    IF c = None
    THEN moving[h].pc \in {"check", "update", "record"} => moving[h].type \in {"TRANSFER", "ADJUSTMENT"}
    ELSE /\ c \in Contracts
         /\ moving[h].pc \in {"check", "update"}
         /\ \A g \in Handlers \ {h} : moving[g].contract # c
         /\ \/ moving[h].type = "RESERVE" /\ contract[c].is = "none"
            \/ moving[h].type = "ISSUE" /\ contract[c].is = "waiting" /\ contract[c].phone = moving[h].phone
            \/ moving[h].type = "RETURN" /\ contract[c].is \in {"waiting", "active"}
                   /\ contract[c].phone = moving[h].phone

\* What a handler read of its phone, or has written to it, is so.
Knows(h) ==
    LET row == item[moving[h].phone]
        at == moving[h].pc IN
    /\ moving[h].type = "RESERVE" => moving[h].to = row.branch
    /\ at = "update" => row.status \in Shelf!From(moving[h].type)
    /\ at = "assign" /\ moving[h].to # None => AgentBranch[moving[h].to] = row.branch
    /\ at = "record" => moving[h].to = row.branch
                         /\ (moving[h].type = "TRANSFER" => row.status = "AVAILABLE")

AgreesWithSales(i) ==
    /\ \A c, d \in Shelf!Sold(i) : c = d
    /\ item[i].status = "RESERVED" <=> \E c \in Shelf!Sold(i) : contract[c].is = "waiting"
    /\ \A c \in Shelf!Sold(i) : /\ contract[c].is = "active" => item[i].status = "ISSUED"
                                /\ contract[c].branch = item[i].branch
    /\ item[i].agent # None => AgentBranch[item[i].agent] = item[i].branch

Recorded(i) == \A h \in Handlers : moving[h].phone = i => moving[h].pc # "record"

AgreesWithMovement(i) ==
    /\ moved[i].branch = item[i].branch
    /\ moved[i].type # "ADJUSTMENT" => item[i].status = Shelf!To(moved[i].type)

PhoneAgrees(i) == AgreesWithSales(i) /\ (Recorded(i) => AgreesWithMovement(i))

StockInv ==
    /\ StockShape
    /\ \A h \in Handlers : TakesTurns(h)
    /\ \A h \in Handlers : moving[h].pc # "idle" /\ moving[h].phone \notin disturbed => Knows(h)
    /\ \A i \in Phones \ disturbed : PhoneAgrees(i)

LEMMA StockInit == Shelf!Init => StockInv
<1> SUFFICES ASSUME Shelf!Init
             PROVE  StockInv
  OBVIOUS
<1> USE DEF Shelf!Init
<1>1. /\ \A h \in Handlers : moving[h] = Shelf!Idle
      /\ \A c \in Contracts : contract[c] = [is |-> "none", phone |-> None, branch |-> None]
      /\ \A i \in Phones : moved[i] = [type |-> "RECEIPT", branch |-> item[i].branch]
      /\ \A i \in Phones : item[i] \in [status : {"AVAILABLE"}, branch : Branches, agent : {None}]
  OBVIOUS
<1>2. Shelf!Idle.pc = "idle" /\ Shelf!Idle.phone = None /\ Shelf!Idle.contract = None
      /\ Shelf!Idle = [f \in MovingFields |-> Shelf!Idle[f]]
  BY DEF Shelf!Idle, MovingFields
<1>3. StockShape
  <2>1. \A i \in Phones : item[i] = [f \in ItemFields |-> item[i][f]]
    BY <1>1 DEF ItemFields
  <2>2. \A c \in Contracts : contract[c] = [f \in SaleFields |-> contract[c][f]] /\ contract[c].is = "none"
    BY <1>1 DEF SaleFields
  <2>3. \A h \in Handlers : moving[h] = [f \in MovingFields |-> moving[h][f]]
                            /\ moving[h].pc = "idle" /\ moving[h].phone = None /\ moving[h].contract = None
    BY <1>1, <1>2
  <2>4. item = [i \in Phones |-> item[i]] /\ moved = [i \in Phones |-> moved[i]]
        /\ contract = [c \in Contracts |-> contract[c]] /\ moving = [h \in Handlers |-> moving[h]]
    OBVIOUS
  <2>5. QED
    BY <2>1, <2>2, <2>3, <2>4 DEF StockShape
<1>4. \A h \in Handlers : TakesTurns(h) /\ moving[h].pc = "idle"
  BY <1>1, <1>2 DEF TakesTurns
<1>5. ASSUME NEW i \in Phones
      PROVE  PhoneAgrees(i)
  <2>1. Shelf!Sold(i) = {}
    BY <1>1 DEF Shelf!Sold
  <2>2. item[i].status = "AVAILABLE" /\ item[i].agent = None
    BY <1>1
  <2>3. moved[i].branch = item[i].branch /\ moved[i].type = "RECEIPT" /\ Shelf!To("RECEIPT") = "AVAILABLE"
    BY <1>1 DEF Shelf!To
  <2>4. QED
    BY <2>1, <2>2, <2>3 DEF PhoneAgrees, AgreesWithSales, AgreesWithMovement
<1>6. QED
  BY <1>3, <1>4, <1>5 DEF StockInv

LEMMA StockInvImplies == StockInv => StockAgrees
<1> SUFFICES ASSUME StockInv
             PROVE  \A i \in Phones \ disturbed :
                        Recorded(i) => AgreesWithSales(i) /\ AgreesWithMovement(i)
  BY DEF StockAgrees, Shelf!StockAgrees, AgreesWithSales, AgreesWithMovement, Recorded
<1>1. QED
  BY DEF StockInv, PhoneAgrees

\* A handler that goes on, on the same phone, and writes nothing.
LEMMA HandlerMoves ==
  ASSUME StockInv, NEW h \in Handlers, NEW new,
         moving' = [moving EXCEPT ![h] = new],
         new = [f \in MovingFields |-> new[f]],
         new.pc # "idle" => new.phone \in Phones,
         new.pc = "idle" => new.phone = None /\ new.contract = None,
         moving[h].pc # "record", new.pc # "record",
         new.contract = None \/ new.contract = moving[h].contract
             \/ \A g \in Handlers : moving[g].contract # new.contract,
         TakesTurns(h)', new.pc # "idle" /\ new.phone \notin disturbed => Knows(h)',
         UNCHANGED <<item, moved, contract, disturbed>>
  PROVE  StockInv'
<1>1. /\ moving' = [g \in Handlers |-> moving'[g]]
      /\ moving'[h] = new
      /\ \A g \in Handlers \ {h} : moving'[g] = moving[g]
  BY DEF StockInv, StockShape
<1>2. StockShape'
  <2>1. \A g \in Handlers :
          /\ moving'[g] = [f \in MovingFields |-> moving'[g][f]]
          /\ moving'[g].pc # "idle" => moving'[g].phone \in Phones
          /\ moving'[g].pc = "idle" => moving'[g].phone = None /\ moving'[g].contract = None
    BY <1>1 DEF StockInv, StockShape
  <2>2. QED
    BY <1>1, <2>1 DEF StockInv, StockShape
<1>3. ASSUME NEW g \in Handlers
      PROVE  TakesTurns(g)'
  <2>1. CASE g = h
    BY <2>1
  <2>2. CASE g # h /\ moving[g].contract = None
    BY <1>1, <2>2 DEF StockInv, TakesTurns
  <2>3. CASE g # h /\ moving[g].contract # None
    <3>1. TakesTurns(g) /\ moving'[g] = moving[g]
      BY <1>1, <2>3 DEF StockInv
    <3>2. \A f \in Handlers \ {g} : moving[f].contract # moving[g].contract
      BY <2>3, <3>1 DEF TakesTurns
    <3>3. new.contract # moving[g].contract
      BY <2>3, <3>2
    <3>4. \A f \in Handlers \ {g} : moving'[f].contract # moving[g].contract
      BY <1>1, <3>2, <3>3
    <3>5. QED
      BY <2>3, <3>1, <3>4 DEF TakesTurns
  <2>4. QED
    BY <2>1, <2>2, <2>3
<1>4. ASSUME NEW g \in Handlers, moving'[g].pc # "idle", moving'[g].phone \notin disturbed
      PROVE  Knows(g)'
  <2>1. CASE g = h
    BY <1>1, <1>4, <2>1
  <2>2. CASE g # h
    BY <1>1, <1>4, <2>2 DEF StockInv, Knows
  <2>3. QED
    BY <2>1, <2>2
<1>5. ASSUME NEW i \in Phones \ disturbed
      PROVE  PhoneAgrees(i)'
  <2>1. Recorded(i)' => Recorded(i)
    BY <1>1 DEF Recorded
  <2>2. Shelf!Sold(i)' = Shelf!Sold(i)
    BY DEF Shelf!Sold
  <2>3. PhoneAgrees(i)
    BY DEF StockInv
  <2>4. AgreesWithSales(i)'
    BY <2>2, <2>3 DEF PhoneAgrees, AgreesWithSales
  <2>5. AgreesWithMovement(i) => AgreesWithMovement(i)'
    BY DEF AgreesWithMovement
  <2>6. QED
    BY <2>1, <2>3, <2>4, <2>5 DEF PhoneAgrees
<1>6. QED
  BY <1>2, <1>3, <1>4, <1>5 DEF StockInv

\* What a handler begins with is so: of its phone, and of a contract nobody else is about.
LEMMA BeginInv ==
  ASSUME StockInv, NEW h \in Handlers, NEW at \in {"check", "assign"}, NEW type, NEW i \in Phones,
         NEW c, NEW to, Shelf!Begin(h, at, type, i, c, to),
         UNCHANGED <<item, moved, contract, disturbed>>,
         c # None => c \in Contracts /\ Shelf!Untouched(c) /\ at = "check",
         c = None /\ at = "check" => type \in {"TRANSFER", "ADJUSTMENT"},
         c # None => \/ type = "RESERVE" /\ contract[c].is = "none"
                     \/ type = "ISSUE" /\ contract[c].is = "waiting" /\ contract[c].phone = i
                     \/ type = "RETURN" /\ contract[c].is \in {"waiting", "active"} /\ contract[c].phone = i,
         type = "RESERVE" => to = item[i].branch,
         at = "assign" /\ to # None => AgentBranch[to] = item[i].branch
  PROVE  StockInv'
<1>1. PICK new : new = [pc |-> at, type |-> type, phone |-> i, contract |-> c, to |-> to]
  OBVIOUS
<1>2. /\ new.pc = at /\ new.type = type /\ new.phone = i /\ new.contract = c /\ new.to = to
      /\ new = [f \in MovingFields |-> new[f]]
  BY <1>1 DEF MovingFields
<1>3. moving' = [moving EXCEPT ![h] = new] /\ moving[h].pc = "idle"
  BY <1>1 DEF Shelf!Begin
<1>4. /\ moving'[h] = new
      /\ \A g \in Handlers \ {h} : moving'[g] = moving[g]
  BY <1>3 DEF StockInv, StockShape
<1>5. c # None => \A g \in Handlers : moving[g].contract # c
  BY DEF Shelf!Untouched
<1>6. TakesTurns(h)'
  <2>1. CASE c = None
    BY <1>2, <1>4, <2>1 DEF TakesTurns
  <2>2. CASE c # None
    BY <1>2, <1>4, <1>5, <2>2 DEF TakesTurns
  <2>3. QED
    BY <2>1, <2>2
<1>7. Knows(h)'
  BY <1>2, <1>4 DEF Knows
<1>8. QED
  BY <1>2, <1>3, <1>5, <1>6, <1>7, HandlerMoves

\* What is sold, paid for or given back has its phone, and calls its contract by name.
LEMMA BeginsSaleInv ==
  ASSUME StockInv, NEW h \in Handlers, NEW c \in Contracts,
         \/ \E i \in Phones, seller \in Agents \cup {None} : Shelf!Sell(h, c, i, seller)
         \/ Shelf!PayDeposit(h, c)
         \/ Shelf!Cancel(h, c) /\ UNCHANGED contract
  PROVE  StockInv'
<1>0. c # None
  BY NoneAssumption
<1>1. ASSUME NEW i \in Phones, NEW seller \in Agents \cup {None}, Shelf!Sell(h, c, i, seller)
      PROVE  StockInv'
  <2>1. /\ contract[c].is = "none" /\ Shelf!Untouched(c)
        /\ Shelf!Begin(h, "check", "RESERVE", i, c, item[i].branch)
        /\ UNCHANGED <<item, moved, contract, disturbed>>
    BY <1>1 DEF Shelf!Sell
  <2>2. QED
    BY <1>0, <2>1, BeginInv
<1>2. CASE Shelf!PayDeposit(h, c)
  <2>1. /\ contract[c].is = "waiting" /\ Shelf!Untouched(c)
        /\ Shelf!Begin(h, "check", "ISSUE", contract[c].phone, c, None)
        /\ UNCHANGED <<item, moved, contract, disturbed>>
    BY <1>2 DEF Shelf!PayDeposit
  <2>2. contract[c].phone \in Phones
    BY <2>1 DEF StockInv, StockShape
  <2>3. QED
    BY <1>0, <2>1, <2>2, BeginInv
<1>3. CASE Shelf!Cancel(h, c) /\ UNCHANGED contract
  <2>1. /\ contract[c].is \in {"waiting", "active"} /\ Shelf!Untouched(c)
        /\ UNCHANGED <<item, moved, contract, disturbed>>
    BY <1>3 DEF Shelf!Cancel
  <2>2. contract[c].phone \in Phones
    BY <2>1 DEF StockInv, StockShape
  <2>3. Shelf!Begin(h, "check", "RETURN", contract[c].phone, c, None)
    <3>1. CASE item[contract[c].phone].status = "RESERVED"
      BY <1>3, <3>1 DEF Shelf!Cancel
    <3>2. CASE item[contract[c].phone].status # "RESERVED"
      <4>1. contract' = [contract EXCEPT ![c].is = "cancelled"]
        BY <1>3, <3>2 DEF Shelf!Cancel
      <4>2. contract'[c].is = "cancelled"
        BY <4>1 DEF StockInv, StockShape, SaleFields
      <4>3. QED
        BY <2>1, <4>2
    <3>3. QED
      BY <3>1, <3>2
  <2>4. QED
    BY <1>0, <2>1, <2>2, <2>3, BeginInv
<1>4. QED
  BY <1>1, <1>2, <1>3

\* Moved, corrected or handed to an agent of its branch, without a contract.
LEMMA BeginsByHandInv ==
  ASSUME StockInv, NEW h \in Handlers, NEW i \in Phones,
         \/ \E b \in Branches : Shelf!Transfer(h, i, b)
         \/ \E s \in Shelf!Statuses : Shelf!Adjust(h, i, s)
         \/ \E a \in Agents \cup {None} : Shelf!Assign(h, i, a)
  PROVE  StockInv'
<1>1. UNCHANGED <<item, moved, contract, disturbed>>
  BY DEF Shelf!Transfer, Shelf!Adjust, Shelf!Assign
<1>2. ASSUME NEW b \in Branches, Shelf!Transfer(h, i, b)
      PROVE  StockInv'
  BY <1>1, <1>2, BeginInv DEF Shelf!Transfer
<1>3. ASSUME NEW s \in Shelf!Statuses, Shelf!Adjust(h, i, s)
      PROVE  StockInv'
  BY <1>1, <1>3, BeginInv DEF Shelf!Adjust
<1>4. ASSUME NEW a \in Agents \cup {None}, Shelf!Assign(h, i, a)
      PROVE  StockInv'
  BY <1>1, <1>4, BeginInv DEF Shelf!Assign
<1>5. QED
  BY <1>2, <1>3, <1>4

\* A handler that has ended is about nothing.
LEMMA Ended ==
  ASSUME StockInv, NEW h \in Handlers, Shelf!Ends(h)
  PROVE  /\ moving' = [moving EXCEPT ![h] = Shelf!Idle]
         /\ moving'[h] = Shelf!Idle
         /\ \A g \in Handlers \ {h} : moving'[g] = moving[g]
         /\ Shelf!Idle.pc = "idle" /\ Shelf!Idle.phone = None /\ Shelf!Idle.contract = None
         /\ Shelf!Idle = [f \in MovingFields |-> Shelf!Idle[f]]
         /\ TakesTurns(h)'
<1>1. Shelf!Idle.pc = "idle" /\ Shelf!Idle.phone = None /\ Shelf!Idle.contract = None
      /\ Shelf!Idle = [f \in MovingFields |-> Shelf!Idle[f]]
  BY DEF Shelf!Idle, MovingFields
<1>2. /\ moving' = [moving EXCEPT ![h] = Shelf!Idle]
      /\ moving'[h] = Shelf!Idle
      /\ \A g \in Handlers \ {h} : moving'[g] = moving[g]
  BY DEF Shelf!Ends, StockInv, StockShape
<1>3. QED
  BY <1>1, <1>2 DEF TakesTurns

LEMMA CheckTransitionInv ==
  ASSUME StockInv, NEW h \in Handlers, Shelf!CheckTransition(h)
  PROVE  StockInv'
<1>1. moving[h].pc = "check" /\ UNCHANGED <<item, moved, contract, disturbed>>
  BY DEF Shelf!CheckTransition
<1>2. CASE Shelf!Ends(h)
  BY <1>1, <1>2, Ended, HandlerMoves
<1>3. CASE item[moving[h].phone].status \in Shelf!From(moving[h].type)
           /\ moving' = [moving EXCEPT ![h].pc = "update"]
  <2>1. PICK new : new = [moving[h] EXCEPT !.pc = "update"]
    OBVIOUS
  <2>2. moving' = [moving EXCEPT ![h] = new]
    BY <1>3, <2>1
  <2>3. /\ new.pc = "update" /\ new = [f \in MovingFields |-> new[f]]
        /\ new.type = moving[h].type /\ new.phone = moving[h].phone
        /\ new.contract = moving[h].contract /\ new.to = moving[h].to
    BY <2>1 DEF StockInv, StockShape, MovingFields
  <2>4. /\ moving'[h] = new
        /\ \A g \in Handlers \ {h} : moving'[g] = moving[g]
    BY <2>2 DEF StockInv, StockShape
  <2>5. TakesTurns(h)'
    <3>1. TakesTurns(h)
      BY DEF StockInv
    <3>2. QED
      BY <1>1, <2>3, <2>4, <3>1 DEF TakesTurns
  <2>6. Knows(h)' \/ moving[h].phone \in disturbed
    BY <1>1, <1>3, <2>3, <2>4 DEF StockInv, Knows
  <2>7. new.phone \in Phones
    BY <1>1, <2>3 DEF StockInv, StockShape
  <2>8. QED
    BY <1>1, <2>2, <2>3, <2>5, <2>6, <2>7, HandlerMoves
<1>4. QED
  BY <1>2, <1>3 DEF Shelf!CheckTransition

\* One handler writes its phone, and with it its contract or the phone's movement.  The other
\* phones are untouched, and who else is on this one is beside it.
LEMMA OneWrites ==
  ASSUME StockInv, NEW h \in Handlers, NEW i \in Phones, i = moving[h].phone,
         item' = [j \in Phones |-> item'[j]], moved' = [j \in Phones |-> moved'[j]],
         contract' = [c \in Contracts |-> contract'[c]], moving' = [g \in Handlers |-> moving'[g]],
         item'[i] = [f \in ItemFields |-> item'[i][f]],
         moving'[h] = [f \in MovingFields |-> moving'[h][f]],
         \A c \in Contracts : contract'[c] = [f \in SaleFields |-> contract'[c][f]],
         \A j \in Phones \ {i} : item'[j] = item[j] /\ moved'[j] = moved[j],
         \A g \in Handlers \ {h} : moving'[g] = moving[g],
         \A c \in Contracts :
             \/ contract'[c] = contract[c]
             \/ /\ c = moving[h].contract /\ moving[h].contract # None
                /\ contract'[c].phone = i /\ (contract[c].phone = i \/ contract[c].is = "none"),
         \/ moving'[h].pc = "idle" /\ moving'[h].phone = None /\ moving'[h].contract = None
         \/ moving'[h].pc # "idle" /\ moving'[h].phone = i /\ moving'[h].contract = None,
         disturbed \subseteq disturbed',
         item'[i] = item[i] \/ ~ Shelf!Overlapped(h) \/ i \in disturbed',
         i \notin disturbed' => PhoneAgrees(i)',
         TakesTurns(h)',
         moving'[h].pc # "idle" /\ i \notin disturbed' => Knows(h)'
  PROVE  StockInv'
<1>1. StockShape'
  <2>1. \A j \in Phones : item'[j] = [f \in ItemFields |-> item'[j][f]]
    BY DEF StockInv, StockShape
  <2>2. ASSUME NEW g \in Handlers
        PROVE  /\ moving'[g] = [f \in MovingFields |-> moving'[g][f]]
               /\ moving'[g].pc # "idle" => moving'[g].phone \in Phones
               /\ moving'[g].pc = "idle" => moving'[g].phone = None /\ moving'[g].contract = None
    <3>1. CASE g = h
      BY <3>1
    <3>2. CASE g # h
      BY <3>2 DEF StockInv, StockShape
    <3>3. QED
      BY <3>1, <3>2
  <2>3. \A c \in Contracts : contract'[c].is \in {"waiting", "active"} => contract'[c].phone \in Phones
    BY DEF StockInv, StockShape
  <2>4. QED
    BY <2>1, <2>2, <2>3 DEF StockShape
<1>2. ASSUME NEW g \in Handlers \ {h}
      PROVE  TakesTurns(g)'
  <2>1. TakesTurns(g) /\ TakesTurns(h) /\ moving'[g] = moving[g]
    BY DEF StockInv
  <2>2. CASE moving[g].contract = None
    BY <2>1, <2>2 DEF TakesTurns
  <2>3. CASE moving[g].contract # None
    <3>1. moving[g].contract \in Contracts /\ \A f \in Handlers \ {g} : moving[f].contract # moving[g].contract
      BY <2>1, <2>3 DEF TakesTurns
    <3>2. contract'[moving[g].contract] = contract[moving[g].contract]
      BY <3>1
    <3>3. \A f \in Handlers \ {g} : moving'[f].contract # moving[g].contract
      BY <2>3, <3>1
    <3>4. QED
      BY <2>1, <2>3, <3>2, <3>3 DEF TakesTurns
  <2>4. QED
    BY <2>2, <2>3
<1>3. ASSUME NEW g \in Handlers \ {h}, moving[g].pc # "idle", moving[g].phone \notin disturbed'
      PROVE  Knows(g)'
  <2>1. moving'[g] = moving[g] /\ moving[g].phone \in Phones /\ Knows(g)
    BY <1>3 DEF StockInv, StockShape
  <2>2. item'[moving[g].phone] = item[moving[g].phone]
    <3>1. CASE moving[g].phone # i
      BY <2>1, <3>1
    <3>2. CASE moving[g].phone = i
      <4>1. Shelf!Overlapped(h)
        BY <3>2 DEF Shelf!Overlapped
      <4>2. QED
        BY <1>3, <3>2, <4>1
    <3>3. QED
      BY <3>1, <3>2
  <2>3. QED
    BY <2>1, <2>2 DEF Knows
<1>4. ASSUME NEW j \in Phones, j # i, j \notin disturbed
      PROVE  PhoneAgrees(j)'
  <2>1. PhoneAgrees(j)
    BY <1>4 DEF StockInv
  <2>2. item'[j] = item[j] /\ moved'[j] = moved[j]
    BY <1>4
  <2>3. /\ Shelf!Sold(j)' = Shelf!Sold(j)
        /\ \A c \in Shelf!Sold(j) : contract'[c] = contract[c]
    BY <1>4 DEF Shelf!Sold
  <2>4. Recorded(j)' => Recorded(j)
    <3>1. None \notin Phones
      BY NoneAssumption
    <3>2. QED
      BY <1>4, <3>1 DEF Recorded
  <2>5. AgreesWithSales(j)'
    BY <2>1, <2>2, <2>3 DEF PhoneAgrees, AgreesWithSales
  <2>6. QED
    BY <2>1, <2>2, <2>4, <2>5 DEF PhoneAgrees, AgreesWithMovement
<1>5. \A g \in Handlers : TakesTurns(g)'
  BY <1>2
<1>6. \A g \in Handlers : moving'[g].pc # "idle" /\ moving'[g].phone \notin disturbed' => Knows(g)'
  BY <1>3
<1>7. \A j \in Phones \ disturbed' : PhoneAgrees(j)'
  BY <1>4
<1>8. QED
  BY <1>1, <1>5, <1>6, <1>7 DEF StockInv

\* The statuses movements leave from and lead to.
LEMMA Transitions ==
  /\ Shelf!From("RESERVE") = {"AVAILABLE"} /\ Shelf!From("TRANSFER") = {"AVAILABLE"}
  /\ Shelf!To("RESERVE") = "RESERVED" /\ Shelf!To("ISSUE") = "ISSUED"
  /\ Shelf!To("RETURN") = "AVAILABLE" /\ Shelf!To("TRANSFER") = "AVAILABLE"
  BY DEF Shelf!From, Shelf!To

\* A phone that nobody else is on agrees with its sales, and with its movement when its
\* handler is not about to record one.
LEMMA Alone ==
  ASSUME StockInv, NEW h \in Handlers, moving[h].pc # "idle", ~ Shelf!Overlapped(h),
         moving[h].phone \notin disturbed
  PROVE  /\ moving[h].phone \in Phones /\ Knows(h)
         /\ AgreesWithSales(moving[h].phone)
         /\ moving[h].pc # "record" => AgreesWithMovement(moving[h].phone)
<1>1. moving[h].phone \in Phones /\ Knows(h)
  BY DEF StockInv, StockShape
<1>2. PhoneAgrees(moving[h].phone)
  BY <1>1 DEF StockInv
<1>3. moving[h].pc # "record" => Recorded(moving[h].phone)
  BY DEF Recorded, Shelf!Overlapped
<1>4. QED
  BY <1>1, <1>2, <1>3 DEF PhoneAgrees

\* A phone in the shop is on no contract, and no other is neither reserved nor out.
LEMMA UnsoldPhone ==
  ASSUME StockInv, NEW i \in Phones, AgreesWithSales(i), item[i].status \notin {"RESERVED", "ISSUED"}
  PROVE  Shelf!Sold(i) = {}
<1>1. ASSUME NEW c \in Shelf!Sold(i)
      PROVE  FALSE
  <2>1. contract[c].is \in {"waiting", "active"}
    BY DEF Shelf!Sold
  <2>2. QED
    BY <2>1 DEF AgreesWithSales
<1>2. QED
  BY <1>1

\* The phone of a sale: the contract and the movement are written with it.
LEMMA UpdateSoldItem ==
  ASSUME StockInv, NEW h \in Handlers, Shelf!UpdateItem(h),
         NEW c, c = moving[h].contract, c # None, NEW i, i = moving[h].phone
  PROVE  StockInv'
<1> DEFINE a == moving[h]
<1>1. /\ a.pc = "update" /\ i \in Phones /\ c \in Contracts /\ TakesTurns(h)
      /\ a.type \in {"RESERVE", "ISSUE", "RETURN"}
  <2>1. a.pc = "update" /\ TakesTurns(h)
    BY DEF Shelf!UpdateItem, StockInv
  <2>2. QED
    BY <2>1 DEF StockInv, StockShape, TakesTurns
<1>2. PICK row : row = Shelf!Moved(item[i], a.type, a.to)
  OBVIOUS
<1>3. /\ item' = [item EXCEPT ![i] = row]
      /\ moved' = [moved EXCEPT ![i] = [type |-> a.type, branch |-> item[i].branch]]
      /\ contract' = [contract EXCEPT ![c] = Shelf!Concluded(a)]
      /\ Shelf!Ends(h)
      /\ disturbed' = IF Shelf!Overlapped(h) \/ Shelf!AgainstSales(a) THEN disturbed \cup {i} ELSE disturbed
  BY <1>2 DEF Shelf!UpdateItem, Shelf!Disturb
<1>4. /\ row = [f \in ItemFields |-> row[f]]
      /\ row.branch = item[i].branch /\ row.agent = item[i].agent /\ row.status = Shelf!To(a.type)
  <2>1. row = [item[i] EXCEPT !.status = Shelf!To(a.type)]
    BY <1>1, <1>2 DEF Shelf!Moved
  <2>2. item[i] = [f \in ItemFields |-> item[i][f]]
    BY <1>1 DEF StockInv, StockShape
  <2>3. QED
    BY <2>1, <2>2 DEF ItemFields
<1>5. /\ item' = [j \in Phones |-> item'[j]] /\ item'[i] = row
      /\ moved' = [j \in Phones |-> moved'[j]]
      /\ moved'[i] = [type |-> a.type, branch |-> item[i].branch]
      /\ \A j \in Phones \ {i} : item'[j] = item[j] /\ moved'[j] = moved[j]
  BY <1>1, <1>3 DEF StockInv, StockShape
<1>6. PICK new : new = Shelf!Concluded(a)
  OBVIOUS
<1>7. /\ new = [f \in SaleFields |-> new[f]] /\ new.phone = i
      /\ a.type = "RESERVE" => new.is = "waiting" /\ new.branch = a.to
      /\ a.type = "ISSUE" => new.is = "active" /\ new.branch = contract[c].branch
      /\ a.type = "RETURN" => new.is = "cancelled"
  <2>1. contract[c] = [f \in SaleFields |-> contract[c][f]]
    BY <1>1 DEF StockInv, StockShape
  <2>2. CASE a.type = "RESERVE"
    <3>1. new = [is |-> "waiting", phone |-> i, branch |-> a.to]
      BY <1>6, <2>2 DEF Shelf!Concluded
    <3>2. QED
      BY <2>2, <3>1 DEF SaleFields
  <2>3. CASE a.type = "ISSUE"
    <3>1. new = [contract[c] EXCEPT !.is = "active"] /\ contract[c].phone = i
      BY <1>1, <1>6, <2>3 DEF Shelf!Concluded, TakesTurns
    <3>2. QED
      BY <2>1, <2>3, <3>1 DEF SaleFields
  <2>4. CASE a.type = "RETURN"
    <3>1. new = [contract[c] EXCEPT !.is = "cancelled"] /\ contract[c].phone = i
      BY <1>1, <1>6, <2>4 DEF Shelf!Concluded, TakesTurns
    <3>2. QED
      BY <2>1, <2>4, <3>1 DEF SaleFields
  <2>5. QED
    BY <1>1, <2>2, <2>3, <2>4
<1>8. /\ contract' = [d \in Contracts |-> contract'[d]] /\ contract'[c] = new
      /\ \A d \in Contracts \ {c} : contract'[d] = contract[d]
  BY <1>1, <1>3, <1>6 DEF StockInv, StockShape
<1>9. contract[c].phone = i \/ contract[c].is = "none"
  BY <1>1 DEF TakesTurns
<1>10. /\ moving' = [g \in Handlers |-> moving'[g]]
       /\ moving'[h] = Shelf!Idle
       /\ \A g \in Handlers \ {h} : moving'[g] = moving[g]
       /\ Shelf!Idle.pc = "idle" /\ Shelf!Idle.phone = None /\ Shelf!Idle.contract = None
       /\ Shelf!Idle = [f \in MovingFields |-> Shelf!Idle[f]]
       /\ TakesTurns(h)'
  <2>1. moving' = [g \in Handlers |-> moving'[g]]
    BY <1>3 DEF Shelf!Ends, StockInv, StockShape
  <2>2. QED
    BY <1>3, <2>1, Ended
<1>11. ASSUME i \notin disturbed'
       PROVE  PhoneAgrees(i)'
  <2>1. i \notin disturbed /\ ~ Shelf!Overlapped(h)
    BY <1>3, <1>11
  <2>2. AgreesWithSales(i) /\ AgreesWithMovement(i) /\ Knows(h)
    BY <1>1, <2>1, Alone
  <2>3. item[i].status \in Shelf!From(a.type)
    BY <1>1, <2>2 DEF Knows
  <2>4. AgreesWithMovement(i)'
    BY <1>1, <1>4, <1>5 DEF AgreesWithMovement
  <2>5. \A d \in Contracts : d \in Shelf!Sold(i)' <=>
            contract'[d].phone = i /\ contract'[d].is \in {"waiting", "active"}
    BY DEF Shelf!Sold
  <2>6. \A d \in Contracts \ {c} : d \in Shelf!Sold(i)' <=> d \in Shelf!Sold(i)
    BY <1>8, <2>5 DEF Shelf!Sold
  <2>7. Shelf!Sold(i)' \subseteq Contracts /\ Shelf!Sold(i) \subseteq Contracts
    BY DEF Shelf!Sold
  <2>8. CASE a.type = "RESERVE"
    <3>1. item[i].status = "AVAILABLE"
      BY <2>3, <2>8, Transitions
    <3>2. Shelf!Sold(i) = {}
      BY <1>1, <2>2, <3>1, UnsoldPhone
    <3>3. Shelf!Sold(i)' = {c}
      BY <1>1, <1>7, <1>8, <2>5, <2>6, <2>7, <2>8, <3>2
    <3>4. row.status = "RESERVED" /\ a.to = item[i].branch
      BY <1>4, <2>2, <2>8, Transitions DEF Knows
    <3>5. AgreesWithSales(i)'
      BY <1>4, <1>5, <1>7, <1>8, <2>2, <2>8, <3>3, <3>4 DEF AgreesWithSales
    <3>6. QED
      BY <2>4, <3>5 DEF PhoneAgrees
  <2>9. CASE a.type \in {"ISSUE", "RETURN"}
    <3>1. contract[c].is \in {"waiting", "active"} /\ contract[c].phone = i
      BY <1>1, <2>9 DEF TakesTurns
    <3>2. Shelf!Sold(i) = {c}
      BY <1>1, <2>2, <3>1 DEF AgreesWithSales, Shelf!Sold
    <3>3. contract[c].branch = item[i].branch
      BY <2>2, <3>2 DEF AgreesWithSales
    <3>4. CASE a.type = "ISSUE"
      <4>1. Shelf!Sold(i)' = {c}
        BY <1>1, <1>7, <1>8, <2>5, <2>6, <2>7, <3>2, <3>4
      <4>2. row.status = "ISSUED"
        BY <1>4, <3>4, Transitions
      <4>3. AgreesWithSales(i)'
        BY <1>4, <1>5, <1>7, <1>8, <2>2, <3>3, <3>4, <4>1, <4>2 DEF AgreesWithSales
      <4>4. QED
        BY <2>4, <4>3 DEF PhoneAgrees
    <3>5. CASE a.type = "RETURN"
      <4>1. Shelf!Sold(i)' = {}
        BY <1>1, <1>7, <1>8, <2>5, <2>6, <2>7, <3>2, <3>5
      <4>2. row.status = "AVAILABLE"
        BY <1>4, <3>5, Transitions
      <4>3. AgreesWithSales(i)'
        BY <1>4, <1>5, <2>2, <4>1, <4>2 DEF AgreesWithSales
      <4>4. QED
        BY <2>4, <4>3 DEF PhoneAgrees
    <3>6. QED
      BY <2>9, <3>4, <3>5
  <2>10. QED
    BY <1>1, <2>8, <2>9
<1>12. disturbed \subseteq disturbed' /\ (~ Shelf!Overlapped(h) \/ i \in disturbed')
  BY <1>3
<1>13. \A d \in Contracts : contract'[d] = [f \in SaleFields |-> contract'[d][f]]
  BY <1>7, <1>8 DEF StockInv, StockShape
<1>14. QED
  BY <1>1, <1>4, <1>5, <1>7, <1>8, <1>9, <1>10, <1>11, <1>12, <1>13, OneWrites

\* The phone of no sale: the movement is still to be recorded.
LEMMA UpdateUnsoldItem ==
  ASSUME StockInv, NEW h \in Handlers, Shelf!UpdateItem(h), moving[h].contract = None,
         NEW i, i = moving[h].phone
  PROVE  StockInv'
<1> DEFINE a == moving[h]
<1>1. /\ a.pc = "update" /\ i \in Phones /\ a.type \in {"TRANSFER", "ADJUSTMENT"}
      /\ UNCHANGED <<moved, contract>>
  <2>1. a.pc = "update" /\ TakesTurns(h) /\ UNCHANGED <<moved, contract>>
    BY DEF Shelf!UpdateItem, StockInv
  <2>2. QED
    BY <2>1 DEF StockInv, StockShape, TakesTurns
<1>2. PICK row : row = Shelf!Moved(item[i], a.type, a.to)
  OBVIOUS
<1>3. /\ item' = [item EXCEPT ![i] = row]
      /\ moving' = [moving EXCEPT ![h].pc = "record", ![h].to = item'[i].branch]
      /\ disturbed' = IF Shelf!Overlapped(h) \/ Shelf!AgainstSales(a) THEN disturbed \cup {i} ELSE disturbed
  BY <1>2 DEF Shelf!UpdateItem, Shelf!Disturb
<1>4. /\ row = [f \in ItemFields |-> row[f]]
      /\ a.type = "TRANSFER" => row.status = "AVAILABLE" /\ row.agent = None
      /\ a.type = "ADJUSTMENT" =>
            row.status = a.to /\ row.branch = item[i].branch /\ row.agent = item[i].agent
  <2>1. CASE a.type = "TRANSFER"
    <3>1. row = [status |-> "AVAILABLE", branch |-> a.to, agent |-> None]
      BY <1>2, <2>1 DEF Shelf!Moved
    <3>2. QED
      BY <2>1, <3>1 DEF ItemFields
  <2>2. CASE a.type = "ADJUSTMENT"
    <3>1. row = [item[i] EXCEPT !.status = a.to]
      BY <1>2, <2>2 DEF Shelf!Moved
    <3>2. item[i] = [f \in ItemFields |-> item[i][f]]
      BY <1>1 DEF StockInv, StockShape
    <3>3. QED
      BY <2>2, <3>1, <3>2 DEF ItemFields
  <2>3. QED
    BY <1>1, <2>1, <2>2
<1>5. /\ item' = [j \in Phones |-> item'[j]] /\ item'[i] = row
      /\ \A j \in Phones \ {i} : item'[j] = item[j]
  BY <1>1, <1>3 DEF StockInv, StockShape
<1>6. PICK new : new = [moving[h] EXCEPT !.pc = "record", !.to = row.branch]
  OBVIOUS
<1>7. moving' = [moving EXCEPT ![h] = new]
  <2>1. moving = [g \in Handlers |-> moving[g]]
    BY DEF StockInv, StockShape
  <2>2. moving[h] = [f \in MovingFields |-> moving[h][f]]
    BY DEF StockInv, StockShape
  <2>3. item'[i].branch = row.branch
    BY <1>5
  <2>4. moving' = [moving EXCEPT ![h].pc = "record", ![h].to = row.branch]
    BY <1>3, <2>3
  <2>5. QED
    BY <1>6, <2>1, <2>2, <2>4 DEF MovingFields
<1>8. /\ new = [f \in MovingFields |-> new[f]] /\ new.pc = "record" /\ new.to = row.branch
      /\ new.phone = i /\ new.contract = None /\ new.type = a.type
  BY <1>6 DEF StockInv, StockShape, MovingFields
<1>9. /\ moving' = [g \in Handlers |-> moving'[g]] /\ moving'[h] = new
      /\ \A g \in Handlers \ {h} : moving'[g] = moving[g]
  BY <1>7 DEF StockInv, StockShape
<1>10. TakesTurns(h)'
  BY <1>1, <1>8, <1>9 DEF TakesTurns
<1>11. Knows(h)'
  BY <1>1, <1>4, <1>5, <1>8, <1>9 DEF Knows
<1>12. ASSUME i \notin disturbed'
       PROVE  PhoneAgrees(i)'
  <2>1. i \notin disturbed /\ ~ Shelf!Overlapped(h) /\ ~ Shelf!AgainstSales(a)
    BY <1>3, <1>12
  <2>2. AgreesWithSales(i) /\ Knows(h)
    BY <1>1, <2>1, Alone
  <2>3. ~ Recorded(i)'
    BY <1>8, <1>9 DEF Recorded
  <2>4. Shelf!Sold(i)' = Shelf!Sold(i)
    BY <1>1 DEF Shelf!Sold
  <2>5. CASE a.type = "TRANSFER"
    <3>1. item[i].status = "AVAILABLE"
      BY <1>1, <2>2, <2>5, Transitions DEF Knows
    <3>2. Shelf!Sold(i) = {}
      BY <1>1, <2>2, <3>1, UnsoldPhone
    <3>3. AgreesWithSales(i)'
      BY <1>4, <1>5, <2>4, <2>5, <3>2 DEF AgreesWithSales
    <3>4. QED
      BY <2>3, <3>3 DEF PhoneAgrees
  <2>6. CASE a.type = "ADJUSTMENT"
    <3>1. Shelf!Sold(i) = {} /\ a.to \notin {"RESERVED", "ISSUED"}
      BY <2>1, <2>6 DEF Shelf!AgainstSales
    <3>2. AgreesWithSales(i)'
      BY <1>4, <1>5, <2>2, <2>4, <2>6, <3>1 DEF AgreesWithSales
    <3>3. QED
      BY <2>3, <3>2 DEF PhoneAgrees
  <2>7. QED
    BY <1>1, <2>5, <2>6
<1>13. /\ disturbed \subseteq disturbed' /\ (~ Shelf!Overlapped(h) \/ i \in disturbed')
       /\ moved' = [j \in Phones |-> moved'[j]] /\ contract' = [c \in Contracts |-> contract'[c]]
       /\ \A c \in Contracts : contract'[c] = [f \in SaleFields |-> contract'[c][f]]
  BY <1>1, <1>3 DEF StockInv, StockShape
<1>14. QED
  BY <1>1, <1>4, <1>5, <1>8, <1>9, <1>10, <1>11, <1>12, <1>13, OneWrites

\* The movement tells where the phone is now, if nobody wrote it since.
LEMMA RecordMovementInv ==
  ASSUME StockInv, NEW h \in Handlers, Shelf!RecordMovement(h), NEW i, i = moving[h].phone
  PROVE  StockInv'
<1> DEFINE a == moving[h]
<1>1. /\ a.pc = "record" /\ i \in Phones /\ TakesTurns(h)
      /\ moved' = [moved EXCEPT ![i] = [type |-> a.type, branch |-> a.to]]
      /\ Shelf!Ends(h)
      /\ UNCHANGED <<item, contract, disturbed>>
  BY DEF Shelf!RecordMovement, StockInv, StockShape
<1>2. a.type \in {"TRANSFER", "ADJUSTMENT"}
  BY <1>1 DEF TakesTurns
<1>3. /\ moved' = [j \in Phones |-> moved'[j]]
      /\ moved'[i].type = a.type /\ moved'[i].branch = a.to
      /\ \A j \in Phones \ {i} : moved'[j] = moved[j]
  BY <1>1 DEF StockInv, StockShape
<1>4. /\ moving' = [g \in Handlers |-> moving'[g]]
      /\ moving'[h] = Shelf!Idle
      /\ \A g \in Handlers \ {h} : moving'[g] = moving[g]
      /\ Shelf!Idle.pc = "idle" /\ Shelf!Idle.phone = None /\ Shelf!Idle.contract = None
      /\ Shelf!Idle = [f \in MovingFields |-> Shelf!Idle[f]]
      /\ TakesTurns(h)'
  <2>1. moving' = [g \in Handlers |-> moving'[g]]
    BY <1>1 DEF Shelf!Ends, StockInv, StockShape
  <2>2. QED
    BY <1>1, <2>1, Ended
<1>5. ASSUME i \notin disturbed'
      PROVE  PhoneAgrees(i)'
  <2>1. Knows(h) /\ AgreesWithSales(i)
    BY <1>1, <1>5 DEF StockInv, PhoneAgrees
  <2>2. a.to = item[i].branch /\ (a.type = "TRANSFER" => item[i].status = "AVAILABLE")
    BY <1>1, <2>1 DEF Knows
  <2>3. AgreesWithMovement(i)'
    BY <1>1, <1>2, <1>3, <2>2, Transitions DEF AgreesWithMovement
  <2>4. Shelf!Sold(i)' = Shelf!Sold(i)
    BY <1>1 DEF Shelf!Sold
  <2>5. AgreesWithSales(i)'
    BY <1>1, <2>1, <2>4 DEF AgreesWithSales
  <2>6. QED
    BY <2>3, <2>5 DEF PhoneAgrees
<1>6. /\ item' = [j \in Phones |-> item'[j]] /\ contract' = [c \in Contracts |-> contract'[c]]
      /\ item'[i] = [f \in ItemFields |-> item'[i][f]]
      /\ \A c \in Contracts : contract'[c] = [f \in SaleFields |-> contract'[c][f]]
  BY <1>1 DEF StockInv, StockShape
<1>7. QED
  BY <1>1, <1>3, <1>4, <1>5, <1>6, OneWrites

\* The agent is of the branch the phone is still in.
LEMMA UpdateAssignmentInv ==
  ASSUME StockInv, NEW h \in Handlers, Shelf!UpdateAssignment(h), NEW i, i = moving[h].phone
  PROVE  StockInv'
<1> DEFINE a == moving[h]
<1>1. /\ a.pc = "assign" /\ i \in Phones
      /\ item' = [item EXCEPT ![i].agent = a.to]
      /\ Shelf!Ends(h)
      /\ disturbed' = IF Shelf!Overlapped(h) THEN disturbed \cup {i} ELSE disturbed
      /\ UNCHANGED <<moved, contract>>
  BY DEF Shelf!UpdateAssignment, Shelf!Disturb, StockInv, StockShape
<1>2. PICK row : row = [item[i] EXCEPT !.agent = a.to]
  OBVIOUS
<1>3. /\ row = [f \in ItemFields |-> row[f]] /\ row.agent = a.to
      /\ row.status = item[i].status /\ row.branch = item[i].branch
  BY <1>1, <1>2 DEF StockInv, StockShape, ItemFields
<1>4. item' = [item EXCEPT ![i] = row]
  BY <1>1, <1>2
<1>5. /\ item' = [j \in Phones |-> item'[j]] /\ item'[i] = row
      /\ \A j \in Phones \ {i} : item'[j] = item[j]
  BY <1>1, <1>4 DEF StockInv, StockShape
<1>6. /\ moving' = [g \in Handlers |-> moving'[g]]
      /\ moving'[h] = Shelf!Idle
      /\ \A g \in Handlers \ {h} : moving'[g] = moving[g]
      /\ Shelf!Idle.pc = "idle" /\ Shelf!Idle.phone = None /\ Shelf!Idle.contract = None
      /\ Shelf!Idle = [f \in MovingFields |-> Shelf!Idle[f]]
      /\ TakesTurns(h)'
  <2>1. moving' = [g \in Handlers |-> moving'[g]]
    BY <1>1 DEF Shelf!Ends, StockInv, StockShape
  <2>2. QED
    BY <1>1, <2>1, Ended
<1>7. ASSUME i \notin disturbed'
      PROVE  PhoneAgrees(i)'
  <2>1. i \notin disturbed /\ ~ Shelf!Overlapped(h)
    BY <1>1, <1>7
  <2>2. AgreesWithSales(i) /\ AgreesWithMovement(i) /\ Knows(h)
    BY <1>1, <2>1, Alone
  <2>3. a.to # None => AgentBranch[a.to] = item[i].branch
    BY <1>1, <2>2 DEF Knows
  <2>4. Shelf!Sold(i)' = Shelf!Sold(i)
    BY <1>1 DEF Shelf!Sold
  <2>5. AgreesWithSales(i)'
    BY <1>1, <1>3, <1>5, <2>2, <2>3, <2>4 DEF AgreesWithSales
  <2>6. AgreesWithMovement(i)'
    BY <1>1, <1>3, <1>5, <2>2 DEF AgreesWithMovement
  <2>7. QED
    BY <2>5, <2>6 DEF PhoneAgrees
<1>8. /\ disturbed \subseteq disturbed' /\ (~ Shelf!Overlapped(h) \/ i \in disturbed')
      /\ moved' = [j \in Phones |-> moved'[j]] /\ contract' = [c \in Contracts |-> contract'[c]]
      /\ \A c \in Contracts : contract'[c] = [f \in SaleFields |-> contract'[c][f]]
      /\ moved' = moved /\ contract' = contract
  <2>1. disturbed \subseteq disturbed' /\ (~ Shelf!Overlapped(h) \/ i \in disturbed')
    BY <1>1
  <2>2. moved' = moved /\ contract' = contract
    BY <1>1
  <2>3. QED
    BY <2>1, <2>2 DEF StockInv, StockShape
<1>9. /\ i \in Phones /\ item'[i] = [f \in ItemFields |-> item'[i][f]]
      /\ moving'[h] = [f \in MovingFields |-> moving'[h][f]]
  BY <1>1, <1>3, <1>5, <1>6
<1>10. QED
  BY <1>5, <1>6, <1>7, <1>8, <1>9, OneWrites

LEMMA StockDieInv ==
  ASSUME StockInv, NEW h \in Handlers, Shelf!Die(h), NEW i, i = moving[h].phone
  PROVE  StockInv'
<1>1. /\ i \in Phones /\ Shelf!Ends(h) /\ disturbed' = disturbed \cup {i}
      /\ UNCHANGED <<item, moved, contract>>
  BY DEF Shelf!Die, Shelf!Disturb, StockInv, StockShape
<1>2. /\ moving' = [g \in Handlers |-> moving'[g]]
      /\ moving'[h] = Shelf!Idle
      /\ \A g \in Handlers \ {h} : moving'[g] = moving[g]
      /\ Shelf!Idle.pc = "idle" /\ Shelf!Idle.phone = None /\ Shelf!Idle.contract = None
      /\ Shelf!Idle = [f \in MovingFields |-> Shelf!Idle[f]]
      /\ TakesTurns(h)'
  <2>1. moving' = [g \in Handlers |-> moving'[g]]
    BY <1>1 DEF Shelf!Ends, StockInv, StockShape
  <2>2. QED
    BY <1>1, <2>1, Ended
<1>3. /\ item' = [j \in Phones |-> item'[j]] /\ moved' = [j \in Phones |-> moved'[j]]
      /\ contract' = [c \in Contracts |-> contract'[c]]
      /\ item'[i] = [f \in ItemFields |-> item'[i][f]]
      /\ \A c \in Contracts : contract'[c] = [f \in SaleFields |-> contract'[c][f]]
  BY <1>1 DEF StockInv, StockShape
<1>4. i \in disturbed' /\ disturbed \subseteq disturbed'
  BY <1>1
<1>5. QED
  BY <1>1, <1>2, <1>3, <1>4, OneWrites

\* A phone the customer has stays out; the sale that said so no longer runs.
LEMMA CancelsInPlace ==
  ASSUME StockInv, NEW h \in Handlers, NEW c \in Contracts, Shelf!Cancel(h, c),
         item[contract[c].phone].status # "RESERVED"
  PROVE  StockInv'
<1> DEFINE i == contract[c].phone
<1>1. /\ contract[c].is \in {"waiting", "active"} /\ Shelf!Untouched(c)
      /\ contract' = [contract EXCEPT ![c].is = "cancelled"]
      /\ UNCHANGED <<item, moved, moving, disturbed>>
  BY DEF Shelf!Cancel
<1>2. PICK new : new = [contract[c] EXCEPT !.is = "cancelled"]
  OBVIOUS
<1>3. contract' = [contract EXCEPT ![c] = new]
  BY <1>1, <1>2
<1>4. contract[c] = [f \in SaleFields |-> contract[c][f]] /\ i \in Phones
  BY <1>1 DEF StockInv, StockShape
<1>5. /\ new = [f \in SaleFields |-> new[f]] /\ new.is = "cancelled" /\ new.phone = i
  BY <1>2, <1>4 DEF SaleFields
<1>6. /\ contract' = [d \in Contracts |-> contract'[d]] /\ contract'[c] = new
      /\ \A d \in Contracts \ {c} : contract'[d] = contract[d]
  BY <1>3 DEF StockInv, StockShape
<1>7. item' = item /\ moved' = moved /\ moving' = moving /\ disturbed' = disturbed
  BY <1>1
<1>8. StockShape'
  <2>1. StockShape
    BY DEF StockInv
  <2>2. \A d \in Contracts :
           /\ contract'[d] = [f \in SaleFields |-> contract'[d][f]]
           /\ contract'[d].is \in {"waiting", "active"} => contract'[d].phone \in Phones
    BY <1>5, <1>6, <2>1 DEF StockShape
  <2>3. QED
    BY <1>6, <1>7, <2>1, <2>2 DEF StockShape
<1>9. ASSUME NEW g \in Handlers
      PROVE  TakesTurns(g)'
  <2>1. TakesTurns(g) /\ moving[g].contract # c
    BY <1>1 DEF StockInv, Shelf!Untouched
  <2>2. moving[g].contract \in Contracts => contract'[moving[g].contract] = contract[moving[g].contract]
    BY <1>6, <2>1
  <2>3. QED
    BY <1>7, <2>1, <2>2 DEF TakesTurns
<1>10. ASSUME NEW g \in Handlers, moving'[g].pc # "idle", moving'[g].phone \notin disturbed'
       PROVE  Knows(g)'
  <2>1. Knows(g)
    BY <1>7, <1>10 DEF StockInv
  <2>2. QED
    BY <1>7, <2>1 DEF Knows
<1>11. ASSUME NEW j \in Phones, j \notin disturbed
       PROVE  PhoneAgrees(j)'
  <2>1. PhoneAgrees(j)
    BY <1>11 DEF StockInv
  <2>2. Recorded(j)' = Recorded(j) /\ AgreesWithMovement(j)' = AgreesWithMovement(j)
    BY <1>7 DEF Recorded, AgreesWithMovement
  <2>3. AgreesWithSales(j)'
    <3>1. CASE j # i
      <4>1. Shelf!Sold(j)' = Shelf!Sold(j) /\ \A d \in Shelf!Sold(j) : contract'[d] = contract[d]
        BY <1>5, <1>6, <3>1 DEF Shelf!Sold
      <4>2. QED
        BY <1>7, <2>1, <4>1 DEF PhoneAgrees, AgreesWithSales
    <3>2. CASE j = i
      <4>1. \A d \in Shelf!Sold(i) : d = c
        BY <1>1, <2>1, <3>2 DEF PhoneAgrees, AgreesWithSales, Shelf!Sold
      <4>2. Shelf!Sold(j)' = {}
        BY <1>5, <1>6, <3>2, <4>1 DEF Shelf!Sold
      <4>3. item[j].status # "RESERVED"
        BY <3>2
      <4>4. QED
        BY <1>7, <2>1, <4>2, <4>3 DEF PhoneAgrees, AgreesWithSales
    <3>3. QED
      BY <3>1, <3>2
  <2>4. QED
    BY <2>1, <2>2, <2>3 DEF PhoneAgrees
<1>12. QED
  BY <1>7, <1>8, <1>9, <1>10, <1>11 DEF StockInv

LEMMA StockNext == StockInv /\ [Shelf!Next]_stockVars => StockInv'
<1> SUFFICES ASSUME StockInv, [Shelf!Next]_stockVars
             PROVE  StockInv'
  OBVIOUS
<1>1. CASE UNCHANGED stockVars
  BY <1>1 DEF stockVars, StockInv, StockShape, TakesTurns, Knows, PhoneAgrees, AgreesWithSales,
              AgreesWithMovement, Recorded, Shelf!Sold
<1>2. ASSUME NEW h \in Handlers, NEW c \in Contracts, Shelf!Cancel(h, c)
      PROVE  StockInv'
  <2>1. CASE item[contract[c].phone].status = "RESERVED"
    <3>1. UNCHANGED contract
      BY <1>2, <2>1 DEF Shelf!Cancel
    <3>2. QED
      BY <1>2, <3>1, BeginsSaleInv
  <2>2. QED
    BY <1>2, <2>1, CancelsInPlace
<1>3. ASSUME NEW h \in Handlers, NEW c \in Contracts,
             \/ \E i \in Phones, seller \in Agents \cup {None} : Shelf!Sell(h, c, i, seller)
             \/ Shelf!PayDeposit(h, c)
      PROVE  StockInv'
  BY <1>3, BeginsSaleInv
<1>4. ASSUME NEW h \in Handlers, NEW i \in Phones,
             \/ \E b \in Branches : Shelf!Transfer(h, i, b)
             \/ \E s \in Shelf!Statuses : Shelf!Adjust(h, i, s)
             \/ \E a \in Agents \cup {None} : Shelf!Assign(h, i, a)
      PROVE  StockInv'
  BY <1>4, BeginsByHandInv
<1>5. ASSUME NEW h \in Handlers, Shelf!CheckTransition(h)
      PROVE  StockInv'
  BY <1>5, CheckTransitionInv
<1>6. ASSUME NEW h \in Handlers, Shelf!UpdateItem(h)
      PROVE  StockInv'
  <2>1. PICK c, i : c = moving[h].contract /\ i = moving[h].phone
    OBVIOUS
  <2>2. CASE c = None
    BY <1>6, <2>1, <2>2, UpdateUnsoldItem
  <2>3. CASE c # None
    BY <1>6, <2>1, <2>3, UpdateSoldItem
  <2>4. QED
    BY <2>2, <2>3
<1>7. ASSUME NEW h \in Handlers,
             Shelf!RecordMovement(h) \/ Shelf!UpdateAssignment(h) \/ Shelf!Die(h)
      PROVE  StockInv'
  <2>1. PICK i : i = moving[h].phone
    OBVIOUS
  <2>2. CASE Shelf!RecordMovement(h)
    BY <2>1, <2>2, RecordMovementInv
  <2>3. CASE Shelf!UpdateAssignment(h)
    BY <2>1, <2>3, UpdateAssignmentInv
  <2>4. CASE Shelf!Die(h)
    BY <2>1, <2>4, StockDieInv
  <2>5. QED
    BY <1>7, <2>2, <2>3, <2>4
<1>8. QED
  BY <1>1, <1>2, <1>3, <1>4, <1>5, <1>6, <1>7 DEF Shelf!Next

\* What a handler is about to write is of its kind.
BringsTyped(h) ==
    LET at == moving[h].pc
        type == moving[h].type
        to == moving[h].to IN
    /\ at \in {"idle", "check", "update", "record", "assign"}
    /\ at \in {"check", "update", "record"} => type \in Shelf!Movements
    /\ at \in {"check", "update"} /\ type = "TRANSFER" => to \in Branches
    /\ at \in {"check", "update"} /\ type = "ADJUSTMENT" => to \in Shelf!Statuses
    /\ at = "record" => to \in Branches
    /\ at = "assign" => to \in Agents \cup {None}

StockTypes == Shelf!TypeOK /\ \A h \in Handlers : BringsTyped(h)

LEMMA StockTypesInit == Shelf!Init => StockTypes
<1> SUFFICES ASSUME Shelf!Init
             PROVE  StockTypes
  OBVIOUS
<1>1. \A h \in Handlers : moving[h].pc = "idle"
  BY DEF Shelf!Init, Shelf!Idle
<1>2. item \in [Phones -> [status : Shelf!Statuses, branch : Branches, agent : Agents \cup {None}]]
  BY DEF Shelf!Init, Shelf!Statuses
<1>3. \A i \in Phones : moved[i].type = "RECEIPT" /\ moved[i].branch \in Branches
  <2>1. item \in [Phones -> [status : {"AVAILABLE"}, branch : Branches, agent : {None}]]
    BY DEF Shelf!Init
  <2>2. \A i \in Phones : item[i].branch \in Branches
    BY <2>1
  <2>3. \A i \in Phones : moved[i] = [type |-> "RECEIPT", branch |-> item[i].branch]
    BY DEF Shelf!Init
  <2>4. ASSUME NEW i \in Phones
        PROVE  moved[i].type = "RECEIPT" /\ moved[i].branch = item[i].branch
    <3>1. PICK b : b = item[i].branch
      OBVIOUS
    <3>2. moved[i] = [type |-> "RECEIPT", branch |-> b]
      BY <2>3, <2>4, <3>1
    <3>3. QED
      BY <3>1, <3>2
  <2>5. QED
    BY <2>2, <2>4
<1>4. \A c \in Contracts : contract[c].is = "none" /\ contract[c].phone \notin Phones
  BY NoneAssumption DEF Shelf!Init
<1>5. disturbed = {}
  BY DEF Shelf!Init
<1>6. Shelf!TypeOK
  BY <1>1, <1>2, <1>3, <1>4, <1>5 DEF Shelf!TypeOK
<1>7. QED
  BY <1>1, <1>6 DEF StockTypes, BringsTyped

\* One handler goes on, with something of its kind; what else is written has its type.
LEMMA BringerTyped ==
  ASSUME StockTypes, StockShape, NEW h \in Handlers, NEW new, moving' = [moving EXCEPT ![h] = new],
         BringsTyped(h)',
         item' \in [Phones -> [status : Shelf!Statuses, branch : Branches, agent : Agents \cup {None}]],
         \A i \in Phones : moved'[i].type \in Shelf!Movements \cup {"RECEIPT"} /\ moved'[i].branch \in Branches,
         \A c \in Contracts : /\ contract'[c].is \in {"none", "waiting", "active", "cancelled"}
                              /\ contract'[c].phone \in Phones <=> contract'[c].is # "none",
         disturbed' \subseteq Phones
  PROVE  StockTypes'
<1>1. \A g \in Handlers \ {h} : moving'[g] = moving[g]
  BY DEF StockShape
<1>2. \A g \in Handlers : BringsTyped(g)'
  BY <1>1 DEF StockTypes, BringsTyped
<1>3. \A g \in Handlers : moving'[g].pc \in {"idle", "check", "update", "record", "assign"}
  BY <1>2 DEF BringsTyped
<1>4. QED
  BY <1>2, <1>3 DEF StockTypes, Shelf!TypeOK

LEMMA BeginTyped ==
  ASSUME StockTypes, StockShape, NEW h \in Handlers, NEW at \in {"check", "assign"}, NEW type, NEW i, NEW c, NEW to,
         Shelf!Begin(h, at, type, i, c, to),
         at = "check" => type \in Shelf!Movements,
         at = "check" /\ type = "TRANSFER" => to \in Branches,
         at = "check" /\ type = "ADJUSTMENT" => to \in Shelf!Statuses,
         at = "assign" => to \in Agents \cup {None},
         UNCHANGED <<item, moved, contract, disturbed>>
  PROVE  StockTypes'
<1>1. PICK new : new = [pc |-> at, type |-> type, phone |-> i, contract |-> c, to |-> to]
  OBVIOUS
<1>2. moving' = [moving EXCEPT ![h] = new] /\ moving'[h] = new
  BY <1>1 DEF Shelf!Begin, StockShape
<1>3. new.pc = at /\ new.type = type /\ new.to = to
  BY <1>1
<1>4. BringsTyped(h)'
  BY <1>2, <1>3 DEF BringsTyped
<1>5. QED
  BY <1>2, <1>4, BringerTyped DEF StockTypes, Shelf!TypeOK

LEMMA EndsTyped ==
  ASSUME StockTypes, StockShape, NEW h \in Handlers, Shelf!Ends(h),
         item' \in [Phones -> [status : Shelf!Statuses, branch : Branches, agent : Agents \cup {None}]],
         \A i \in Phones : moved'[i].type \in Shelf!Movements \cup {"RECEIPT"} /\ moved'[i].branch \in Branches,
         \A c \in Contracts : /\ contract'[c].is \in {"none", "waiting", "active", "cancelled"}
                              /\ contract'[c].phone \in Phones <=> contract'[c].is # "none",
         disturbed' \subseteq Phones
  PROVE  StockTypes'
<1>1. moving' = [moving EXCEPT ![h] = Shelf!Idle] /\ moving'[h] = Shelf!Idle /\ Shelf!Idle.pc = "idle"
  BY DEF Shelf!Ends, Shelf!Idle, StockShape
<1>2. BringsTyped(h)'
  BY <1>1 DEF BringsTyped
<1>3. QED
  BY <1>1, <1>2, BringerTyped

LEMMA SaleTyped ==
  ASSUME StockTypes, StockShape, NEW h \in Handlers, NEW c \in Contracts,
         \/ \E i \in Phones, seller \in Agents \cup {None} : Shelf!Sell(h, c, i, seller)
         \/ Shelf!PayDeposit(h, c)
         \/ Shelf!Cancel(h, c)
  PROVE  StockTypes'
<1>1. "RESERVE" \in Shelf!Movements /\ "ISSUE" \in Shelf!Movements /\ "RETURN" \in Shelf!Movements
  BY DEF Shelf!Movements
<1>2. CASE \E i \in Phones, seller \in Agents \cup {None} : Shelf!Sell(h, c, i, seller)
  BY <1>1, <1>2, BeginTyped DEF Shelf!Sell
<1>3. CASE Shelf!PayDeposit(h, c)
  BY <1>1, <1>3, BeginTyped DEF Shelf!PayDeposit
<1>4. CASE Shelf!Cancel(h, c)
  <2>1. CASE item[contract[c].phone].status = "RESERVED"
    BY <1>1, <1>4, <2>1, BeginTyped DEF Shelf!Cancel
  <2>2. CASE item[contract[c].phone].status # "RESERVED"
    <3>1. /\ contract' = [contract EXCEPT ![c].is = "cancelled"] /\ contract[c].is \in {"waiting", "active"}
          /\ UNCHANGED <<item, moved, moving, disturbed>>
      BY <1>4, <2>2 DEF Shelf!Cancel
    <3>2. contract'[c].is = "cancelled" /\ contract'[c].phone = contract[c].phone
          /\ \A d \in Contracts \ {c} : contract'[d] = contract[d]
      BY <3>1 DEF StockShape, SaleFields
    <3>3. \A d \in Contracts : /\ contract'[d].is \in {"none", "waiting", "active", "cancelled"}
                               /\ contract'[d].phone \in Phones <=> contract'[d].is # "none"
      BY <3>1, <3>2 DEF StockTypes, Shelf!TypeOK
    <3>4. QED
      BY <3>1, <3>3 DEF StockTypes, Shelf!TypeOK, BringsTyped
  <2>3. QED
    BY <2>1, <2>2
<1>5. QED
  BY <1>2, <1>3, <1>4

LEMMA ByHandTyped ==
  ASSUME StockTypes, StockShape, NEW h \in Handlers, NEW i \in Phones,
         \/ \E b \in Branches : Shelf!Transfer(h, i, b)
         \/ \E s \in Shelf!Statuses : Shelf!Adjust(h, i, s)
         \/ \E a \in Agents \cup {None} : Shelf!Assign(h, i, a)
  PROVE  StockTypes'
<1>1. "TRANSFER" \in Shelf!Movements /\ "ADJUSTMENT" \in Shelf!Movements
  BY DEF Shelf!Movements
<1>2. ASSUME NEW b \in Branches, Shelf!Transfer(h, i, b)
      PROVE  StockTypes'
  BY <1>1, <1>2, BeginTyped DEF Shelf!Transfer
<1>3. ASSUME NEW s \in Shelf!Statuses, Shelf!Adjust(h, i, s)
      PROVE  StockTypes'
  BY <1>1, <1>3, BeginTyped DEF Shelf!Adjust
<1>4. ASSUME NEW a \in Agents \cup {None}, Shelf!Assign(h, i, a)
      PROVE  StockTypes'
  BY <1>4, BeginTyped DEF Shelf!Assign
<1>5. QED
  BY <1>2, <1>3, <1>4

LEMMA CheckTransitionTyped ==
  ASSUME StockTypes, StockShape, NEW h \in Handlers, Shelf!CheckTransition(h)
  PROVE  StockTypes'
<1>1. moving[h].pc = "check" /\ UNCHANGED <<item, moved, contract, disturbed>>
  BY DEF Shelf!CheckTransition
<1>2. CASE Shelf!Ends(h)
  BY <1>1, <1>2, EndsTyped DEF StockTypes, Shelf!TypeOK
<1>3. CASE moving' = [moving EXCEPT ![h].pc = "update"]
  <2>1. PICK new : new = [moving[h] EXCEPT !.pc = "update"]
    OBVIOUS
  <2>2. moving' = [moving EXCEPT ![h] = new] /\ moving'[h] = new
    BY <1>3, <2>1 DEF StockShape
  <2>3. new.pc = "update" /\ new.type = moving[h].type /\ new.to = moving[h].to
    BY <2>1 DEF StockShape, MovingFields
  <2>4. BringsTyped(h)'
    BY <1>1, <2>2, <2>3 DEF StockTypes, BringsTyped
  <2>5. QED
    BY <1>1, <2>2, <2>4, BringerTyped DEF StockTypes, Shelf!TypeOK
<1>4. QED
  BY <1>2, <1>3 DEF Shelf!CheckTransition

\* A phone that is moved is somewhere still.
LEMMA MovedTyped ==
  ASSUME NEW row \in [status : Shelf!Statuses, branch : Branches, agent : Agents \cup {None}],
         NEW type \in Shelf!Movements, NEW to,
         type = "TRANSFER" => to \in Branches, type = "ADJUSTMENT" => to \in Shelf!Statuses
  PROVE  Shelf!Moved(row, type, to) \in [status : Shelf!Statuses, branch : Branches, agent : Agents \cup {None}]
<1>1. CASE type = "TRANSFER"
  BY <1>1 DEF Shelf!Moved, Shelf!Statuses
<1>2. CASE type = "ADJUSTMENT"
  BY <1>2 DEF Shelf!Moved
<1>3. CASE type \in {"RESERVE", "ISSUE", "RETURN"}
  <2>1. Shelf!To(type) \in Shelf!Statuses
    BY <1>3, Transitions DEF Shelf!Statuses
  <2>2. Shelf!Moved(row, type, to) = [row EXCEPT !.status = Shelf!To(type)]
    BY <1>3 DEF Shelf!Moved
  <2>3. QED
    BY <2>1, <2>2
<1>4. QED
  BY <1>1, <1>2, <1>3 DEF Shelf!Movements

LEMMA ConcludedTyped ==
  ASSUME StockTypes, StockShape, NEW h \in Handlers, TakesTurns(h), moving[h].contract # None,
         moving[h].phone \in Phones, NEW new, new = Shelf!Concluded(moving[h])
  PROVE  new.is \in {"waiting", "active", "cancelled"} /\ new.phone \in Phones
<1>1. PICK c : c = moving[h].contract
  OBVIOUS
<1>2. c \in Contracts /\ contract[c] = [f \in SaleFields |-> contract[c][f]]
  BY <1>1 DEF TakesTurns, StockShape
<1>3. CASE moving[h].type = "RESERVE"
  BY <1>3 DEF Shelf!Concluded
<1>4. CASE moving[h].type = "ISSUE"
  <2>1. new = [contract[c] EXCEPT !.is = "active"]
    BY <1>1, <1>4 DEF Shelf!Concluded
  <2>2. new.is = "active" /\ new.phone = contract[c].phone
    BY <1>2, <2>1 DEF SaleFields
  <2>3. contract[c].phone = moving[h].phone
    BY <1>1, <1>4 DEF TakesTurns
  <2>4. QED
    BY <2>2, <2>3
<1>5. CASE moving[h].type = "RETURN"
  <2>1. new = [contract[c] EXCEPT !.is = "cancelled"]
    BY <1>1, <1>5 DEF Shelf!Concluded
  <2>2. new.is = "cancelled" /\ new.phone = contract[c].phone
    BY <1>2, <2>1 DEF SaleFields
  <2>3. contract[c].phone = moving[h].phone
    BY <1>1, <1>5 DEF TakesTurns
  <2>4. QED
    BY <2>2, <2>3
<1>6. QED
  BY <1>3, <1>4, <1>5 DEF TakesTurns

LEMMA UpdateItemTyped ==
  ASSUME StockTypes, StockShape, NEW h \in Handlers, TakesTurns(h), Shelf!UpdateItem(h)
  PROVE  StockTypes'
<1> DEFINE Item == [status : Shelf!Statuses, branch : Branches, agent : Agents \cup {None}]
<1>1. PICK i, c, type, to : i = moving[h].phone /\ c = moving[h].contract /\ type = moving[h].type /\ to = moving[h].to
  OBVIOUS
<1>2. moving[h].pc = "update" /\ i \in Phones
  BY <1>1 DEF Shelf!UpdateItem, StockShape
<1>3. type \in Shelf!Movements /\ (type = "TRANSFER" => to \in Branches) /\ (type = "ADJUSTMENT" => to \in Shelf!Statuses)
  BY <1>1, <1>2 DEF StockTypes, BringsTyped
<1>4. item \in [Phones -> Item]
  BY DEF StockTypes, Shelf!TypeOK
<1>5. Shelf!Moved(item[i], type, to) \in Item
  BY <1>2, <1>3, <1>4, MovedTyped
<1>6. item' = [item EXCEPT ![i] = Shelf!Moved(item[i], type, to)]
  BY <1>1 DEF Shelf!UpdateItem
<1>7. item' \in [Phones -> Item] /\ item'[i].branch \in Branches
  BY <1>2, <1>4, <1>5, <1>6
<1>8. disturbed' \subseteq Phones
  BY <1>1, <1>2 DEF StockTypes, Shelf!TypeOK, Shelf!UpdateItem, Shelf!Disturb
<1>9. CASE c = None
  <2>1. moving' = [moving EXCEPT ![h].pc = "record", ![h].to = item'[i].branch] /\ UNCHANGED <<moved, contract>>
    BY <1>1, <1>9 DEF Shelf!UpdateItem
  <2>2. PICK new : new = [moving[h] EXCEPT !.pc = "record", !.to = item'[i].branch]
    OBVIOUS
  <2>3. moving' = [moving EXCEPT ![h] = new] /\ moving'[h] = new
    BY <2>1, <2>2 DEF StockShape
  <2>4. new.pc = "record" /\ new.type = type /\ new.to = item'[i].branch
    BY <1>1, <2>2 DEF StockShape, MovingFields
  <2>5. BringsTyped(h)'
    BY <1>3, <1>7, <2>3, <2>4 DEF BringsTyped
  <2>6. QED
    BY <1>7, <1>8, <2>1, <2>3, <2>5, BringerTyped DEF StockTypes, Shelf!TypeOK
<1>10. CASE c # None
  <2>1. /\ moved' = [moved EXCEPT ![i] = [type |-> type, branch |-> item[i].branch]]
        /\ contract' = [contract EXCEPT ![c] = Shelf!Concluded(moving[h])]
        /\ Shelf!Ends(h)
    BY <1>1, <1>10 DEF Shelf!UpdateItem
  <2>2. \A j \in Phones : moved'[j].type \in Shelf!Movements \cup {"RECEIPT"} /\ moved'[j].branch \in Branches
    <3>1. item[i].branch \in Branches
      BY <1>2, <1>4
    <3>2. moved'[i] = [type |-> type, branch |-> item[i].branch] /\ \A j \in Phones \ {i} : moved'[j] = moved[j]
      BY <1>2, <2>1 DEF StockShape
    <3>3. QED
      BY <1>3, <3>1, <3>2 DEF StockTypes, Shelf!TypeOK
  <2>3. \A d \in Contracts : /\ contract'[d].is \in {"none", "waiting", "active", "cancelled"}
                             /\ contract'[d].phone \in Phones <=> contract'[d].is # "none"
    <3>1. PICK new : new = Shelf!Concluded(moving[h])
      OBVIOUS
    <3>2. new.is \in {"waiting", "active", "cancelled"} /\ new.phone \in Phones
      BY <1>1, <1>2, <1>10, <3>1, ConcludedTyped
    <3>3. c \in Contracts
      BY <1>1, <1>10 DEF TakesTurns
    <3>4. contract'[c] = new /\ \A d \in Contracts \ {c} : contract'[d] = contract[d]
      BY <2>1, <3>1, <3>3 DEF StockShape
    <3>5. QED
      BY <3>2, <3>4 DEF StockTypes, Shelf!TypeOK
  <2>4. QED
    BY <1>7, <1>8, <2>1, <2>2, <2>3, EndsTyped
<1>11. QED
  BY <1>9, <1>10

LEMMA FollowsTyped ==
  ASSUME StockTypes, StockShape, NEW h \in Handlers,
         Shelf!RecordMovement(h) \/ Shelf!UpdateAssignment(h) \/ Shelf!Die(h)
  PROVE  StockTypes'
<1>1. PICK i : i = moving[h].phone
  OBVIOUS
<1>2. i \in Phones /\ Shelf!Ends(h) /\ UNCHANGED contract
  BY <1>1 DEF StockShape, Shelf!RecordMovement, Shelf!UpdateAssignment, Shelf!Die
<1>3. disturbed' \subseteq Phones
  BY <1>1, <1>2 DEF StockTypes, Shelf!TypeOK, Shelf!RecordMovement, Shelf!UpdateAssignment, Shelf!Die, Shelf!Disturb
<1>4. CASE Shelf!RecordMovement(h)
  <2>1. moved' = [moved EXCEPT ![i] = [type |-> moving[h].type, branch |-> moving[h].to]] /\ UNCHANGED item
        /\ moving[h].pc = "record"
    BY <1>1, <1>4 DEF Shelf!RecordMovement
  <2>2. moving[h].type \in Shelf!Movements /\ moving[h].to \in Branches
    BY <2>1 DEF StockTypes, BringsTyped
  <2>3. moved'[i] = [type |-> moving[h].type, branch |-> moving[h].to] /\ \A j \in Phones \ {i} : moved'[j] = moved[j]
    BY <1>2, <2>1 DEF StockShape
  <2>4. \A j \in Phones : moved'[j].type \in Shelf!Movements \cup {"RECEIPT"} /\ moved'[j].branch \in Branches
    BY <2>2, <2>3 DEF StockTypes, Shelf!TypeOK
  <2>5. QED
    BY <1>2, <1>3, <2>1, <2>4, EndsTyped DEF StockTypes, Shelf!TypeOK
<1>5. CASE Shelf!UpdateAssignment(h)
  <2>1. item' = [item EXCEPT ![i].agent = moving[h].to] /\ UNCHANGED moved /\ moving[h].pc = "assign"
    BY <1>1, <1>5 DEF Shelf!UpdateAssignment
  <2>2. moving[h].to \in Agents \cup {None}
    BY <2>1 DEF StockTypes, BringsTyped
  <2>3. item' \in [Phones -> [status : Shelf!Statuses, branch : Branches, agent : Agents \cup {None}]]
    BY <1>2, <2>1, <2>2 DEF StockTypes, Shelf!TypeOK
  <2>4. QED
    BY <1>2, <1>3, <2>1, <2>3, EndsTyped DEF StockTypes, Shelf!TypeOK
<1>6. CASE Shelf!Die(h)
  BY <1>2, <1>3, <1>6, EndsTyped DEF StockTypes, Shelf!TypeOK, Shelf!Die
<1>7. QED
  BY <1>4, <1>5, <1>6

LEMMA StockTypesNext == StockTypes /\ StockInv /\ [Shelf!Next]_stockVars => StockTypes'
<1> SUFFICES ASSUME StockTypes, StockInv, [Shelf!Next]_stockVars
             PROVE  StockTypes'
  OBVIOUS
<1>1. StockShape /\ \A h \in Handlers : TakesTurns(h)
  BY DEF StockInv
<1>2. CASE UNCHANGED stockVars
  BY <1>2 DEF stockVars, StockTypes, Shelf!TypeOK, BringsTyped
<1>3. ASSUME NEW h \in Handlers, Shelf!CheckTransition(h) \/ Shelf!UpdateItem(h)
      PROVE  StockTypes'
  BY <1>1, <1>3, CheckTransitionTyped, UpdateItemTyped
<1>4. ASSUME NEW h \in Handlers, Shelf!RecordMovement(h) \/ Shelf!UpdateAssignment(h) \/ Shelf!Die(h)
      PROVE  StockTypes'
  BY <1>1, <1>4, FollowsTyped
<1>5. QED
  BY <1>1, <1>2, <1>3, <1>4, SaleTyped, ByHandTyped DEF Shelf!Next

-----------------------------------------------------------------------------
(* Second approval.  The claim is what it rests on: of all the calls that decide a request  *)
(* one finds it pending, so one call at most carries it out or puts it back, and while it   *)
(* does nothing else writes the row.                                                        *)

\* Rows and calls have their fields, and a call under way is about a request.
ApprovalShape ==
    /\ request = [q \in ApprovalRequests |-> request[q]]
    /\ call = [h \in Handlers |-> call[h]]
    /\ \A q \in ApprovalRequests :
          request[q] = [is |-> request[q].is, asked |-> request[q].asked, decided |-> request[q].decided]
    /\ \A h \in Handlers :
          /\ call[h] = [at |-> call[h].at, on |-> call[h].on, by |-> call[h].by,
                        decision |-> call[h].decision]
          /\ call[h].at # "idle" => call[h].on \in ApprovalRequests

\* Until a request is filed only the call that files it is about it.
FilesAlone ==
    \A h \in Handlers :
        call[h].at = "create" =>
            /\ request[call[h].on].is = "none"
            /\ \A g \in Handlers \ {h} : call[g].at # "idle" => call[g].on # call[h].on

\* Whoever is about to approve a request is not who asked for it.
DecidesForAnother ==
    \A h \in Handlers :
        call[h].at = "claim" =>
            /\ request[call[h].on].is # "none"
            /\ call[h].decision \in {"APPROVED", "REJECTED"}
            /\ call[h].decision = "APPROVED" => request[call[h].on].asked # call[h].by

Deciding == {"carry out", "put back"}

\* One call at most has an approved request in hand, and it is not done yet.
CarriesOutAlone ==
    \A h \in Handlers :
        call[h].at \in Deciding =>
            /\ request[call[h].on].is = "APPROVED"
            /\ request[call[h].on].asked # request[call[h].on].decided
            /\ call[h].on \notin doneFor
            /\ \A g \in Handlers \ {h} : call[g].at \in Deciding => call[g].on # call[h].on

ApprovalInv ==
    /\ ApprovalShape /\ FilesAlone /\ DecidesForAnother /\ CarriesOutAlone
    /\ Approval!ApprovedIsCarriedOut

-----------------------------------------------------------------------------
LEMMA ApprovalInit == Approval!Init => ApprovalInv
<1> SUFFICES ASSUME Approval!Init
             PROVE  ApprovalInv
  OBVIOUS
<1>1. ApprovalShape
  BY DEF Approval!Init, Approval!Idle, ApprovalShape
<1>2. (\A h \in Handlers : call[h].at = "idle") /\ (\A q \in ApprovalRequests : request[q].is = "none")
      /\ doneFor = {}
  BY DEF Approval!Init, Approval!Idle
<1>3. QED
  BY <1>1, <1>2 DEF ApprovalInv, FilesAlone, DecidesForAnother, CarriesOutAlone, Deciding,
                    Approval!ApprovedIsCarriedOut

\* A call that moves; no other does.
LEMMA DeciderMoves ==
  ASSUME ApprovalShape, NEW h \in Handlers, NEW now, call' = [call EXCEPT ![h] = now],
         now = [at |-> now.at, on |-> now.on, by |-> now.by, decision |-> now.decision],
         now.at # "idle" => now.on \in ApprovalRequests
  PROVE  /\ call' = [g \in Handlers |-> call'[g]]
         /\ call'[h] = now
         /\ \A g \in Handlers \ {h} : call'[g] = call[g]
         /\ \A g \in Handlers :
               /\ call'[g] = [at |-> call'[g].at, on |-> call'[g].on, by |-> call'[g].by,
                              decision |-> call'[g].decision]
               /\ call'[g].at # "idle" => call'[g].on \in ApprovalRequests
<1>1. call' = [g \in Handlers |-> call'[g]] /\ call'[h] = now
      /\ \A g \in Handlers \ {h} : call'[g] = call[g]
  BY DEF ApprovalShape
<1>2. QED
  BY <1>1 DEF ApprovalShape

\* A call that ends, or goes on about the same request.
LEMMA DeciderEnds ==
  ASSUME ApprovalShape, NEW h \in Handlers, Approval!Done(h)
  PROVE  /\ call' = [g \in Handlers |-> call'[g]]
         /\ call'[h].at = "idle"
         /\ \A g \in Handlers \ {h} : call'[g] = call[g]
         /\ \A g \in Handlers :
               /\ call'[g] = [at |-> call'[g].at, on |-> call'[g].on, by |-> call'[g].by,
                              decision |-> call'[g].decision]
               /\ call'[g].at # "idle" => call'[g].on \in ApprovalRequests
  BY DeciderMoves DEF Approval!Done, Approval!Idle

LEMMA DeciderGoesOn ==
  ASSUME ApprovalShape, NEW h \in Handlers, NEW at, call[h].at # "idle", Approval!Goes(h, at)
  PROVE  /\ call' = [g \in Handlers |-> call'[g]]
         /\ call'[h].at = at /\ call'[h].on = call[h].on
         /\ \A g \in Handlers \ {h} : call'[g] = call[g]
         /\ \A g \in Handlers :
               /\ call'[g] = [at |-> call'[g].at, on |-> call'[g].on, by |-> call'[g].by,
                              decision |-> call'[g].decision]
               /\ call'[g].at # "idle" => call'[g].on \in ApprovalRequests
<1>1. call' = [call EXCEPT ![h] = [call[h] EXCEPT !.at = at]]
  BY DEF Approval!Goes
<1>2. [call[h] EXCEPT !.at = at] = [at |-> at, on |-> call[h].on, by |-> call[h].by,
                                    decision |-> call[h].decision]
  BY DEF ApprovalShape
<1>3. QED
  BY <1>1, <1>2, DeciderMoves DEF ApprovalShape

\* A row with a new status and a new decider is otherwise what it was.
LEMMA RowDecided ==
  ASSUME NEW row, row = [is |-> row.is, asked |-> row.asked, decided |-> row.decided], NEW is, NEW by
  PROVE  [row EXCEPT !.is = is, !.decided = by] = [is |-> is, asked |-> row.asked, decided |-> by]
<1>1. PICK mid : mid = [row EXCEPT !.is = is]
  OBVIOUS
<1>2. mid = [is |-> is, asked |-> row.asked, decided |-> row.decided]
  BY <1>1
<1>3. mid = [is |-> mid.is, asked |-> mid.asked, decided |-> mid.decided]
      /\ mid.is = is /\ mid.asked = row.asked
  BY <1>2
<1>4. [mid EXCEPT !.decided = by] = [is |-> mid.is, asked |-> mid.asked, decided |-> by]
  BY <1>3
<1>5. [row EXCEPT !.is = is, !.decided = by] = [mid EXCEPT !.decided = by]
  BY <1>1
<1>6. QED
  BY <1>3, <1>4, <1>5

\* A row that is written keeps its fields; no other row is.
LEMMA RowWritten ==
  ASSUME ApprovalShape, NEW q \in ApprovalRequests, NEW is, NEW asked, NEW decided,
         request' = [request EXCEPT ![q] = [is |-> is, asked |-> asked, decided |-> decided]]
  PROVE  /\ request' = [r \in ApprovalRequests |-> request'[r]]
         /\ request'[q].is = is /\ request'[q].asked = asked /\ request'[q].decided = decided
         /\ \A r \in ApprovalRequests \ {q} : request'[r] = request[r]
         /\ \A r \in ApprovalRequests :
               request'[r] = [is |-> request'[r].is, asked |-> request'[r].asked,
                              decided |-> request'[r].decided]
<1>1. request' = [r \in ApprovalRequests |-> request'[r]]
      /\ request'[q] = [is |-> is, asked |-> asked, decided |-> decided]
      /\ \A r \in ApprovalRequests \ {q} : request'[r] = request[r]
  BY DEF ApprovalShape
<1>2. QED
  BY <1>1 DEF ApprovalShape

-----------------------------------------------------------------------------
(* What a step may do without disturbing each part of the invariant. *)

LEMMA FilesKept ==
  ASSUME FilesAlone,
         \A g \in Handlers : call'[g].at # "idle" => call[g].at # "idle" /\ call'[g].on = call[g].on,
         \A g \in Handlers : call'[g].at = "create" =>
            call[g].at = "create" /\ request'[call[g].on].is = request[call[g].on].is
  PROVE  FilesAlone'
  BY DEF FilesAlone

LEMMA DecidesKept ==
  ASSUME DecidesForAnother,
         \A g \in Handlers : call'[g].at = "claim" =>
            /\ call'[g] = call[g]
            /\ request'[call[g].on].is # "none"
            /\ request'[call[g].on].asked = request[call[g].on].asked
  PROVE  DecidesForAnother'
  BY DEF DecidesForAnother

LEMMA CarriesOutKept ==
  ASSUME CarriesOutAlone,
         \A g \in Handlers : call'[g].at \in Deciding =>
            /\ call[g].at \in Deciding /\ call'[g].on = call[g].on
            /\ request'[call[g].on] = request[call[g].on]
            /\ call[g].on \notin doneFor'
  PROVE  CarriesOutAlone'
  BY DEF CarriesOutAlone

LEMMA ApprovedKept ==
  ASSUME Approval!ApprovedIsCarriedOut,
         doneFor \subseteq doneFor', lost \subseteq lost',
         \A r \in ApprovalRequests :
            \/ request'[r] = request[r]
            \/ r \notin doneFor' /\ request'[r].is # "APPROVED",
         \A r \in doneFor' \ doneFor :
            request'[r].is = "APPROVED" /\ request'[r].asked # request'[r].decided,
         \A g \in Handlers : call[g].at \in Deciding =>
            \/ call[g].on \in doneFor' \cup lost'
            \/ call'[g].at \in Deciding /\ call'[g].on = call[g].on
            \/ request'[call[g].on].is # "APPROVED"
  PROVE  Approval!ApprovedIsCarriedOut'
<1> SUFFICES ASSUME NEW r \in ApprovalRequests
             PROVE  /\ r \in doneFor' => request'[r].is = "APPROVED" /\ request'[r].asked # request'[r].decided
                    /\ request'[r].is = "APPROVED" =>
                          \/ r \in doneFor' \cup lost'
                          \/ \E h \in Handlers : call'[h].on = r /\ call'[h].at \in Deciding
  BY DEF Approval!ApprovedIsCarriedOut, Deciding
<1>1. r \in doneFor => request[r].is = "APPROVED" /\ request[r].asked # request[r].decided
  BY DEF Approval!ApprovedIsCarriedOut
<1>2. request[r].is = "APPROVED" =>
         r \in doneFor \cup lost \/ \E h \in Handlers : call[h].on = r /\ call[h].at \in Deciding
  BY DEF Approval!ApprovedIsCarriedOut, Deciding
<1>3. r \in doneFor' => request'[r].is = "APPROVED" /\ request'[r].asked # request'[r].decided
  BY <1>1
<1>4. request'[r].is = "APPROVED" =>
         r \in doneFor' \cup lost' \/ \E h \in Handlers : call'[h].on = r /\ call'[h].at \in Deciding
  BY <1>2
<1>5. QED
  BY <1>3, <1>4

-----------------------------------------------------------------------------
(* Every action preserves the invariant. *)

LEMMA FindWaitingInv ==
  ASSUME ApprovalInv, NEW h \in Handlers, NEW q \in ApprovalRequests, NEW p \in People,
         Approval!FindWaiting(h, q, p)
  PROVE  ApprovalInv'
<1> DEFINE now == [at |-> "create", on |-> q, by |-> p, decision |-> "none"]
<1>1. call' = [call EXCEPT ![h] = now] /\ UNCHANGED <<request, doneFor, lost>>
      /\ call[h].at = "idle" /\ request[q].is = "none" /\ \A g \in Handlers : call[g].on # q
  BY DEF Approval!FindWaiting
<1>2. /\ call' = [g \in Handlers |-> call'[g]]
      /\ call'[h] = now
      /\ \A g \in Handlers \ {h} : call'[g] = call[g]
      /\ ApprovalShape'
  BY <1>1, DeciderMoves DEF ApprovalInv, ApprovalShape
<1>3. FilesAlone'
  BY <1>1, <1>2 DEF ApprovalInv, FilesAlone
<1>4. DecidesForAnother'
  <2>1. \A g \in Handlers : call[g].at = "claim" => request[call[g].on].is # "none"
    BY DEF ApprovalInv, DecidesForAnother
  <2>2. \A g \in Handlers : call'[g].at = "claim" => call'[g] = call[g]
    BY <1>2
  <2>3. request' = request
    BY <1>1
  <2>4. QED
    BY <2>1, <2>2, <2>3, DecidesKept DEF ApprovalInv
<1>5. \A g \in Handlers : call'[g].at \in Deciding => call'[g] = call[g]
  <2>1. call'[h].at = "create"
    BY <1>2
  <2>2. QED
    BY <1>2, <2>1 DEF Deciding
<1>6. \A g \in Handlers : call[g].at \in Deciding => call'[g] = call[g]
  BY <1>1, <1>2 DEF Deciding
<1>7. CarriesOutAlone'
  BY <1>1, <1>5, CarriesOutKept DEF ApprovalInv, CarriesOutAlone
<1>8. Approval!ApprovedIsCarriedOut'
  BY <1>1, <1>6, ApprovedKept DEF ApprovalInv
<1>9. QED
  BY <1>2, <1>3, <1>4, <1>7, <1>8 DEF ApprovalInv

LEMMA ReadRequestInv ==
  ASSUME ApprovalInv, NEW h \in Handlers, NEW q \in ApprovalRequests, NEW p \in People,
         NEW decision \in {"APPROVED", "REJECTED"}, Approval!ReadRequest(h, q, p, decision)
  PROVE  ApprovalInv'
<1> DEFINE now == [at |-> "claim", on |-> q, by |-> p, decision |-> decision]
<1>1. call' = [call EXCEPT ![h] = now] /\ UNCHANGED <<request, doneFor, lost>>
      /\ call[h].at = "idle" /\ request[q].is # "none"
      /\ (decision = "APPROVED" => request[q].asked # p)
  BY DEF Approval!ReadRequest
<1>2. /\ call' = [g \in Handlers |-> call'[g]]
      /\ call'[h] = now
      /\ \A g \in Handlers \ {h} : call'[g] = call[g]
      /\ ApprovalShape'
  BY <1>1, DeciderMoves DEF ApprovalInv, ApprovalShape
<1>3. FilesAlone'
  <2>1. call'[h].at = "claim" /\ call'[h].on = q
    BY <1>2
  <2>2. \A g \in Handlers : call[g].at = "create" => call[g].on # q
    BY <1>1 DEF ApprovalInv, FilesAlone
  <2>3. \A g \in Handlers : call'[g].at = "create" => g # h /\ call'[g] = call[g] /\ call[g].on # q
    BY <1>2, <2>1, <2>2
  <2>4. QED
    BY <1>1, <1>2, <2>1, <2>3 DEF ApprovalInv, FilesAlone
<1>4. DecidesForAnother'
  <2>1. call'[h].on = q /\ call'[h].by = p /\ call'[h].decision = decision
    BY <1>2
  <2>2. request' = request /\ request[q].is # "none" /\ (decision = "APPROVED" => request[q].asked # p)
    BY <1>1
  <2>3. \A g \in Handlers \ {h} : call'[g].at = "claim" => call'[g] = call[g]
    BY <1>2
  <2>4. QED
    BY <2>1, <2>2, <2>3 DEF ApprovalInv, DecidesForAnother
<1>5. \A g \in Handlers : call'[g].at \in Deciding => call'[g] = call[g]
  <2>1. call'[h].at = "claim"
    BY <1>2
  <2>2. QED
    BY <1>2, <2>1 DEF Deciding
<1>6. \A g \in Handlers : call[g].at \in Deciding => call'[g] = call[g]
  BY <1>1, <1>2 DEF Deciding
<1>7. CarriesOutAlone'
  BY <1>1, <1>5, CarriesOutKept DEF ApprovalInv, CarriesOutAlone
<1>8. Approval!ApprovedIsCarriedOut'
  BY <1>1, <1>6, ApprovedKept DEF ApprovalInv
<1>9. QED
  BY <1>2, <1>3, <1>4, <1>7, <1>8 DEF ApprovalInv

LEMMA CreateRequestInv ==
  ASSUME ApprovalInv, NEW h \in Handlers, Approval!CreateRequest(h)
  PROVE  ApprovalInv'
<1>1. PICK q \in ApprovalRequests : q = call[h].on
  BY DEF ApprovalInv, ApprovalShape, Approval!CreateRequest
<1>2. /\ request' = [request EXCEPT ![q] = [is |-> "PENDING", asked |-> call[h].by, decided |-> None]]
      /\ call[h].at = "create" /\ Approval!Done(h)
  BY <1>1 DEF Approval!CreateRequest
<1>3. doneFor' = doneFor /\ lost' = lost
  BY DEF Approval!CreateRequest
<1>4. /\ call'[h].at = "idle"
      /\ \A g \in Handlers \ {h} : call'[g] = call[g]
      /\ request'[q].is = "PENDING"
      /\ \A r \in ApprovalRequests \ {q} : request'[r] = request[r]
      /\ ApprovalShape'
  BY <1>2, DeciderEnds, RowWritten DEF ApprovalInv, ApprovalShape
<1>5. request[q].is = "none" /\ \A g \in Handlers \ {h} : call[g].at # "idle" => call[g].on # q
  BY <1>1, <1>2 DEF ApprovalInv, FilesAlone
<1>6. \A g \in Handlers : call[g].at # "idle" => call[g].on \in ApprovalRequests
  BY DEF ApprovalInv, ApprovalShape
<1>7. \A g \in Handlers :
         call'[g].at # "idle" => call'[g] = call[g] /\ request'[call[g].on] = request[call[g].on]
  BY <1>4, <1>5, <1>6
<1>8. FilesAlone'
  BY <1>7, FilesKept DEF ApprovalInv
<1>9. DecidesForAnother'
  <2>1. \A g \in Handlers : call[g].at = "claim" => request[call[g].on].is # "none"
    BY DEF ApprovalInv, DecidesForAnother
  <2>2. QED
    BY <1>7, <2>1, DecidesKept DEF ApprovalInv
<1>10. \A g \in Handlers : call'[g].at \in Deciding => call'[g].at # "idle"
  BY DEF Deciding
<1>11. CarriesOutAlone'
  BY <1>3, <1>7, <1>10, CarriesOutKept DEF ApprovalInv, CarriesOutAlone
<1>12. q \notin doneFor
  BY <1>5 DEF ApprovalInv, Approval!ApprovedIsCarriedOut
<1>13. \A g \in Handlers : call[g].at \in Deciding => call'[g] = call[g]
  BY <1>2, <1>4 DEF Deciding
<1>14. Approval!ApprovedIsCarriedOut'
  BY <1>3, <1>4, <1>12, <1>13, ApprovedKept DEF ApprovalInv
<1>15. QED
  BY <1>4, <1>8, <1>9, <1>11, <1>14 DEF ApprovalInv

\* A call that ends, and that had no approved request in hand or is among the lost.
LEMMA EndsInv ==
  ASSUME ApprovalInv, NEW h \in Handlers, Approval!Done(h), UNCHANGED <<request, doneFor>>,
         lost \subseteq lost', call[h].at \in Deciding => call[h].on \in lost'
  PROVE  ApprovalInv'
<1>1. call'[h].at = "idle" /\ (\A g \in Handlers \ {h} : call'[g] = call[g]) /\ ApprovalShape'
  BY DeciderEnds DEF ApprovalInv, ApprovalShape
<1>2. \A g \in Handlers : call'[g].at # "idle" => call'[g] = call[g]
  BY <1>1
<1>3. FilesAlone'
  BY <1>2, FilesKept DEF ApprovalInv
<1>4. DecidesForAnother'
  BY <1>2, DecidesKept DEF ApprovalInv, DecidesForAnother
<1>5. \A g \in Handlers : call'[g].at \in Deciding => call'[g] = call[g]
  BY <1>2 DEF Deciding
<1>6. CarriesOutAlone'
  BY <1>5, CarriesOutKept DEF ApprovalInv, CarriesOutAlone
<1>7. Approval!ApprovedIsCarriedOut'
  BY <1>1, ApprovedKept DEF ApprovalInv
<1>8. QED
  BY <1>1, <1>3, <1>4, <1>6, <1>7 DEF ApprovalInv

\* A pending request is in nobody's hands; whoever claims it has it alone.
LEMMA ClaimInv ==
  ASSUME ApprovalInv, NEW h \in Handlers, Approval!Claim(h)
  PROVE  ApprovalInv'
<1>1. PICK q \in ApprovalRequests : q = call[h].on
  BY DEF ApprovalInv, ApprovalShape, Approval!Claim
<1>2. call[h].at = "claim" /\ doneFor' = doneFor /\ lost' = lost
  BY DEF Approval!Claim
<1>3. CASE UNCHANGED request /\ Approval!Done(h)
  BY <1>2, <1>3, EndsInv DEF Deciding
<1>4. CASE /\ request[q].is = "PENDING"
           /\ request' = [request EXCEPT ![q].is = call[h].decision, ![q].decided = call[h].by]
           /\ IF call[h].decision = "APPROVED" THEN Approval!Goes(h, "carry out") ELSE Approval!Done(h)
  <2>1. request' = [request EXCEPT ![q] = [is |-> call[h].decision, asked |-> request[q].asked,
                                         decided |-> call[h].by]]
    <3>1. request' = [request EXCEPT ![q] = [request[q] EXCEPT !.is = call[h].decision,
                                                            !.decided = call[h].by]]
      BY <1>4
    <3>2. [request[q] EXCEPT !.is = call[h].decision, !.decided = call[h].by]
             = [is |-> call[h].decision, asked |-> request[q].asked, decided |-> call[h].by]
      <4>1. PICK row : row = request[q]
        OBVIOUS
      <4>2. row = [is |-> row.is, asked |-> row.asked, decided |-> row.decided]
        BY <4>1 DEF ApprovalInv, ApprovalShape
      <4>3. QED
        BY <4>1, <4>2, RowDecided
    <3>3. QED
      BY <3>1, <3>2
  <2>2. /\ request'[q].is = call[h].decision /\ request'[q].decided = call[h].by
        /\ request'[q].asked = request[q].asked
        /\ \A r \in ApprovalRequests \ {q} : request'[r] = request[r]
    BY <2>1, RowWritten DEF ApprovalInv
  <2>3. request' = [r \in ApprovalRequests |-> request'[r]]
        /\ \A r \in ApprovalRequests :
              request'[r] = [is |-> request'[r].is, asked |-> request'[r].asked, decided |-> request'[r].decided]
    BY <2>1, RowWritten DEF ApprovalInv
  <2>4. /\ IF call[h].decision = "APPROVED"
           THEN call'[h].at = "carry out" /\ call'[h].on = q
           ELSE call'[h].at = "idle"
        /\ \A g \in Handlers \ {h} : call'[g] = call[g]
        /\ ApprovalShape'
    <3>1. CASE call[h].decision = "APPROVED"
      <4>1. Approval!Goes(h, "carry out") /\ call[h].at # "idle"
        BY <1>2, <1>4, <3>1
      <4>2. /\ call' = [g \in Handlers |-> call'[g]]
            /\ call'[h].at = "carry out" /\ call'[h].on = call[h].on
            /\ \A g \in Handlers \ {h} : call'[g] = call[g]
            /\ \A g \in Handlers :
                  /\ call'[g] = [at |-> call'[g].at, on |-> call'[g].on, by |-> call'[g].by,
                                 decision |-> call'[g].decision]
                  /\ call'[g].at # "idle" => call'[g].on \in ApprovalRequests
        BY <4>1, DeciderGoesOn DEF ApprovalInv
      <4>3. ApprovalShape'
        BY <2>3, <4>2 DEF ApprovalShape
      <4>4. QED
        BY <1>1, <3>1, <4>2, <4>3
    <3>2. CASE call[h].decision # "APPROVED"
      BY <1>4, <2>3, <3>2, DeciderEnds DEF ApprovalInv, ApprovalShape
    <3>3. QED
      BY <3>1, <3>2
  <2>5. /\ call[h].decision \in {"APPROVED", "REJECTED"}
        /\ call[h].decision = "APPROVED" => request[q].asked # call[h].by
    BY <1>1, <1>2 DEF ApprovalInv, DecidesForAnother
  <2>6. q \notin doneFor
    BY <1>4 DEF ApprovalInv, Approval!ApprovedIsCarriedOut
  <2>7. \A g \in Handlers : call[g].at \in Deciding => call[g].on # q
    BY <1>4 DEF ApprovalInv, CarriesOutAlone
  <2>8. \A g \in Handlers : call[g].at = "create" => call[g].on # q
    BY <1>4 DEF ApprovalInv, FilesAlone
  <2>9. \A g \in Handlers : call[g].at # "idle" => call[g].on \in ApprovalRequests
    BY DEF ApprovalInv, ApprovalShape
  <2>10. FilesAlone'
    <3>1. \A g \in Handlers : call'[g].at # "idle" => call[g].at # "idle" /\ call'[g].on = call[g].on
      BY <1>1, <1>2, <2>4
    <3>2. \A g \in Handlers : call'[g].at = "create" =>
             call[g].at = "create" /\ request'[call[g].on].is = request[call[g].on].is
      BY <2>2, <2>4, <2>8, <2>9
    <3>3. QED
      BY <3>1, <3>2, FilesKept DEF ApprovalInv
  <2>11. DecidesForAnother'
    <3>1. \A g \in Handlers : call'[g].at = "claim" => call'[g] = call[g]
      BY <2>4
    <3>2. \A r \in ApprovalRequests : request[r].is # "none" =>
             request'[r].is # "none" /\ request'[r].asked = request[r].asked
      BY <2>2, <2>5
    <3>3. \A g \in Handlers : call[g].at = "claim" =>
             call[g].on \in ApprovalRequests /\ request[call[g].on].is # "none"
      BY <2>9 DEF ApprovalInv, DecidesForAnother
    <3>4. QED
      BY <3>1, <3>2, <3>3, DecidesKept DEF ApprovalInv
  <2>12. CarriesOutAlone'
    <3>1. \A g \in Handlers \ {h} : call'[g].at \in Deciding =>
             /\ call[g].at \in Deciding /\ call'[g].on = call[g].on /\ call[g].on # q
             /\ request'[call[g].on] = request[call[g].on]
      BY <2>2, <2>4, <2>7, <2>9 DEF Deciding
    <3>2. call'[h].at \in Deciding =>
            /\ call'[h].on = q /\ request'[q].is = "APPROVED"
            /\ request'[q].asked # request'[q].decided
      BY <2>2, <2>4, <2>5 DEF Deciding
    <3>3. QED
      BY <1>2, <2>6, <3>1, <3>2 DEF ApprovalInv, CarriesOutAlone
  <2>13. Approval!ApprovedIsCarriedOut'
    <3>1. CASE call[h].decision = "APPROVED"
      <4>1. call'[h].at \in Deciding /\ call'[h].on = q
        BY <2>4, <3>1 DEF Deciding
      <4>2. \A g \in Handlers : call[g].at \in Deciding => call'[g] = call[g]
        BY <1>2, <2>4 DEF Deciding
      <4>3. ASSUME NEW r \in ApprovalRequests
            PROVE  /\ r \in doneFor => request'[r].is = "APPROVED" /\ request'[r].asked # request'[r].decided
                   /\ request'[r].is = "APPROVED" =>
                         \/ r \in doneFor \cup lost
                         \/ \E g \in Handlers : call'[g].on = r /\ call'[g].at \in Deciding
        <5>1. CASE r = q
          BY <2>6, <4>1, <5>1
        <5>2. CASE r # q
          <6>1. request'[r] = request[r]
            BY <2>2, <5>2
          <6>2. /\ r \in doneFor => request[r].is = "APPROVED" /\ request[r].asked # request[r].decided
                /\ request[r].is = "APPROVED" =>
                      \/ r \in doneFor \cup lost
                      \/ \E g \in Handlers : call[g].on = r /\ call[g].at \in Deciding
            BY DEF ApprovalInv, Approval!ApprovedIsCarriedOut, Deciding
          <6>3. QED
            BY <4>2, <6>1, <6>2
        <5>3. QED
          BY <5>1, <5>2
      <4>4. QED
        BY <1>2, <4>3 DEF Approval!ApprovedIsCarriedOut, Deciding
    <3>2. CASE call[h].decision # "APPROVED"
      <4>1. \A g \in Handlers : call[g].at \in Deciding => call'[g] = call[g]
        BY <1>2, <2>4 DEF Deciding
      <4>2. QED
        BY <1>2, <2>2, <2>6, <3>2, <4>1, ApprovedKept DEF ApprovalInv
    <3>3. QED
      BY <3>1, <3>2
  <2>14. QED
    BY <2>4, <2>10, <2>11, <2>12, <2>13 DEF ApprovalInv
<1>5. QED
  BY <1>1, <1>3, <1>4 DEF Approval!Claim

LEMMA CarryOutInv ==
  ASSUME ApprovalInv, NEW h \in Handlers, Approval!CarryOut(h)
  PROVE  ApprovalInv'
<1>1. PICK q \in ApprovalRequests : q = call[h].on
  BY DEF ApprovalInv, ApprovalShape, Approval!CarryOut
<1>2. call[h].at = "carry out" /\ request' = request /\ lost' = lost
  BY DEF Approval!CarryOut
<1>3. /\ request[q].is = "APPROVED" /\ request[q].asked # request[q].decided
      /\ \A g \in Handlers \ {h} : call[g].at \in Deciding => call[g].on # q
  BY <1>1, <1>2 DEF ApprovalInv, CarriesOutAlone, Deciding
<1>4. CASE doneFor' = doneFor \cup {q} /\ Approval!Done(h)
  <2>1. call'[h].at = "idle" /\ (\A g \in Handlers \ {h} : call'[g] = call[g]) /\ ApprovalShape'
    BY <1>2, <1>4, DeciderEnds DEF ApprovalInv, ApprovalShape
  <2>2. \A g \in Handlers : call'[g].at # "idle" => g # h /\ call'[g] = call[g]
    BY <2>1
  <2>3. FilesAlone'
    BY <1>2, <2>2, FilesKept DEF ApprovalInv
  <2>4. DecidesForAnother'
    BY <1>2, <2>2, DecidesKept DEF ApprovalInv, DecidesForAnother
  <2>5. \A g \in Handlers : call'[g].at \in Deciding => g # h /\ call'[g] = call[g]
    BY <2>2 DEF Deciding
  <2>6. CarriesOutAlone'
    BY <1>2, <1>3, <1>4, <2>5, CarriesOutKept DEF ApprovalInv, CarriesOutAlone
  <2>7. Approval!ApprovedIsCarriedOut'
    BY <1>1, <1>2, <1>3, <1>4, <2>1, ApprovedKept DEF ApprovalInv
  <2>8. QED
    BY <2>1, <2>3, <2>4, <2>6, <2>7 DEF ApprovalInv
<1>5. CASE Approval!Goes(h, "put back") /\ doneFor' = doneFor
  <2>1. /\ call'[h].at = "put back" /\ call'[h].on = call[h].on
        /\ \A g \in Handlers \ {h} : call'[g] = call[g]
        /\ ApprovalShape'
    BY <1>2, <1>5, DeciderGoesOn DEF ApprovalInv, ApprovalShape
  <2>2. FilesAlone'
    BY <1>2, <2>1, FilesKept DEF ApprovalInv
  <2>3. DecidesForAnother'
    BY <1>2, <2>1, DecidesKept DEF ApprovalInv, DecidesForAnother
  <2>4. call[h].at \in Deciding /\ call'[h].at \in Deciding
    BY <1>2, <2>1 DEF Deciding
  <2>5. CarriesOutAlone'
    BY <1>2, <1>5, <2>1, <2>4, CarriesOutKept DEF ApprovalInv, CarriesOutAlone
  <2>6. Approval!ApprovedIsCarriedOut'
    BY <1>2, <1>5, <2>1, <2>4, ApprovedKept DEF ApprovalInv
  <2>7. QED
    BY <2>1, <2>2, <2>3, <2>5, <2>6 DEF ApprovalInv
<1>6. QED
  BY <1>1, <1>4, <1>5 DEF Approval!CarryOut

LEMMA PutBackInv ==
  ASSUME ApprovalInv, NEW h \in Handlers, Approval!PutBack(h)
  PROVE  ApprovalInv'
<1>1. PICK q \in ApprovalRequests : q = call[h].on
  BY DEF ApprovalInv, ApprovalShape, Approval!PutBack
<1>2. call[h].at = "put back" /\ Approval!Done(h) /\ doneFor' = doneFor /\ lost' = lost
  BY DEF Approval!PutBack
<1>3. request' = [request EXCEPT ![q] = [is |-> "PENDING", asked |-> request[q].asked, decided |-> None]]
  <2>1. request' = [request EXCEPT ![q] = [request[q] EXCEPT !.is = "PENDING", !.decided = None]]
    BY <1>1 DEF Approval!PutBack
  <2>2. [request[q] EXCEPT !.is = "PENDING", !.decided = None]
           = [is |-> "PENDING", asked |-> request[q].asked, decided |-> None]
    <3>1. PICK row : row = request[q]
      OBVIOUS
    <3>2. row = [is |-> row.is, asked |-> row.asked, decided |-> row.decided]
      BY <3>1 DEF ApprovalInv, ApprovalShape
    <3>3. QED
      BY <3>1, <3>2, RowDecided
  <2>3. QED
    BY <2>1, <2>2
<1>4. /\ call'[h].at = "idle" /\ (\A g \in Handlers \ {h} : call'[g] = call[g])
      /\ request'[q].is = "PENDING" /\ request'[q].asked = request[q].asked
      /\ \A r \in ApprovalRequests \ {q} : request'[r] = request[r]
      /\ ApprovalShape'
  BY <1>2, <1>3, DeciderEnds, RowWritten DEF ApprovalInv, ApprovalShape
<1>5. /\ q \notin doneFor /\ request[q].is = "APPROVED"
      /\ \A g \in Handlers \ {h} : call[g].at \in Deciding => call[g].on # q
  BY <1>1, <1>2 DEF ApprovalInv, CarriesOutAlone, Deciding
<1>6. \A g \in Handlers : call[g].at # "idle" => call[g].on \in ApprovalRequests
  BY DEF ApprovalInv, ApprovalShape
<1>7. \A g \in Handlers : call'[g].at # "idle" => g # h /\ call'[g] = call[g]
  BY <1>4
<1>8. FilesAlone'
  <2>1. \A g \in Handlers : call[g].at = "create" => call[g].on # q
    BY <1>5 DEF ApprovalInv, FilesAlone
  <2>2. QED
    BY <1>4, <1>6, <1>7, <2>1, FilesKept DEF ApprovalInv
<1>9. DecidesForAnother'
  <2>1. \A g \in Handlers : call[g].at = "claim" => request[call[g].on].is # "none"
    BY DEF ApprovalInv, DecidesForAnother
  <2>2. \A g \in Handlers : call'[g].at = "claim" =>
           /\ call'[g] = call[g]
           /\ request'[call[g].on].is # "none"
           /\ request'[call[g].on].asked = request[call[g].on].asked
    BY <1>4, <1>6, <1>7, <2>1
  <2>3. QED
    BY <2>2, DecidesKept DEF ApprovalInv
<1>10. CarriesOutAlone'
  <2>1. \A g \in Handlers : call'[g].at \in Deciding =>
            g # h /\ call'[g] = call[g] /\ request'[call[g].on] = request[call[g].on]
    BY <1>4, <1>5, <1>6, <1>7 DEF Deciding
  <2>2. QED
    BY <1>2, <2>1, CarriesOutKept DEF ApprovalInv, CarriesOutAlone
<1>11. Approval!ApprovedIsCarriedOut'
  BY <1>1, <1>2, <1>4, <1>5, ApprovedKept DEF ApprovalInv
<1>12. QED
  BY <1>4, <1>8, <1>9, <1>10, <1>11 DEF ApprovalInv

-----------------------------------------------------------------------------
LEMMA ApprovalNext == ApprovalInv /\ [Approval!Next]_approvalVars => ApprovalInv'
<1> SUFFICES ASSUME ApprovalInv, [Approval!Next]_approvalVars
             PROVE  ApprovalInv'
  OBVIOUS
<1>1. CASE UNCHANGED approvalVars
  <2>1. request' = request /\ doneFor' = doneFor /\ call' = call /\ lost' = lost
    BY <1>1 DEF approvalVars
  <2>2. ApprovalShape' /\ FilesAlone'
    BY <2>1 DEF ApprovalInv, ApprovalShape, FilesAlone
  <2>3. DecidesForAnother'
    BY <2>1 DEF ApprovalInv, DecidesForAnother
  <2>4. CarriesOutAlone'
    BY <2>1, CarriesOutKept DEF ApprovalInv, CarriesOutAlone
  <2>5. Approval!ApprovedIsCarriedOut'
    BY <2>1, ApprovedKept DEF ApprovalInv
  <2>6. QED
    BY <2>2, <2>3, <2>4, <2>5 DEF ApprovalInv
<1>2. ASSUME NEW h \in Handlers, Approval!Die(h)
      PROVE  ApprovalInv'
  BY <1>2, EndsInv DEF Approval!Die
<1>3. QED
  BY <1>1, <1>2, FindWaitingInv, ReadRequestInv, CreateRequestInv, ClaimInv, CarryOutInv,
     PutBackInv DEF Approval!Next

-----------------------------------------------------------------------------
(* Types: whoever a call is by may ask and decide. *)

ApprovalTypes == Approval!TypeOK /\ \A h \in Handlers : call[h].at # "idle" => call[h].by \in People

LEMMA ApprovalTypesInit == Approval!Init => ApprovalTypes
<1> SUFFICES ASSUME Approval!Init
             PROVE  ApprovalTypes
  OBVIOUS
<1>1. \A h \in Handlers : call[h].at = "idle"
  BY DEF Approval!Init, Approval!Idle
<1>2. request \in [ApprovalRequests -> [is : {"none", "PENDING", "APPROVED", "REJECTED"},
                                        asked : People \cup {None}, decided : People \cup {None}]]
  BY DEF Approval!Init
<1>3. QED
  BY <1>1, <1>2 DEF Approval!Init, ApprovalTypes, Approval!TypeOK

\* One call goes on or ends; what it writes has its type.
LEMMA ApprovalTypesKept ==
  ASSUME ApprovalTypes, NEW h \in Handlers,
         \A g \in Handlers \ {h} : call'[g] = call[g],
         call'[h].at \in {"idle", "create", "claim", "carry out", "put back"},
         call'[h].at # "idle" => call'[h].by \in People,
         request' \in [ApprovalRequests -> [is : {"none", "PENDING", "APPROVED", "REJECTED"},
                                            asked : People \cup {None}, decided : People \cup {None}]],
         doneFor' \subseteq ApprovalRequests, lost' \subseteq ApprovalRequests
  PROVE  ApprovalTypes'
  BY DEF ApprovalTypes, Approval!TypeOK

LEMMA DecidedTyped ==
  ASSUME ApprovalTypes, NEW q \in ApprovalRequests, NEW is \in {"PENDING", "APPROVED", "REJECTED"},
         NEW decided \in People \cup {None},
         request' = [request EXCEPT ![q].is = is, ![q].decided = decided]
  PROVE  request' \in [ApprovalRequests -> [is : {"none", "PENDING", "APPROVED", "REJECTED"},
                                            asked : People \cup {None}, decided : People \cup {None}]]
  BY DEF ApprovalTypes, Approval!TypeOK

LEMMA ApprovalBeginsTyped ==
  ASSUME ApprovalInv, ApprovalTypes, NEW h \in Handlers, NEW q \in ApprovalRequests, NEW p \in People,
         \/ Approval!FindWaiting(h, q, p)
         \/ \E decision \in {"APPROVED", "REJECTED"} : Approval!ReadRequest(h, q, p, decision)
  PROVE  ApprovalTypes'
<1>1. PICK at, decision :
         /\ at \in {"create", "claim"}
         /\ call' = [call EXCEPT ![h] = [at |-> at, on |-> q, by |-> p, decision |-> decision]]
  BY DEF Approval!FindWaiting, Approval!ReadRequest
<1>2. call'[h] = [at |-> at, on |-> q, by |-> p, decision |-> decision]
      /\ \A g \in Handlers \ {h} : call'[g] = call[g]
  BY <1>1 DEF ApprovalInv, ApprovalShape
<1>3. call'[h].at = at /\ call'[h].by = p
  BY <1>2
<1>4. UNCHANGED <<request, doneFor, lost>>
  BY DEF Approval!FindWaiting, Approval!ReadRequest
<1>5. QED
  BY <1>1, <1>2, <1>3, <1>4, ApprovalTypesKept DEF ApprovalTypes, Approval!TypeOK

LEMMA DeciderTyped ==
  ASSUME ApprovalInv, ApprovalTypes, NEW h \in Handlers,
         \/ Approval!CreateRequest(h) \/ Approval!Claim(h)
         \/ Approval!CarryOut(h) \/ Approval!PutBack(h) \/ Approval!Die(h)
  PROVE  ApprovalTypes'
<1>1. PICK q \in ApprovalRequests : q = call[h].on
  BY DEF ApprovalInv, ApprovalShape, Approval!CreateRequest, Approval!Claim, Approval!CarryOut,
         Approval!PutBack, Approval!Die
<1>2. call[h].at # "idle" /\ call[h].by \in People
  BY DEF ApprovalTypes, Approval!CreateRequest, Approval!Claim, Approval!CarryOut, Approval!PutBack,
         Approval!Die
<1>3. (Approval!Done(h) \/ \E at \in {"carry out", "put back"} : Approval!Goes(h, at))
  BY DEF Approval!CreateRequest, Approval!Claim, Approval!CarryOut, Approval!PutBack, Approval!Die
<1>4. /\ \A g \in Handlers \ {h} : call'[g] = call[g]
      /\ call'[h].at \in {"idle", "carry out", "put back"}
      /\ call'[h].at # "idle" => call'[h].by \in People
  <2>1. CASE Approval!Done(h)
    BY <2>1, DeciderEnds DEF ApprovalInv
  <2>2. ASSUME NEW at \in {"carry out", "put back"}, Approval!Goes(h, at)
        PROVE  call'[h].at = at /\ call'[h].by = call[h].by /\ \A g \in Handlers \ {h} : call'[g] = call[g]
    <3>1. PICK new : new = [call[h] EXCEPT !.at = at]
      OBVIOUS
    <3>2. new.at = at /\ new.by = call[h].by
      <4>1. call[h] = [at |-> call[h].at, on |-> call[h].on, by |-> call[h].by,
                       decision |-> call[h].decision]
        BY DEF ApprovalInv, ApprovalShape
      <4>2. QED
        BY <3>1, <4>1
    <3>3. call'[h] = new /\ \A g \in Handlers \ {h} : call'[g] = call[g]
      BY <2>2, <3>1 DEF Approval!Goes, ApprovalInv, ApprovalShape
    <3>4. QED
      BY <3>2, <3>3
  <2>3. QED
    BY <1>2, <1>3, <2>1, <2>2
<1>5. doneFor' \subseteq ApprovalRequests /\ lost' \subseteq ApprovalRequests
  BY <1>1 DEF ApprovalTypes, Approval!TypeOK, Approval!CreateRequest, Approval!Claim,
              Approval!CarryOut, Approval!PutBack, Approval!Die
<1>6. request' \in [ApprovalRequests -> [is : {"none", "PENDING", "APPROVED", "REJECTED"},
                                         asked : People \cup {None}, decided : People \cup {None}]]
  <2>1. CASE UNCHANGED request
    BY <2>1 DEF ApprovalTypes, Approval!TypeOK
  <2>2. CASE Approval!CreateRequest(h)
    <3>1. request' = [request EXCEPT ![q] = [is |-> "PENDING", asked |-> call[h].by, decided |-> None]]
      BY <1>1, <2>2 DEF Approval!CreateRequest
    <3>2. QED
      BY <1>2, <3>1 DEF ApprovalTypes, Approval!TypeOK
  <2>3. CASE Approval!Claim(h) /\ request[q].is = "PENDING"
    <3>1. request' = [request EXCEPT ![q].is = call[h].decision, ![q].decided = call[h].by]
      BY <1>1, <2>3 DEF Approval!Claim
    <3>2. call[h].decision \in {"APPROVED", "REJECTED"}
      BY <2>3 DEF ApprovalInv, DecidesForAnother, Approval!Claim
    <3>3. QED
      BY <1>2, <3>1, <3>2, DecidedTyped
  <2>4. CASE Approval!PutBack(h)
    <3>1. request' = [request EXCEPT ![q].is = "PENDING", ![q].decided = None]
      BY <1>1, <2>4 DEF Approval!PutBack
    <3>2. QED
      BY <3>1, DecidedTyped
  <2>5. QED
    BY <1>1, <2>1, <2>2, <2>3, <2>4 DEF Approval!Claim, Approval!CarryOut, Approval!Die
<1>7. QED
  BY <1>4, <1>5, <1>6, ApprovalTypesKept

LEMMA ApprovalTypesNext == ApprovalInv /\ ApprovalTypes /\ [Approval!Next]_approvalVars => ApprovalTypes'
<1>1. ASSUME ApprovalTypes, UNCHANGED approvalVars
      PROVE  ApprovalTypes'
  BY <1>1 DEF approvalVars, ApprovalTypes, Approval!TypeOK
<1>2. QED
  BY <1>1, ApprovalBeginsTyped, DeciderTyped DEF Approval!Next

-----------------------------------------------------------------------------
(* The office.  A step is of one part, and leaves the others as they are. *)

LEMMA EachPart ==
  ASSUME [Next]_vars
  PROVE  /\ [Ussd!Next]_ussdVars /\ [Order!Next]_orderVars /\ [Debit!Next]_debitVars
         /\ [Approval!Next]_approvalVars /\ [Loan!Next]_loanVars /\ [Shelf!Next]_stockVars
  BY DEF Next, vars

\* Every row, call and handler of the six parts keeps its type: a call that pays has read the
\* contract and an amount, a handler is told one of Hubtel's outcomes, days are charged that
\* have come, a sale has its phone.
THEOREM RowsAreTyped == Spec => []TypeOK
<1> DEFINE Parts == /\ MenuInv /\ OrderInv /\ DebitShape /\ ApprovalInv /\ LoanInv /\ StockInv
                    /\ MenuTypes /\ OrderTypes /\ Debit!TypeOK /\ ApprovalTypes /\ LoanTypes
                    /\ StockTypes
<1>1. Init => Parts
  <2>1. Init => MenuInv /\ OrderInv /\ DebitShape /\ ApprovalInv /\ LoanInv /\ StockInv
    BY MenuInit, OrderInit, DebitShapeInit, ApprovalInit, LoanInit, StockInit DEF Init
  <2>2. Init => MenuTypes /\ OrderTypes /\ Debit!TypeOK /\ ApprovalTypes /\ LoanTypes /\ StockTypes
    BY MenuTypesInit, OrderTypesInit, DebitTypesInit, ApprovalTypesInit,
       LoanTypesInit, StockTypesInit DEF Init
  <2>3. QED
    BY <2>1, <2>2
<1>2. Parts /\ [Next]_vars => Parts'
  <2>1. SUFFICES ASSUME Parts, [Next]_vars
                 PROVE  Parts'
    OBVIOUS
  <2>2. MenuInv' /\ OrderInv' /\ DebitShape' /\ ApprovalInv' /\ LoanInv' /\ StockInv'
    BY <2>1, EachPart, MenuNext, OrderNext, DebitShapeNext, ApprovalNext, LoanNext,
       StockNext
  <2>3. MenuTypes' /\ OrderTypes' /\ Debit!TypeOK'
    BY <2>1, EachPart, MenuTypesNext, OrderTypesNext, DebitTypesNext DEF MenuInv, OrderInv
  <2>4. ApprovalTypes' /\ LoanTypes' /\ StockTypes'
    BY <2>1, EachPart, ApprovalTypesNext, LoanTypesNext, StockTypesNext
  <2>5. QED
    BY <2>2, <2>3, <2>4
<1>3. Parts => TypeOK
  BY DEF TypeOK, MenuTypes, OrderTypes, ApprovalTypes, LoanTypes, StockTypes
<1>4. QED
  BY <1>1, <1>2, <1>3, PTL DEF Spec

\* One USSD session gives Hubtel one cart, the one its row says, however often it is confirmed
\* and whichever of the calls that overlap is first at the database.
THEOREM OneCartForEverySession == Spec => []OneCartASession
<1>1. Init => MenuInv
  BY MenuInit DEF Init
<1>2. MenuInv /\ [Next]_vars => MenuInv'
  BY EachPart, MenuNext
<1>3. MenuInv => OneCartASession
  BY DEF MenuInv, OneCartASession
<1>4. QED
  BY <1>1, <1>2, <1>3, PTL DEF Spec

\* Hubtel is told an order is fulfilled only when it was paid and is in the ledger or before
\* staff, and it stays so, whoever reports late, twice or beside another.
THEOREM SuccessIsAccountedFor == Spec => []ToldSuccessIsAccounted
<1>1. Init => OrderInv
  BY OrderInit DEF Init
<1>2. OrderInv /\ [Next]_vars => OrderInv'
  BY EachPart, OrderNext
<1>3. OrderInv => ToldSuccessIsAccounted
  BY DEF OrderInv
<1>4. QED
  BY <1>1, <1>2, <1>3, PTL DEF Spec

\* What a second person approved is carried out, and what is carried out stays approved.
THEOREM ApprovedIsDone == Spec => []ApprovedIsCarriedOut
<1>1. Init => ApprovalInv
  BY ApprovalInit DEF Init
<1>2. ApprovalInv /\ [Next]_vars => ApprovalInv'
  BY EachPart, ApprovalNext
<1>3. ApprovalInv => ApprovedIsCarriedOut
  BY DEF ApprovalInv, ApprovedIsCarriedOut
<1>4. QED
  BY <1>1, <1>2, <1>3, PTL DEF Spec

\* However phones are sold, given back, corrected, moved and handed out by handlers that
\* overlap: one that no two of them wrote over each other is on one contract at most, held or
\* out as it says, in its branch, with an agent of the branch, where its latest movement tells.
THEOREM StockAgreesWithSales == Spec => []StockAgrees
<1>1. Init => StockInv
  BY StockInit DEF Init
<1>2. StockInv /\ [Next]_vars => StockInv'
  BY EachPart, StockNext
<1>3. QED
  BY <1>1, <1>2, StockInvImplies, PTL DEF Spec

\* Whenever a loan's interest is charged, every open day since its first charge then has one
\* charge and every closed day none, for any calendar and however many mornings were missed.
THEOREM DaysChargedOnce == Spec => EveryDayChargedOnce
<1> DEFINE ChargedRight ==
      charged' # charged =>
          LET days == {d \in 1..Days : charged'[d] > 0} IN
          \A d \in Loan!Min(days)..today : charged'[d] = IF d \in ClosedDays THEN 0 ELSE 1
<1>1. Init => LoanInv
  BY LoanInit DEF Init
<1>2. LoanInv /\ [Next]_vars => LoanInv'
  BY EachPart, LoanNext
<1>3. LoanInv /\ [Next]_vars => [ChargedRight]_(Loan!vars)
  <2>1. SUFFICES ASSUME LoanInv, [Next]_vars, Loan!vars' # Loan!vars
                 PROVE  ChargedRight
    OBVIOUS
  <2>2. Loan!Next
    BY <2>1, EachPart DEF loanVars, Loan!vars
  <2>3. QED
    BY <2>1, <2>2, ChargesEveryDayOnce
<1>4. QED
  BY <1>1, <1>2, <1>3, PTL DEF Spec, EveryDayChargedOnce, Loan!EveryDayChargedOnce
=============================================================================

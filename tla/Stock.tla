------------------------------- MODULE Stock --------------------------------
(***************************************************************************)
(* The phones of the shop: in which branch, with which agent, on which     *)
(* contract.  applyStockMovement reads a phone, looks whether the movement *)
(* is legal, and updates it by its id alone, so that what happens in       *)
(* between is written over.  Sales, deposits and cancellations call it in  *)
(* their own transaction; transfers and adjustments call it in none.  What *)
(* two handlers do to one contract is in LedgerConcurrency: here the       *)
(* handlers of one contract take turns.                                    *)
(***************************************************************************)
CONSTANTS
    Phones, Branches, Agents,
    AgentBranch,    \* the branch each agent works in
    Contracts,      \* sales that may be made
    Handlers,
    None

VARIABLES
    item,       \* InventoryItem: status, branch and assigned agent
    moved,      \* the latest stock movement of each phone: type and branch
    contract,   \* each sale's status, phone and branch
    act,        \* what each handler is doing
    disturbed   \* phones written beside another handler, moved by hand under a sale, or whose
                \* movement was lost

vars == <<item, moved, contract, act, disturbed>>

Statuses == {"AVAILABLE", "RESERVED", "ISSUED", "RETURNED", "WRITTEN_OFF"}
Movements == {"RESERVE", "ISSUE", "RETURN", "TRANSFER", "ADJUSTMENT"}

\* TRANSITIONS
From(type) ==
    CASE type \in {"RESERVE", "TRANSFER"} -> {"AVAILABLE"}
      [] type = "ISSUE" -> {"AVAILABLE", "RESERVED"}
      [] type = "RETURN" -> {"ISSUED", "RESERVED"}
      [] type = "ADJUSTMENT" -> Statuses
To(type) ==
    CASE type = "RESERVE" -> "RESERVED"
      [] type = "ISSUE" -> "ISSUED"
      [] type \in {"RECEIPT", "RETURN", "TRANSFER"} -> "AVAILABLE"

Idle == [pc |-> "idle", type |-> "none", phone |-> None, contract |-> None, to |-> None]

\* receiveInventoryItem: received in a branch, with no agent.
Init ==
    /\ item \in [Phones -> [status : {"AVAILABLE"}, branch : Branches, agent : {None}]]
    /\ moved = [i \in Phones |-> [type |-> "RECEIPT", branch |-> item[i].branch]]
    /\ contract = [c \in Contracts |-> [is |-> "none", phone |-> None, branch |-> None]]
    /\ act = [h \in Handlers |-> Idle]
    /\ disturbed = {}

Sold(i) == {c \in Contracts : contract[c].phone = i /\ contract[c].is \in {"waiting", "active"}}

-----------------------------------------------------------------------------
(* What each operation checks first. *)

Begin(h, at, type, i, c, to) ==
    /\ act[h].pc = "idle"
    /\ act' = [act EXCEPT ![h] = [pc |-> at, type |-> type, phone |-> i, contract |-> c, to |-> to]]

Untouched(c) == \A h \in Handlers : act[h].contract # c

\* createContract, by an agent from their own stock or by other staff from the branch's.
Sell(h, c, i, seller) ==
    /\ contract[c].is = "none" /\ Untouched(c)
    /\ item[i].status = "AVAILABLE"
    /\ seller # None => item[i].agent = seller
    /\ Begin(h, "check", "RESERVE", i, c, item[i].branch)
    /\ UNCHANGED <<item, moved, contract, disturbed>>

\* advanceContractStatus, when the deposit is paid.
PayDeposit(h, c) ==
    /\ contract[c].is = "waiting" /\ Untouched(c)
    /\ Begin(h, "check", "ISSUE", contract[c].phone, c, None)
    /\ UNCHANGED <<item, moved, contract, disturbed>>

\* cancelContract: a phone not handed over goes back, one handed over stays where it is.
Cancel(h, c) ==
    /\ contract[c].is \in {"waiting", "active"} /\ Untouched(c)
    /\ IF item[contract[c].phone].status = "RESERVED"
       THEN Begin(h, "check", "RETURN", contract[c].phone, c, None) /\ UNCHANGED contract
       ELSE contract' = [contract EXCEPT ![c].is = "cancelled"] /\ UNCHANGED act
    /\ UNCHANGED <<item, moved, disturbed>>

Transfer(h, i, b) ==
    /\ Begin(h, "check", "TRANSFER", i, None, b)
    /\ UNCHANGED <<item, moved, contract, disturbed>>

Adjust(h, i, s) ==
    /\ Begin(h, "check", "ADJUSTMENT", i, None, s)
    /\ UNCHANGED <<item, moved, contract, disturbed>>

\* assignStock: to an agent of the phone's branch, or back into the shop.
Assign(h, i, a) ==
    /\ item[i].status = "AVAILABLE"
    /\ a # None => AgentBranch[a] = item[i].branch
    /\ item[i].agent # a
    /\ Begin(h, "assign", "none", i, None, a)
    /\ UNCHANGED <<item, moved, contract, disturbed>>

-----------------------------------------------------------------------------
(* applyStockMovement *)

Ends(h) == act' = [act EXCEPT ![h] = Idle]

\* An illegal movement is an error, and undoes the operation it is part of.
CheckTransition(h) ==
    /\ act[h].pc = "check"
    /\ IF item[act[h].phone].status \in From(act[h].type)
       THEN act' = [act EXCEPT ![h].pc = "update"]
       ELSE Ends(h)
    /\ UNCHANGED <<item, moved, contract, disturbed>>

\* Slip: the agent keeps a phone that leaves for another branch.
MutMoved(row, type, to) ==
    CASE type = "TRANSFER" -> [row EXCEPT !.status = "AVAILABLE", !.branch = to]
      [] type = "ADJUSTMENT" -> [row EXCEPT !.status = to]
      [] OTHER -> [row EXCEPT !.status = To(type)]

Moved(row, type, to) ==
    CASE type = "TRANSFER" -> [status |-> "AVAILABLE", branch |-> to, agent |-> None]
      [] type = "ADJUSTMENT" -> [row EXCEPT !.status = to]
      [] OTHER -> [row EXCEPT !.status = To(type)]

Overlapped(h) == \E g \in Handlers \ {h} : act[g].phone = act[h].phone

\* By hand a phone is taken from its sale, or held for none.
AgainstSales(a) ==
    a.type = "ADJUSTMENT" /\ (Sold(a.phone) # {} \/ a.to \in {"RESERVED", "ISSUED"})

Disturb(h, whether) == disturbed' = IF whether THEN disturbed \cup {act[h].phone} ELSE disturbed

Concluded(a) ==
    CASE a.type = "RESERVE" -> [is |-> "waiting", phone |-> a.phone, branch |-> a.to]
      [] a.type = "ISSUE" -> [contract[a.contract] EXCEPT !.is = "active"]
      [] a.type = "RETURN" -> [contract[a.contract] EXCEPT !.is = "cancelled"]

\* In a transaction the movement and the contract are committed with the update.
UpdateItem(h) ==
    LET a == act[h] IN
    /\ a.pc = "update"
    /\ item' = [item EXCEPT ![a.phone] = Moved(@, a.type, a.to)]
    /\ IF a.contract = None
       THEN /\ act' = [act EXCEPT ![h].pc = "record", ![h].to = item'[a.phone].branch]
            /\ UNCHANGED <<moved, contract>>
       ELSE /\ moved' = [moved EXCEPT ![a.phone] = [type |-> a.type, branch |-> item[a.phone].branch]]
            /\ contract' = [contract EXCEPT ![a.contract] = Concluded(a)]
            /\ Ends(h)
    /\ Disturb(h, Overlapped(h) \/ AgainstSales(a))

\* Outside one it follows, with the branch the update returned.
RecordMovement(h) ==
    /\ act[h].pc = "record"
    /\ moved' = [moved EXCEPT ![act[h].phone] = [type |-> act[h].type, branch |-> act[h].to]]
    /\ Ends(h)
    /\ UNCHANGED <<item, contract, disturbed>>

UpdateAssignment(h) ==
    /\ act[h].pc = "assign"
    /\ item' = [item EXCEPT ![act[h].phone].agent = act[h].to]
    /\ Ends(h)
    /\ Disturb(h, Overlapped(h))
    /\ UNCHANGED <<moved, contract>>

\* The process dies: an update outside a transaction stays without its movement.  Anywhere
\* else it leaves nothing behind, as an illegal movement does.
Die(h) ==
    /\ act[h].pc = "record"
    /\ Ends(h)
    /\ Disturb(h, TRUE)
    /\ UNCHANGED <<item, moved, contract>>

-----------------------------------------------------------------------------
\* Bound: a behaviour ends when no phone is left of which anything is said.
Next ==
    /\ disturbed # Phones
    /\ \E h \in Handlers :
        \/ \E c \in Contracts :
              \/ \E i \in Phones, seller \in Agents \cup {None} : Sell(h, c, i, seller)
              \/ PayDeposit(h, c)
              \/ Cancel(h, c)
        \/ \E i \in Phones :
              \/ \E b \in Branches : Transfer(h, i, b)
              \/ \E s \in Statuses : Adjust(h, i, s)
              \/ \E a \in Agents \cup {None} : Assign(h, i, a)
        \/ CheckTransition(h)
        \/ UpdateItem(h)
        \/ RecordMovement(h)
        \/ UpdateAssignment(h)
        \/ Die(h)

Spec == Init /\ [][Next]_vars

-----------------------------------------------------------------------------
(* Properties. *)

TypeOK ==
    /\ item \in [Phones -> [status : Statuses, branch : Branches, agent : Agents \cup {None}]]
    /\ \A i \in Phones : moved[i].type \in Movements \cup {"RECEIPT"} /\ moved[i].branch \in Branches
    /\ \A c \in Contracts :
          /\ contract[c].is \in {"none", "waiting", "active", "cancelled"}
          /\ contract[c].phone \in Phones <=> contract[c].is # "none"
    /\ \A h \in Handlers : act[h].pc \in {"idle", "check", "update", "record", "assign"}
    /\ disturbed \subseteq Phones

\* However phones are sold, cancelled, corrected by hand, moved, handed to agents and sold
\* again: unless two handlers wrote over each other on a phone, it is on one contract at most,
\* reserved or out as that contract says, in the contract's branch, with an agent of its own
\* branch, and its latest movement tells where it is.
StockAgrees ==
    \A i \in Phones \ disturbed :
        (\A h \in Handlers : act[h].phone = i => act[h].pc # "record") =>
            /\ \A c, d \in Sold(i) : c = d
            /\ item[i].status = "RESERVED" <=> \E c \in Sold(i) : contract[c].is = "waiting"
            /\ \A c \in Sold(i) : /\ contract[c].is = "active" => item[i].status = "ISSUED"
                                  /\ contract[c].branch = item[i].branch
            /\ item[i].agent # None => AgentBranch[item[i].agent] = item[i].branch
            /\ moved[i].branch = item[i].branch
            /\ moved[i].type # "ADJUSTMENT" => item[i].status = To(moved[i].type)
=============================================================================

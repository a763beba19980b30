----------------------------- MODULE Collection -----------------------------
(***************************************************************************)
(* What collecting mobile money promises, whatever the network, the        *)
(* gateway and the process do: money that left a customer's wallet is      *)
(* entered in the ledger once, or held in a queue a person sees, who has   *)
(* it entered or closes it.  Money closed by hand is never entered, unless *)
(* two handlers were at work on it at once: of contested money it promises *)
(* only that it was taken, and that once entered it stays entered.         *)
(* HubtelCharge implements it.                                             *)
(***************************************************************************)
CONSTANT Charges

VARIABLE account   \* what became of each charge's money

Init == account = [c \in Charges |-> "asked"]

Move(c, from, to) == account[c] = from /\ account' = [account EXCEPT ![c] = to]

Take(c)    == Move(c, "asked", "taken")        \* the wallet is charged
Abandon(c) == Move(c, "asked", "abandoned")    \* it never will be
Hold(c)    == Move(c, "taken", "held")         \* the ledger refuses it: a person decides
Reapply(c) == Move(c, "held", "taken")         \* they have it tried again
Close(c)   == Move(c, "held", "closed")        \* they dealt with it outside the ledger

\* A second handler takes it up before the first is done with it.
Contest(c) == \E from \in {"taken", "held"} : Move(c, from, "contested")

\* A ledger row is written.
Record(c)  == \E from \in {"taken", "contested"} : Move(c, from, "recorded")

Next == \E c \in Charges :
            \/ Take(c) \/ Abandon(c) \/ Hold(c) \/ Reapply(c) \/ Close(c)
            \/ Contest(c) \/ Record(c)

Spec == Init /\ [][Next]_account
=============================================================================

-------------------------- MODULE AgentLedgerProofs --------------------------
(***************************************************************************)
(* For any payments, reversals, remittances and payouts that overlap, of   *)
(* any amounts: what the agent paid in rises once with each remittance     *)
(* confirmed; cash that moved the contract's total is never missed; and a  *)
(* derivation nobody committed beside leaves the whole row right.  Two     *)
(* locks do it.  Money that moves the total holds the contract's row while *)
(* it reads; a confirmation or a payout holds the agent's row, and then    *)
(* no money that derived that row can commit.                              *)
(***************************************************************************)
EXTENDS Books, SumTheorems

Fields == {"pc", "kind", "amount", "inserted", "target", "remittance", "stored", "total", "wrote",
           "activates", "own", "active", "seen", "existing", "applicable", "again", "alone",
           "skipped"}

Shape ==
    /\ tx = [h \in Handlers |-> tx[h]]
    /\ \A h \in Handlers : tx[h] = [f \in Fields |-> tx[h][f]]

Money == {"POST", "REVERSE"}
Settling == {"CONFIRM", "PAYOUT"}
Syncing == {"contract", "payments", "existing", "upsert", "commit"}

PaymentRows == [id : Rows, at : Nat, amount : Nat, byAgent : BOOLEAN,
                entryType : {"DEPOSIT", "INSTALMENT_PAYMENT"}, toCharges : BOOLEAN]

IsLedger(l) == l \in Ledgers /\ (l.exists \/ l = NoLedger)
IsPayments(S) == S \subseteq PaymentRows /\ IsFiniteSet(S)

\* What is committed: nothing is remitted where there is no row, and cash that moved the
\* contract's total is in the row.
CommittedRows ==
    /\ activated \in BOOLEAN
    /\ totalPaid \in Nat
    /\ IsPayments(payments)
    /\ reversed \subseteq Rows
    /\ remittances \in [Rows -> [amount : Nat, status : RemittanceStatuses]]
    /\ IsLedger(ledger)
    /\ settings \in Rates
    /\ contractLock \in Handlers \cup {NoOne}
    /\ ledgerLock \in Handlers \cup {NoOne}
    /\ \A r \in Rows : remittances[r].status # "none" => ledger.exists

\* What a handler carries.
Carries(h) ==
    /\ tx[h].amount \in Nat
    /\ IsPayments(tx[h].inserted)
    /\ tx[h].target \subseteq payments
    /\ tx[h].total \in Nat
    /\ IsPayments(tx[h].seen)
    /\ tx[h].existing \in Ledgers
    /\ tx[h].pc = "upsert" /\ tx[h].existing.rate = NoRate => tx[h].applicable \in Rates
    /\ tx[h].active \in BOOLEAN
    /\ tx[h].activates \in BOOLEAN

\* Where the handlers of each kind can be.
OnItsWay(h) ==
    /\ tx[h].pc \in {"derive", "lock"} => tx[h].kind \in Money
    /\ tx[h].pc = "advance" => tx[h].kind = "POST"
    /\ tx[h].pc = "reverse" => tx[h].kind = "REVERSE"
    /\ tx[h].pc = "increment" => tx[h].kind \in Settling
    /\ tx[h].pc \in Syncing => tx[h].kind \in Money \cup Settling
    /\ tx[h].pc = "claim" => tx[h].kind = "CONFIRM"
    /\ tx[h].pc = "reject" => tx[h].kind = "REJECT"
    /\ tx[h].pc \in {"file", "create"} => tx[h].kind = "FILE"
    /\ tx[h].pc = "idle" => tx[h].kind = "none"
    /\ tx[h].kind \in Money => tx[h].pc # "idle"
    /\ tx[h].skipped = FALSE \/ tx[h].pc = "done"
    /\ tx[h].kind \notin Money => tx[h].inserted = {} /\ tx[h].target = {}

\* What is written and not committed is written under the row's lock, and adds to what was
\* remitted only what is confirmed.
HoldsRows(h) ==
    /\ tx[h].wrote \/ tx[h].activates => contractLock = h
    /\ tx[h].own # NoLedger => ledgerLock = h
    /\ tx[h].kind \in Settling /\ tx[h].pc \in Syncing => ledgerLock = h
    /\ ledgerLock = h =>
          /\ tx[h].pc \in Syncing \cup {"advance"}
          /\ tx[h].own \in Ledgers /\ tx[h].own.exists
          /\ tx[h].own.remitted = IF tx[h].kind = "CONFIRM" THEN ledger.remitted + tx[h].amount
                                  ELSE ledger.remitted

\* Who has claimed a remittance is the only one, and it still waits.
Claims(h) == tx[h].kind = "CONFIRM" /\ tx[h].pc \notin {"claim", "done"}

SettlesAlone(h) ==
    /\ tx[h].pc \in {"idle", "file", "create"} => remittances[h].status = "none"
    /\ tx[h].kind \in {"FILE", "CONFIRM", "PAYOUT"} => ledger.exists
    /\ tx[h].kind = "CONFIRM" /\ tx[h].pc # "done" =>
          /\ tx[h].remittance \in Rows
          /\ remittances[tx[h].remittance].status # "none"
          /\ tx[h].amount = remittances[tx[h].remittance].amount
    /\ tx[h].pc = "reject" =>
          tx[h].remittance \in Rows /\ remittances[tx[h].remittance].status # "none"
    /\ Claims(h) =>
          /\ remittances[tx[h].remittance].status = "PENDING"
          /\ \A g \in Handlers \ {h} : Claims(g) => tx[g].remittance # tx[h].remittance

\* A row that is what syncAgentLedger makes of payments.
RightFor(l, pays, active) ==
    /\ l.collected = Collected(pays)
    /\ l.commission = IF Earned(active, pays) THEN l.rate ELSE 0
    /\ l.status = StatusFor(Balance(l))

\* What a derivation nobody committed beside has read is still so.
ReadsStand(h) ==
    tx[h].alone =>
        /\ tx[h].pc \in Syncing \cup {"advance"}
        /\ tx[h].pc \in {"payments", "existing", "upsert"} =>
              tx[h].active = (activated \/ tx[h].activates)
        /\ tx[h].pc \in {"existing", "upsert"} => tx[h].seen = SeenPayments(h)
        /\ tx[h].pc = "upsert" => tx[h].existing = SeenLedger(h)
        /\ tx[h].pc = "commit" => RightFor(SeenLedger(h), SeenPayments(h), activated \/ tx[h].activates)

\* Whoever reads the payments holding a lock that other money needs has read them all.
TakesTurn(h) == tx[h].wrote \/ tx[h].kind \in Settling

MissesNone(h) ==
    TakesTurn(h) =>
        /\ tx[h].pc \in {"existing", "upsert"} => tx[h].seen = SeenPayments(h)
        /\ tx[h].pc = "upsert" /\ ~tx[h].existing.exists => ~SeenLedger(h).exists
        /\ tx[h].pc = "commit" => /\ SeenLedger(h).collected = Collected(SeenPayments(h))
                                  /\ ledgerLock = h \/ ~ledger.exists

NoneSkipped == \A h \in Handlers : ~tx[h].skipped

Sound(h) == Carries(h) /\ OnItsWay(h) /\ HoldsRows(h) /\ SettlesAlone(h) /\ ReadsStand(h)

IInv ==
    /\ Shape
    /\ CommittedRows
    /\ IsFiniteSet(Started)
    /\ \A h \in Handlers : Sound(h)
    /\ CashMatchesPayments
    /\ NoneSkipped => \A h \in Handlers : MissesNone(h)
-----------------------------------------------------------------------------
(* Sums of payments, and the rows derived from them. *)

LEMMA SumOfPayments ==
  ASSUME NEW S, IsPayments(S)
  PROVE  SumAmounts(S) \in Nat
<1>1. \A p \in S : [q \in S |-> q.amount][p] \in Nat
  BY DEF IsPayments, PaymentRows
<1>2. QED
  BY <1>1, SumNotNegative DEF SumAmounts, IsPayments

LEMMA SomePayments ==
  ASSUME NEW S, IsPayments(S), NEW R \in SUBSET S
  PROVE  IsPayments(R)
  BY FS_Subset DEF IsPayments

LEMMA CollectedIsNat ==
  ASSUME NEW S, IsPayments(S)
  PROVE  Collected(S) \in Nat /\ TowardsPrice(S) \in Nat
<1>1. IsPayments(AgentCash(S)) /\ IsPayments({p \in S : ~p.toCharges})
  BY SomePayments DEF AgentCash
<1>2. QED
  BY <1>1, SumOfPayments DEF Collected, TowardsPrice

LEMMA StatusIsOne ==
  ASSUME NEW b \in Int
  PROVE  StatusFor(b) \in {"OWED", "DUE_TO_AGENT", "SETTLED"}
  BY DEF StatusFor

LEMMA NoLedgerIsLedger == NoLedger \in Ledgers /\ ~NoLedger.exists /\ IsLedger(NoLedger)
  BY DEF NoLedger, Ledgers, IsLedger

LEMMA BalanceIsInt ==
  ASSUME NEW l \in Ledgers
  PROVE  Balance(l) \in Int
  BY DEF Balance, Ledgers

LEMMA DerivedIs ==
  ASSUME NEW l \in Ledgers, NEW pays, IsPayments(pays), NEW active, NEW existing \in Ledgers,
         NEW applicable, existing.rate = NoRate => applicable \in Rates
  PROVE  LET new == Derived(l, pays, active, existing, applicable) IN
         /\ new \in Ledgers /\ new.exists
         /\ new.collected = Collected(pays)
         /\ new.remitted = l.remitted /\ new.paidOut = l.paidOut
         /\ l.remitted = existing.remitted /\ l.paidOut = existing.paidOut
              => RightFor(new, pays, active)
<1> DEFINE earned == Earned(active, pays)
           rate == IF earned THEN RateOf(existing, applicable) ELSE existing.rate
           commission == IF earned THEN rate ELSE 0
           status == StatusFor(Collected(pays) - commission - existing.remitted + existing.paidOut)
           new == Derived(l, pays, active, existing, applicable)
<1>1. Collected(pays) \in Nat
  BY CollectedIsNat
<1>2. rate \in Rates \cup {NoRate} /\ (earned => rate \in Rates)
  <2>1. existing.rate \in Rates \cup {NoRate}
    BY DEF Ledgers
  <2>2. RateOf(existing, applicable) \in Rates
    BY <2>1 DEF RateOf
  <2>3. QED
    BY <2>1, <2>2
<1>3. commission \in Nat
  BY <1>2, RatesAssumption
<1>4. status \in {"OWED", "DUE_TO_AGENT", "SETTLED"}
  <2>1. existing.remitted \in Nat /\ existing.paidOut \in Nat
    BY DEF Ledgers
  <2>2. PICK c : c = commission
    OBVIOUS
  <2>3. PICK d : d = Collected(pays)
    OBVIOUS
  <2>4. d - c - existing.remitted + existing.paidOut \in Int
    BY <1>1, <1>3, <2>1, <2>2, <2>3
  <2>5. QED
    BY <2>2, <2>3, <2>4, StatusIsOne
<1>5. new = [l EXCEPT !.exists = TRUE, !.collected = Collected(pays), !.commission = commission,
                      !.rate = rate, !.status = status]
  BY DEF Derived
<1> HIDE DEF rate, commission, status, new
<1>6. /\ new \in Ledgers /\ new.exists
      /\ new.collected = Collected(pays) /\ new.commission = commission /\ new.rate = rate
      /\ new.status = status /\ new.remitted = l.remitted /\ new.paidOut = l.paidOut
  BY <1>1, <1>2, <1>3, <1>4, <1>5 DEF Ledgers
<1>7. ASSUME l.remitted = existing.remitted, l.paidOut = existing.paidOut
      PROVE  RightFor(new, pays, active)
  <2>1. new.commission = IF Earned(active, pays) THEN new.rate ELSE 0
    BY <1>6 DEF commission
  <2>2. new.status = StatusFor(Balance(new))
    BY <1>6, <1>7 DEF status, Balance
  <2>3. QED
    BY <1>6, <2>1, <2>2 DEF RightFor
<1>8. QED
  BY <1>6, <1>7 DEF new

\* Nothing to settle leaves no row, which is right.
LEMMA NothingIsRight ==
  ASSUME NEW l, IsLedger(l), NEW pays, NEW active, NothingToSettle(pays, active, l)
  PROVE  RightFor(l, pays, active)
<1>1. l = NoLedger
  BY DEF NothingToSettle, IsLedger
<1>2. Balance(NoLedger) = 0 /\ StatusFor(0) = "SETTLED"
  BY DEF Balance, NoLedger, StatusFor
<1>3. QED
  BY <1>1, <1>2 DEF NothingToSettle, RightFor, NoLedger

LEMMA Seen ==
  ASSUME IInv, NEW h \in Handlers
  PROVE  /\ IsPayments(SeenPayments(h)) /\ IsPayments(Now)
         /\ tx[h].kind \notin Money => SeenPayments(h) = Now
         /\ IsLedger(SeenLedger(h))
         /\ SeenTotal(h) \in Nat
<1>1. CommittedRows /\ Carries(h) /\ OnItsWay(h) /\ HoldsRows(h)
  BY DEF IInv, Sound
<1>2. IsPayments(payments \cup tx[h].inserted)
  BY <1>1, FS_Union DEF CommittedRows, Carries, IsPayments
<1>3. IsPayments(SeenPayments(h)) /\ IsPayments(Now)
  BY <1>1, <1>2, SomePayments DEF SeenPayments, Now, Effective, CommittedRows
<1>4. tx[h].kind \notin Money => SeenPayments(h) = Now
  BY <1>1 DEF OnItsWay, SeenPayments, Now, Effective
<1>5. IsLedger(SeenLedger(h))
  BY <1>1 DEF HoldsRows, CommittedRows, SeenLedger, IsLedger
<1>6. SeenTotal(h) \in Nat
  BY <1>1 DEF SeenTotal, CommittedRows, Carries
<1>7. QED
  BY <1>3, <1>4, <1>5, <1>6
-----------------------------------------------------------------------------
LEMMA InitIInv == Init => IInv
<1> SUFFICES ASSUME Init
             PROVE  IInv
  OBVIOUS
<1>1. PICK p : payments = {p} /\ p \in PaymentRows
  <2>1. PICK a \in OpeningAmounts, cash \in BOOLEAN :
          payments = {[id |-> Opening, at |-> 0, amount |-> a, byAgent |-> cash,
                       entryType |-> "DEPOSIT", toCharges |-> FALSE]}
    BY DEF Init
  <2>2. [id |-> Opening, at |-> 0, amount |-> a, byAgent |-> cash,
         entryType |-> "DEPOSIT", toCharges |-> FALSE] \in PaymentRows
    BY AmountsAssumption DEF PaymentRows, Rows
  <2>3. QED
    BY <2>1, <2>2
<1>2. IsPayments(payments)
  BY <1>1, FS_Singleton DEF IsPayments
<1>3. totalPaid \in Nat /\ activated \in BOOLEAN
  BY <1>2, SumOfPayments, AmountsAssumption DEF Init
<1>4. settings \in Rates /\ reversed = {}
  BY DEF Init
<1>5. Now = payments
  BY <1>4 DEF Now, Effective
<1>6. IsLedger(ledger) /\ ledger.collected = Collected(Now)
  <2>1. CASE NothingToSettle(payments, activated, NoLedger)
    <3>1. ledger = NoLedger
      BY <2>1 DEF Init
    <3>2. Collected(payments) = 0
      BY <2>1 DEF NothingToSettle
    <3>3. QED
      BY <1>5, <3>1, <3>2, NoLedgerIsLedger DEF NoLedger
  <2>2. CASE ~NothingToSettle(payments, activated, NoLedger)
    <3>1. ledger = Derived(NoLedger, payments, activated, NoLedger, settings)
      BY <2>2 DEF Init
    <3>2. QED
      BY <1>2, <1>4, <1>5, <3>1, DerivedIs, NoLedgerIsLedger DEF IsLedger
  <2>3. QED
    BY <2>1, <2>2
<1>7. PICK a \in 0..Balance(ledger) \cup {0} :
        remittances = [r \in Rows |-> IF r = Opening /\ a > 0 THEN [amount |-> a, status |-> "PENDING"]
                                      ELSE [amount |-> 0, status |-> "none"]]
  BY DEF Init
<1>8. Balance(ledger) \in Int /\ (Balance(ledger) # 0 => ledger.exists)
  <2>1. Balance(NoLedger) = 0
    BY DEF Balance, NoLedger
  <2>2. QED
    BY <1>6, <2>1, BalanceIsInt DEF IsLedger
<1>9. /\ remittances \in [Rows -> [amount : Nat, status : RemittanceStatuses]]
      /\ \A r \in Rows : remittances[r].status # "none" => ledger.exists
      /\ \A h \in Handlers : remittances[h].status = "none"
  <2>1. a \in Nat /\ (a > 0 => ledger.exists)
    BY <1>7, <1>8
  <2>2. QED
    BY <1>7, <2>1, HandlersAssumption DEF Rows, RemittanceStatuses
<1>10. CommittedRows
  BY <1>2, <1>3, <1>4, <1>6, <1>9 DEF Init, CommittedRows
<1>11. Shape /\ \A h \in Handlers : tx[h] = Idle
  BY DEF Init, Idle, Shape, Fields
<1>12. ASSUME NEW h \in Handlers
       PROVE  Sound(h) /\ MissesNone(h)
  <2>1. tx[h] = Idle
    BY <1>11
  <2>2. ledgerLock # h
    BY HandlersAssumption DEF Init
  <2>3. Carries(h)
    BY <2>1, NoLedgerIsLedger, FS_EmptySet DEF Carries, Idle, IsPayments
  <2>4. OnItsWay(h) /\ HoldsRows(h) /\ SettlesAlone(h)
    BY <1>9, <2>1, <2>2 DEF OnItsWay, HoldsRows, SettlesAlone, Claims, Idle, Money, Settling, Syncing
  <2>5. ReadsStand(h) /\ MissesNone(h)
    BY <2>1 DEF ReadsStand, MissesNone, TakesTurn, Idle, Settling
  <2>6. QED
    BY <2>3, <2>4, <2>5 DEF Sound
<1>13. IsFiniteSet(Started)
  <2>1. Started = {}
    BY <1>11 DEF Started, Idle
  <2>2. QED
    BY <2>1, FS_EmptySet
<1>14. QED
  BY <1>6, <1>10, <1>11, <1>12, <1>13 DEF IInv, CashMatchesPayments

-----------------------------------------------------------------------------
(* A statement of one handler that does not commit. *)

LEMMA Updates ==
  ASSUME Shape, NEW h \in Handlers, NEW new, new = [f \in Fields |-> new[f]], Update(h, new)
  PROVE  Shape' /\ tx'[h] = new /\ \A g \in Handlers \ {h} : tx'[g] = tx[g]
  BY DEF Shape, Update

LEMMA FewStarted ==
  ASSUME IsFiniteSet(Started), NEW h \in Handlers, \A g \in Handlers \ {h} : tx'[g].pc = tx[g].pc
  PROVE  IsFiniteSet(Started')
<1>1. Started' \subseteq Started \cup {h}
  BY DEF Started
<1>2. IsFiniteSet(Started \cup {h})
  BY FS_AddElement
<1>3. QED
  BY <1>1, <1>2, FS_Subset

TakenBy(h, lock, next) == next = lock \/ (lock \in {NoOne, h} /\ next = h)

\* A remittance is filed by its handler, or rejected while nobody has claimed it.
RemittancesMove(h) ==
    \/ remittances' = remittances
    \/ /\ remittances' \in [Rows -> [amount : Nat, status : RemittanceStatuses]]
       /\ remittances[h].status = "none" /\ tx[h].pc = "create" /\ ledger.exists
       /\ \A r \in Rows \ {h} : remittances'[r] = remittances[r]
    \/ /\ remittances' \in [Rows -> [amount : Nat, status : RemittanceStatuses]]
       /\ \E s \in Rows :
             /\ remittances[s].status # "none" /\ remittances'[s].status # "none"
             /\ remittances'[s].amount = remittances[s].amount
             /\ Claimants(s) = {}
             /\ \A r \in Rows \ {s} : remittances'[r] = remittances[r]

Moves(h) ==
    /\ Shape'
    /\ \A g \in Handlers \ {h} : tx'[g] = tx[g]
    /\ activated' = activated /\ totalPaid' = totalPaid /\ payments' = payments
    /\ reversed' = reversed /\ ledger' = ledger /\ settings' = settings
    /\ RemittancesMove(h)
    /\ TakenBy(h, contractLock, contractLock')
    /\ TakenBy(h, ledgerLock, ledgerLock')
    /\ tx[h].pc \notin {"commit", "done"}
    /\ tx'[h].skipped = FALSE

\* The others see what they saw.
LEMMA OthersSee ==
  ASSUME NEW h \in Handlers, Moves(h), NEW g \in Handlers \ {h}
  PROVE  /\ tx'[g] = tx[g]
         /\ (contractLock = g => contractLock' = g) /\ (ledgerLock' = g <=> ledgerLock = g)
         /\ SeenPayments(g)' = SeenPayments(g)
         /\ SeenLedger(g)' = SeenLedger(g)
  BY HandlersAssumption DEF Moves, TakenBy, SeenPayments, SeenLedger

LEMMA OthersSettleAlone ==
  ASSUME IInv, NEW h \in Handlers, Moves(h), NEW g \in Handlers \ {h},
         Claims(g) /\ Claims(h)' => tx[g].remittance # tx'[h].remittance
  PROVE  SettlesAlone(g)'
<1>1. SettlesAlone(g) /\ CommittedRows
  BY DEF IInv, Sound
<1>2. tx'[g] = tx[g] /\ ledger' = ledger
  BY DEF Moves
<1>3. Claims(g)' <=> Claims(g)
  BY <1>2 DEF Claims
<1>4. Claims(g) => \A f \in Handlers \ {g} : Claims(f)' => tx'[f].remittance # tx[g].remittance
  BY <1>1, <1>2 DEF SettlesAlone, Claims, Moves
<1>5. CASE remittances' = remittances
  BY <1>1, <1>2, <1>3, <1>4, <1>5 DEF SettlesAlone
<1>6. CASE /\ remittances[h].status = "none"
           /\ \A r \in Rows \ {h} : remittances'[r] = remittances[r]
  <2>1. remittances'[g] = remittances[g]
    BY <1>6 DEF Rows
  <2>2. tx[g].kind = "CONFIRM" /\ tx[g].pc # "done" => tx[g].remittance # h
    BY <1>1, <1>6 DEF SettlesAlone
  <2>3. tx[g].pc = "reject" => tx[g].remittance # h
    BY <1>1, <1>6 DEF SettlesAlone
  <2>4. Claims(g) => tx[g].remittance \in Rows \ {h}
    BY <1>1, <2>2 DEF SettlesAlone, Claims
  <2>5. QED
    BY <1>1, <1>2, <1>3, <1>4, <1>6, <2>1, <2>2, <2>3, <2>4 DEF SettlesAlone
<1>7. ASSUME NEW s \in Rows,
             remittances[s].status # "none", remittances'[s].status # "none",
             remittances'[s].amount = remittances[s].amount, Claimants(s) = {},
             \A r \in Rows \ {s} : remittances'[r] = remittances[r]
      PROVE  SettlesAlone(g)'
  <2>1. \A r \in Rows : /\ remittances'[r].amount = remittances[r].amount
                        /\ remittances'[r].status = "none" <=> remittances[r].status = "none"
    BY <1>7
  <2>2. Claims(g) => tx[g].remittance # s
    BY <1>7 DEF Claims, Claimants
  <2>3. Claims(g) => remittances'[tx[g].remittance] = remittances[tx[g].remittance]
    BY <1>1, <1>7, <2>2 DEF SettlesAlone, Claims
  <2>4. g \in Rows
    BY DEF Rows
  <2>5. QED
    BY <1>1, <1>2, <1>3, <1>4, <2>1, <2>3, <2>4 DEF SettlesAlone
<1>8. QED
  BY <1>5, <1>6, <1>7 DEF Moves, RemittancesMove

\* So a statement keeps the invariant if it keeps it for its own handler.
LEMMA MovesKeeps ==
  ASSUME IInv, NEW h \in Handlers, Moves(h), Sound(h)', NoneSkipped => MissesNone(h)',
         \A g \in Handlers \ {h} : Claims(g) /\ Claims(h)' => tx[g].remittance # tx'[h].remittance
  PROVE  IInv'
<1>1. CommittedRows /\ Shape'
  BY DEF IInv, Moves
<1>2. CommittedRows'
  <2>1. /\ remittances' \in [Rows -> [amount : Nat, status : RemittanceStatuses]]
        /\ \A r \in Rows : remittances'[r].status # "none" => ledger.exists
    BY <1>1 DEF Moves, RemittancesMove, CommittedRows
  <2>2. contractLock' \in Handlers \cup {NoOne} /\ ledgerLock' \in Handlers \cup {NoOne}
    BY <1>1 DEF Moves, TakenBy, CommittedRows
  <2>3. QED
    BY <1>1, <2>1, <2>2 DEF Moves, CommittedRows, IsPayments, IsLedger
<1>3. ASSUME NEW g \in Handlers \ {h}
      PROVE  Sound(g)' /\ (MissesNone(g) => MissesNone(g)')
  <2>1. Carries(g) /\ OnItsWay(g) /\ HoldsRows(g) /\ ReadsStand(g)
    BY DEF IInv, Sound
  <2>2. tx'[g] = tx[g] /\ activated' = activated /\ ledger' = ledger /\ payments' = payments
    BY DEF Moves
  <2>3. Carries(g)' /\ OnItsWay(g)'
    BY <2>1, <2>2 DEF Carries, OnItsWay, IsPayments
  <2>4. HoldsRows(g)'
    BY <2>1, <2>2, OthersSee DEF HoldsRows
  <2>5. ReadsStand(g)'
    BY <2>1, <2>2, OthersSee DEF ReadsStand, RightFor
  <2>6. MissesNone(g) => MissesNone(g)'
    BY <2>2, OthersSee DEF MissesNone, TakesTurn
  <2>7. QED
    BY <2>3, <2>4, <2>5, <2>6, OthersSettleAlone DEF Sound
<1>4. NoneSkipped' => NoneSkipped
  <2>1. ~tx[h].skipped
    BY DEF IInv, Sound, OnItsWay, Moves
  <2>2. QED
    BY <2>1 DEF NoneSkipped, Moves
<1>5. CashMatchesPayments'
  BY <1>4 DEF IInv, CashMatchesPayments, NoneSkipped, Moves, Now
<1>6. IsFiniteSet(Started)'
  BY FewStarted DEF IInv, Moves
<1>7. QED
  BY <1>1, <1>2, <1>3, <1>4, <1>5, <1>6 DEF IInv
\* A record written over another but for the fields C.
LEMMA SameFields ==
  ASSUME NEW x, NEW y, NEW C, \A f \in Fields \ C : x[f] = y[f]
  PROVE  /\ "pc" \notin C => x.pc = y.pc
         /\ "kind" \notin C => x.kind = y.kind
         /\ "amount" \notin C => x.amount = y.amount
         /\ "inserted" \notin C => x.inserted = y.inserted
         /\ "target" \notin C => x.target = y.target
         /\ "remittance" \notin C => x.remittance = y.remittance
         /\ "stored" \notin C => x.stored = y.stored
         /\ "total" \notin C => x.total = y.total
         /\ "wrote" \notin C => x.wrote = y.wrote
         /\ "activates" \notin C => x.activates = y.activates
         /\ "own" \notin C => x.own = y.own
         /\ "active" \notin C => x.active = y.active
         /\ "seen" \notin C => x.seen = y.seen
         /\ "existing" \notin C => x.existing = y.existing
         /\ "applicable" \notin C => x.applicable = y.applicable
         /\ "again" \notin C => x.again = y.again
         /\ "alone" \notin C => x.alone = y.alone
         /\ "skipped" \notin C => x.skipped = y.skipped
  BY DEF Fields

IdleLike(new) ==
    /\ new.own = NoLedger /\ new.seen = {} /\ new.total = 0 /\ new.active = FALSE
    /\ new.wrote = FALSE /\ new.activates = FALSE /\ new.alone = FALSE /\ new.skipped = FALSE

LEMMA IdleIs ==
  /\ Idle = [f \in Fields |-> Idle[f]]
  /\ IdleLike(Idle)
  /\ Idle.existing = NoLedger /\ Idle.inserted = {} /\ Idle.target = {} /\ Idle.amount = 0
  BY DEF Idle, IdleLike, Fields

\* A handler that has nothing in hand misses nothing and holds nothing.
LEMMA NothingInHand ==
  ASSUME IInv, NEW h \in Handlers, Shape', IdleLike(tx'[h]), ledgerLock # h, ledgerLock' = ledgerLock,
         tx'[h].pc \notin Syncing
  PROVE  HoldsRows(h)' /\ ReadsStand(h)' /\ MissesNone(h)'
  BY DEF IdleLike, HoldsRows, ReadsStand, MissesNone, Syncing

LEMMA NotHeld ==
  ASSUME IInv, NEW h \in Handlers, tx[h].pc \notin Syncing \cup {"advance"}
  PROVE  ledgerLock # h
  BY DEF IInv, Sound, HoldsRows

LEMMA BeginStep ==
  ASSUME IInv, NEW h \in Handlers, NEW new, new = [f \in Fields |-> new[f]], Begin(h, new),
         IdleLike(new), new.existing \in Ledgers, new.amount \in Nat,
         IsPayments(new.inserted), new.target \subseteq payments,
         new.kind \notin Money => new.inserted = {} /\ new.target = {},
         \/ new.kind = "POST" /\ new.pc = "derive"
         \/ new.kind = "REVERSE" /\ new.pc = "reverse"
         \/ new.kind = "FILE" /\ new.pc = "file" /\ ledger.exists
         \/ new.kind = "PAYOUT" /\ new.pc = "increment" /\ ledger.exists
         \/ /\ new.kind = "CONFIRM" /\ new.pc = "claim"
            /\ new.remittance \in Rows /\ remittances[new.remittance].status # "none"
            /\ new.amount = remittances[new.remittance].amount
         \/ /\ new.kind = "REJECT" /\ new.pc = "reject"
            /\ new.remittance \in Rows /\ remittances[new.remittance].status # "none"
  PROVE  IInv'
<1>1. tx[h].pc = "idle" /\ UNCHANGED <<committed, locks>> /\ Shape /\ CommittedRows
  BY DEF Begin, IInv
<1>2. Shape' /\ tx'[h] = new /\ \A g \in Handlers \ {h} : tx'[g] = tx[g]
  BY <1>1, Updates DEF Begin
<1>3. Moves(h)
  BY <1>1, <1>2 DEF Moves, committed, locks, RemittancesMove, TakenBy, IdleLike
<1>4. HoldsRows(h)' /\ ReadsStand(h)' /\ MissesNone(h)'
  <2>1. ledgerLock # h
    BY <1>1, NotHeld DEF Syncing
  <2>2. new.pc \notin Syncing
    BY DEF Syncing
  <2>3. QED
    BY <1>1, <1>2, <2>1, <2>2, NothingInHand DEF locks
<1>5. Carries(h)'
  <2>1. new.active \in BOOLEAN /\ new.activates \in BOOLEAN
    BY DEF IdleLike
  <2>2. new.pc # "upsert" /\ new.total \in Nat
    BY DEF IdleLike
  <2>3. IsPayments(new.seen)
    BY FS_EmptySet DEF IdleLike, IsPayments
  <2>4. payments' = payments
    BY <1>1 DEF committed
  <2>5. QED
    BY <1>2, <2>1, <2>2, <2>3, <2>4 DEF Carries
<1>6. OnItsWay(h)'
  BY <1>2 DEF OnItsWay, IdleLike, Money, Settling, Syncing
<1>7. ~Claims(h)'
  BY <1>2 DEF Claims
<1>8. SettlesAlone(h)'
  <2>1. remittances[h].status = "none"
    BY <1>1 DEF IInv, Sound, SettlesAlone
  <2>2. new.kind = "CONFIRM" => ledger.exists
    BY <1>1 DEF CommittedRows
  <2>3. QED
    BY <1>1, <1>2, <1>7, <2>1, <2>2 DEF SettlesAlone, committed
<1>9. QED
  BY <1>3, <1>4, <1>5, <1>6, <1>7, <1>8, MovesKeeps DEF Sound

LEMMA PostPaymentStep ==
  ASSUME IInv, NEW h \in Handlers, NEW a \in Amounts, NEW byAgent \in BOOLEAN,
         NEW toCharges \in BOOLEAN, PostPayment(h, a, byAgent, toCharges)
  PROVE  IInv'
<1>1. PICK row : row = [id |-> h, at |-> Cardinality(Started) + 1, amount |-> a, byAgent |-> byAgent,
                        entryType |-> IF activated THEN "INSTALMENT_PAYMENT" ELSE "DEPOSIT",
                        toCharges |-> toCharges]
  OBVIOUS
<1>2. PICK new : new = [Idle EXCEPT !.kind = "POST", !.inserted = {row}, !.pc = "derive"]
  OBVIOUS
<1>3. /\ new = [f \in Fields |-> new[f]] /\ IdleLike(new)
      /\ new.kind = "POST" /\ new.pc = "derive" /\ new.inserted = {row} /\ new.target = {}
      /\ new.existing = NoLedger /\ new.amount = 0
  BY <1>2, IdleIs DEF IdleLike, Fields
<1>4. Begin(h, new)
  BY <1>1, <1>2 DEF PostPayment
<1>5. Cardinality(Started) + 1 \in Nat
  BY FS_CardinalityType DEF IInv
<1>6. IsPayments({row})
  <2>1. row \in PaymentRows
    BY <1>1, <1>5, AmountsAssumption DEF PaymentRows, Rows
  <2>2. QED
    BY <2>1, FS_Singleton DEF IsPayments
<1>7. QED
  BY <1>3, <1>4, <1>6, BeginStep, NoLedgerIsLedger DEF Money

LEMMA ReversePaymentStep ==
  ASSUME IInv, NEW h \in Handlers, NEW p \in payments, ReversePayment(h, p)
  PROVE  IInv'
<1>1. PICK new : new = [Idle EXCEPT !.kind = "REVERSE", !.target = {p}, !.pc = "reverse"]
  OBVIOUS
<1>2. /\ new = [f \in Fields |-> new[f]] /\ IdleLike(new)
      /\ new.kind = "REVERSE" /\ new.pc = "reverse" /\ new.inserted = {} /\ new.target = {p}
      /\ new.existing = NoLedger /\ new.amount = 0
  BY <1>1, IdleIs DEF IdleLike, Fields
<1>3. Begin(h, new) /\ IsPayments({})
  BY <1>1, FS_EmptySet DEF ReversePayment, IsPayments
<1>4. QED
  BY <1>2, <1>3, BeginStep, NoLedgerIsLedger DEF Money

\* Only a row that is there has a balance.
LEMMA OwedMeansRow ==
  ASSUME IInv, Balance(ledger) # 0
  PROVE  ledger.exists
<1>1. Balance(NoLedger) = 0
  BY DEF Balance, NoLedger
<1>2. QED
  BY <1>1 DEF IInv, CommittedRows, IsLedger

LEMMA FileRemittanceStep ==
  ASSUME IInv, NEW h \in Handlers, NEW a \in Amounts, FileRemittance(h, a)
  PROVE  IInv'
<1>1. PICK new : new = [Idle EXCEPT !.kind = "FILE", !.amount = a, !.existing = ledger, !.pc = "file"]
  OBVIOUS
<1>2. /\ new = [f \in Fields |-> new[f]] /\ IdleLike(new)
      /\ new.kind = "FILE" /\ new.pc = "file" /\ new.inserted = {} /\ new.target = {}
      /\ new.existing = ledger /\ new.amount = a
  BY <1>1, IdleIs DEF IdleLike, Fields
<1>3. Begin(h, new) /\ IsPayments({})
  BY <1>1, FS_EmptySet DEF FileRemittance, IsPayments
<1>4. ledger \in Ledgers /\ ledger.exists /\ a \in Nat
  BY OwedMeansRow, AmountsAssumption DEF FileRemittance, IInv, CommittedRows, IsLedger
<1>5. QED
  BY <1>2, <1>3, <1>4, BeginStep DEF Money

LEMMA ConfirmRemittanceStep ==
  ASSUME IInv, NEW h \in Handlers, NEW r \in Rows, ConfirmRemittance(h, r)
  PROVE  IInv'
<1>1. PICK new : new = [Idle EXCEPT !.kind = "CONFIRM", !.remittance = r,
                                    !.amount = remittances[r].amount, !.pc = "claim"]
  OBVIOUS
<1>2. /\ new = [f \in Fields |-> new[f]] /\ IdleLike(new)
      /\ new.kind = "CONFIRM" /\ new.pc = "claim" /\ new.inserted = {} /\ new.target = {}
      /\ new.existing = NoLedger /\ new.amount = remittances[r].amount /\ new.remittance = r
  BY <1>1, IdleIs DEF IdleLike, Fields
<1>3. Begin(h, new) /\ IsPayments({}) /\ remittances[r].status # "none"
  BY <1>1, FS_EmptySet DEF ConfirmRemittance, IsPayments
<1>4. remittances[r].amount \in Nat
  BY DEF IInv, CommittedRows
<1>5. QED
  BY <1>2, <1>3, <1>4, BeginStep, NoLedgerIsLedger DEF Money

LEMMA RejectRemittanceStep ==
  ASSUME IInv, NEW h \in Handlers, NEW r \in Rows, RejectRemittance(h, r)
  PROVE  IInv'
<1>1. PICK new : new = [Idle EXCEPT !.kind = "REJECT", !.remittance = r, !.pc = "reject"]
  OBVIOUS
<1>2. /\ new = [f \in Fields |-> new[f]] /\ IdleLike(new)
      /\ new.kind = "REJECT" /\ new.pc = "reject" /\ new.inserted = {} /\ new.target = {}
      /\ new.existing = NoLedger /\ new.amount = 0 /\ new.remittance = r
  BY <1>1, IdleIs DEF IdleLike, Fields
<1>3. Begin(h, new) /\ IsPayments({}) /\ remittances[r].status # "none"
  BY <1>1, FS_EmptySet DEF RejectRemittance, IsPayments
<1>4. /\ new.existing \in Ledgers /\ new.amount \in Nat
      /\ IsPayments(new.inserted) /\ new.target \subseteq payments
  BY <1>2, <1>3, NoLedgerIsLedger
<1>5. QED
  BY <1>2, <1>3, <1>4, BeginStep

LEMMA PayCommissionStep ==
  ASSUME IInv, NEW h \in Handlers, NEW a \in Amounts, PayCommission(h, a)
  PROVE  IInv'
<1>1. PICK new : new = [Idle EXCEPT !.kind = "PAYOUT", !.amount = a, !.pc = "increment"]
  OBVIOUS
<1>2. /\ new = [f \in Fields |-> new[f]] /\ IdleLike(new)
      /\ new.kind = "PAYOUT" /\ new.pc = "increment" /\ new.inserted = {} /\ new.target = {}
      /\ new.existing = NoLedger /\ new.amount = a
  BY <1>1, IdleIs DEF IdleLike, Fields
<1>3. Begin(h, new) /\ IsPayments({})
  BY <1>1, FS_EmptySet DEF PayCommission, IsPayments
<1>4. a \in Nat \ {0} /\ ledger.exists
  <2>1. Balance(ledger) \in Int
    BY BalanceIsInt DEF IInv, CommittedRows, IsLedger
  <2>2. Balance(ledger) # 0
    BY <2>1, AmountsAssumption DEF PayCommission
  <2>3. QED
    BY <2>2, OwedMeansRow, AmountsAssumption
<1>5. QED
  BY <1>2, <1>3, <1>4, BeginStep, NoLedgerIsLedger DEF Money
-----------------------------------------------------------------------------
(* Remittances. *)

LEMMA FinishStep ==
  ASSUME IInv, NEW h \in Handlers, Finish(h), tx[h].pc \in {"create", "file", "claim", "reject", "reverse"},
         RemittancesMove(h),
         UNCHANGED <<activated, totalPaid, payments, reversed, ledger, settings, locks>>
  PROVE  IInv'
<1>1. PICK new : new = [Idle EXCEPT !.kind = tx[h].kind, !.pc = "done"]
  OBVIOUS
<1>2. /\ new = [f \in Fields |-> new[f]] /\ IdleLike(new)
      /\ new.kind = tx[h].kind /\ new.pc = "done" /\ new.inserted = {} /\ new.target = {}
      /\ new.existing = NoLedger /\ new.amount = 0
  BY <1>1, IdleIs DEF IdleLike, Fields
<1>3. Update(h, new) /\ Shape
  BY <1>1 DEF Finish, IInv
<1>4. Shape' /\ tx'[h] = new /\ \A g \in Handlers \ {h} : tx'[g] = tx[g]
  BY <1>2, <1>3, Updates
<1>5. Moves(h)
  BY <1>2, <1>4 DEF Moves, locks, TakenBy, IdleLike
<1>6. HoldsRows(h)' /\ ReadsStand(h)' /\ MissesNone(h)'
  <2>1. ledgerLock # h
    BY NotHeld DEF Syncing
  <2>2. QED
    BY <1>2, <1>4, <2>1, NothingInHand DEF Syncing, locks
<1>7. Carries(h)'
  <2>1. new.active \in BOOLEAN /\ new.activates \in BOOLEAN
    BY <1>2 DEF IdleLike
  <2>2. new.total \in Nat
    BY <1>2 DEF IdleLike
  <2>3. IsPayments(new.seen) /\ IsPayments({})
    BY <1>2, FS_EmptySet DEF IdleLike, IsPayments
  <2>4. /\ new.existing \in Ledgers /\ new.amount \in Nat /\ new.pc # "upsert"
        /\ IsPayments(new.inserted) /\ new.target \subseteq payments'
    BY <1>2, <2>3, NoLedgerIsLedger
  <2>5. QED
    BY <1>4, <2>1, <2>2, <2>3, <2>4 DEF Carries
<1>8. OnItsWay(h)' /\ ~Claims(h)'
  <2>1. tx[h].kind = new.kind /\ OnItsWay(h)
    BY <1>2 DEF IInv, Sound
  <2>2. QED
    BY <1>2, <1>4, <2>1 DEF OnItsWay, IdleLike, Syncing, Claims
<1>9. SettlesAlone(h)'
  <2>1. SettlesAlone(h)
    BY DEF IInv, Sound
  <2>2. QED
    BY <1>2, <1>4, <1>8, <2>1 DEF SettlesAlone
<1>10. QED
  BY <1>5, <1>6, <1>7, <1>8, <1>9, MovesKeeps DEF Sound

LEMMA CreateRemittanceStep ==
  ASSUME IInv, NEW h \in Handlers, CreateRemittance(h)
  PROVE  IInv'
<1>1. CommittedRows /\ Carries(h) /\ OnItsWay(h) /\ SettlesAlone(h)
  BY DEF IInv, Sound
<1>2. tx[h].pc = "create" /\ tx[h].amount \in Nat /\ ledger.exists /\ remittances[h].status = "none"
  BY <1>1 DEF CreateRemittance, Carries, OnItsWay, SettlesAlone
<1>3. RemittancesMove(h)
  BY <1>1, <1>2 DEF CreateRemittance, RemittancesMove, CommittedRows, RemittanceStatuses, Rows
<1>4. QED
  BY <1>2, <1>3, FinishStep DEF CreateRemittance

LEMMA RejectStep ==
  ASSUME IInv, NEW h \in Handlers, Reject(h)
  PROVE  IInv'
<1>1. CommittedRows /\ SettlesAlone(h) /\ tx[h].pc = "reject"
  BY DEF IInv, Sound, Reject
<1>2. PICK s \in Rows : s = tx[h].remittance /\ remittances[s].status # "none"
  BY <1>1 DEF SettlesAlone
<1>3. RemittancesMove(h)
  BY <1>1, <1>2 DEF Reject, RemittancesMove, CommittedRows, RemittanceStatuses
<1>4. QED
  BY <1>1, <1>3, FinishStep DEF Reject

\* A statement that writes nothing, in the way of a handler that holds nothing yet.
LEMMA GoesOn ==
  ASSUME IInv, NEW h \in Handlers, NEW new, new = [f \in Fields |-> new[f]], Update(h, new),
         UNCHANGED <<committed, locks>>,
         tx[h].pc \notin Syncing \cup {"advance", "idle", "done"},
         new.pc \notin Syncing \cup {"advance", "idle", "done"},
         \A f \in Fields \ {"pc", "existing", "stored", "total"} : new[f] = tx[h][f],
         new.existing \in {tx[h].existing, NoLedger}, new.total \in Nat,
         \/ new.pc \in {"derive", "lock"} /\ tx[h].kind \in Money
         \/ new.pc = "create" /\ tx[h].pc = "file"
         \/ new.pc = "increment" /\ tx[h].pc = "claim" /\ Claimants(tx[h].remittance) = {}
            /\ remittances[tx[h].remittance].status = "PENDING"
  PROVE  IInv'
<1>1. Shape /\ CommittedRows /\ Sound(h)
  BY DEF IInv
<1>2. Shape' /\ tx'[h] = new /\ \A g \in Handlers \ {h} : tx'[g] = tx[g]
  BY <1>1, Updates
<1>3. /\ new.kind = tx[h].kind /\ new.amount = tx[h].amount /\ new.inserted = tx[h].inserted
      /\ new.target = tx[h].target /\ new.remittance = tx[h].remittance /\ new.wrote = tx[h].wrote
      /\ new.activates = tx[h].activates /\ new.own = tx[h].own /\ new.active = tx[h].active
      /\ new.seen = tx[h].seen /\ new.applicable = tx[h].applicable /\ new.alone = tx[h].alone
      /\ new.skipped = tx[h].skipped
  BY SameFields
<1>4. ~tx[h].skipped /\ ~tx[h].alone /\ ledgerLock # h
  BY <1>1, NotHeld DEF Sound, OnItsWay, ReadsStand
<1>5. Moves(h)
  <2>1. new.skipped = FALSE
    BY <1>1, <1>3, <1>4 DEF Sound, OnItsWay
  <2>2. QED
    BY <1>2, <2>1 DEF Moves, committed, locks, RemittancesMove, TakenBy, Syncing
<1>6. Carries(h)'
  BY <1>1, <1>2, <1>3, NoLedgerIsLedger DEF Sound, Carries, committed, Syncing
<1>7. OnItsWay(h)'
  BY <1>1, <1>2, <1>3, <1>4 DEF Sound, OnItsWay, Syncing, Settling, Money
<1>8. HoldsRows(h)'
  BY <1>1, <1>2, <1>3, <1>4 DEF Sound, HoldsRows, locks
<1>9. ReadsStand(h)' /\ MissesNone(h)'
  BY <1>2, <1>3, <1>4 DEF ReadsStand, MissesNone, Syncing
<1>10. \A g \in Handlers \ {h} : Claims(g) /\ Claims(h)' => tx[g].remittance # tx'[h].remittance
  <2>1. Claims(h)' => Claims(h) \/ Claimants(tx[h].remittance) = {}
    BY <1>1, <1>2, <1>3 DEF Claims, Sound, OnItsWay, Money
  <2>2. QED
    BY <1>1, <1>2, <1>3, <2>1 DEF Sound, SettlesAlone, Claims, Claimants
<1>11. SettlesAlone(h)'
  <2>1. remittances' = remittances /\ ledger' = ledger
    BY DEF committed
  <2>2. Claims(h)' => remittances[tx[h].remittance].status = "PENDING"
    BY <1>1, <1>2, <1>3 DEF Claims, Sound, OnItsWay, SettlesAlone, Money
  <2>3. \A g \in Handlers \ {h} : Claims(g)' <=> Claims(g)
    BY <1>2 DEF Claims
  <2>4. new.pc = "create" => remittances[h].status = "none"
    BY <1>1 DEF Sound, SettlesAlone
  <2>5. new.pc \notin {"file", "reject"}
    BY DEF Money
  <2>6. new.kind = "CONFIRM" /\ tx[h].pc # "done"
           => tx[h].remittance \in Rows /\ remittances[tx[h].remittance].status # "none"
              /\ tx[h].amount = remittances[tx[h].remittance].amount
    BY <1>1, <1>3 DEF Sound, SettlesAlone
  <2>7. \A g \in Handlers \ {h} : Claims(h)' /\ Claims(g)' => tx'[g].remittance # tx'[h].remittance
    BY <1>2, <1>10, <2>3
  <2>8. tx[h].kind \in {"FILE", "CONFIRM", "PAYOUT"} => ledger.exists
    BY <1>1 DEF Sound, SettlesAlone
  <2>9. QED
    BY <1>2, <1>3, <2>1, <2>2, <2>4, <2>5, <2>6, <2>7, <2>8 DEF SettlesAlone, Syncing
<1>12. QED
  BY <1>5, <1>6, <1>7, <1>8, <1>9, <1>10, <1>11, MovesKeeps DEF Sound

LEMMA CountPendingStep ==
  ASSUME IInv, NEW h \in Handlers, CountPending(h)
  PROVE  IInv'
<1>1. CASE Finish(h)
  BY <1>1, FinishStep DEF CountPending, RemittancesMove, committed, locks
<1>2. CASE Update(h, [tx[h] EXCEPT !.existing = NoLedger, !.pc = "create"])
  <2>1. PICK new : new = [tx[h] EXCEPT !.existing = NoLedger, !.pc = "create"]
    OBVIOUS
  <2>2. /\ new = [f \in Fields |-> new[f]] /\ new.pc = "create" /\ new.existing = NoLedger
        /\ new.total = tx[h].total
        /\ \A f \in Fields \ {"pc", "existing", "stored", "total"} : new[f] = tx[h][f]
    BY <2>1 DEF IInv, Shape, Fields
  <2>3. tx[h].total \in Nat
    BY DEF IInv, Sound, Carries
  <2>4. QED
    BY <1>2, <2>1, <2>2, <2>3, GoesOn DEF CountPending, Syncing
<1>3. QED
  BY <1>1, <1>2 DEF CountPending

LEMMA ClaimStep ==
  ASSUME IInv, NEW h \in Handlers, Claim(h)
  PROVE  IInv'
<1>1. CASE Finish(h)
  BY <1>1, FinishStep DEF Claim, RemittancesMove, committed, locks
<1>2. CASE remittances[tx[h].remittance].status = "PENDING"
  <2>1. PICK new : new = [tx[h] EXCEPT !.pc = "increment"]
    OBVIOUS
  <2>2. /\ new = [f \in Fields |-> new[f]] /\ new.pc = "increment" /\ new.existing = tx[h].existing
        /\ new.total = tx[h].total
        /\ \A f \in Fields \ {"pc", "existing", "stored", "total"} : new[f] = tx[h][f]
    BY <2>1 DEF IInv, Shape, Fields
  <2>3. tx[h].total \in Nat
    BY DEF IInv, Sound, Carries
  <2>4. QED
    BY <1>2, <2>1, <2>2, <2>3, GoesOn DEF Claim, Syncing
<1>3. QED
  BY <1>1, <1>2 DEF Claim

LEMMA InsertReversalStep ==
  ASSUME IInv, NEW h \in Handlers, InsertReversal(h)
  PROVE  IInv'
<1>1. CASE Finish(h)
  BY <1>1, FinishStep DEF InsertReversal, RemittancesMove, committed, locks
<1>2. CASE Update(h, [tx[h] EXCEPT !.pc = "derive"])
  <2>1. PICK new : new = [tx[h] EXCEPT !.pc = "derive"]
    OBVIOUS
  <2>2. /\ new = [f \in Fields |-> new[f]] /\ new.pc = "derive" /\ new.existing = tx[h].existing
        /\ new.total = tx[h].total
        /\ \A f \in Fields \ {"pc", "existing", "stored", "total"} : new[f] = tx[h][f]
    BY <2>1 DEF IInv, Shape, Fields
  <2>3. tx[h].total \in Nat /\ tx[h].kind \in Money
    BY DEF IInv, Sound, Carries, OnItsWay, InsertReversal, Money
  <2>4. QED
    BY <1>2, <2>1, <2>2, <2>3, GoesOn DEF InsertReversal, Syncing
<1>3. QED
  BY <1>1, <1>2 DEF InsertReversal

LEMMA RecomputeTotalStep ==
  ASSUME IInv, NEW h \in Handlers, RecomputeTotal(h)
  PROVE  IInv'
<1>1. PICK new : new = [tx[h] EXCEPT !.stored = totalPaid, !.total = TowardsPrice(SeenPayments(h)),
                                     !.pc = "lock"]
  OBVIOUS
<1>2. /\ new = [f \in Fields |-> new[f]] /\ new.pc = "lock" /\ new.existing = tx[h].existing
      /\ new.total = TowardsPrice(SeenPayments(h))
      /\ \A f \in Fields \ {"pc", "existing", "stored", "total"} : new[f] = tx[h][f]
  BY <1>1 DEF IInv, Shape, Fields
<1>3. TowardsPrice(SeenPayments(h)) \in Nat /\ tx[h].kind \in Money
  BY Seen, CollectedIsNat DEF IInv, Sound, OnItsWay, RecomputeTotal
<1>4. QED
  BY <1>1, <1>2, <1>3, GoesOn DEF RecomputeTotal, Syncing
-----------------------------------------------------------------------------
(* Money and settlements on the way to their commit. *)

SameErrand(x, y) ==
    /\ x.kind = y.kind /\ x.amount = y.amount /\ x.inserted = y.inserted /\ x.target = y.target
    /\ x.remittance = y.remittance /\ x.skipped = y.skipped

\* A handler goes on with what it came for: it knows what it knew of remittances, and what it
\* reads and holds is what its step says.
LEMMA OnErrand ==
  ASSUME IInv, NEW h \in Handlers, NEW new, new = [f \in Fields |-> new[f]], Update(h, new),
         UNCHANGED committed, TakenBy(h, contractLock, contractLock'),
         TakenBy(h, ledgerLock, ledgerLock'), SameErrand(new, tx[h]),
         tx[h].pc \in (Syncing \ {"commit"}) \cup {"lock", "advance", "increment"},
         new.pc \in Syncing \cup {"advance"}, new.pc = "advance" => tx[h].kind = "POST"
  PROVE  /\ Moves(h) /\ tx'[h] = new
         /\ SeenPayments(h)' = SeenPayments(h)
         /\ ledgerLock' = ledgerLock /\ new.own = tx[h].own => SeenLedger(h)' = SeenLedger(h)
         /\ Carries(h)' /\ HoldsRows(h)' /\ ReadsStand(h)' /\ (NoneSkipped => MissesNone(h)') => IInv'
<1>1. Shape /\ CommittedRows /\ Sound(h)
  BY DEF IInv
<1>2. Shape' /\ tx'[h] = new /\ \A g \in Handlers \ {h} : tx'[g] = tx[g]
  BY <1>1, Updates
<1>3. tx[h].skipped = FALSE
  BY <1>1 DEF Sound, OnItsWay, Syncing
<1>4. Moves(h)
  BY <1>2, <1>3 DEF Moves, committed, RemittancesMove, SameErrand, Syncing
<1>5. SeenPayments(h)' = SeenPayments(h)
  BY <1>2 DEF SeenPayments, committed, SameErrand
<1>6. ledgerLock' = ledgerLock /\ new.own = tx[h].own => SeenLedger(h)' = SeenLedger(h)
  BY <1>2 DEF SeenLedger, committed
<1>7. OnItsWay(h)'
  BY <1>1, <1>2, <1>3 DEF Sound, OnItsWay, SameErrand, Syncing, Money, Settling
<1>8. (\A g \in Handlers \ {h} : Claims(g)' <=> Claims(g)) /\ (Claims(h)' <=> Claims(h))
  BY <1>1, <1>2 DEF Claims, SameErrand, Syncing, Sound, OnItsWay
<1>9. SettlesAlone(h)'
  <2>1. remittances' = remittances /\ ledger' = ledger
    BY DEF committed
  <2>2. SettlesAlone(h)
    BY <1>1 DEF Sound
  <2>3. \A g \in Handlers \ {h} : tx'[g].remittance = tx[g].remittance
    BY <1>2
  <2>4. QED
    BY <1>2, <1>8, <2>1, <2>2, <2>3 DEF SettlesAlone, SameErrand, Syncing
<1>10. \A g \in Handlers \ {h} : Claims(g) /\ Claims(h)' => tx[g].remittance # tx'[h].remittance
  BY <1>1, <1>2, <1>8 DEF Sound, SettlesAlone, SameErrand
<1>11. QED
  BY <1>2, <1>4, <1>5, <1>6, <1>7, <1>9, <1>10, MovesKeeps DEF Sound

LEMMA UpdateContractStep ==
  ASSUME IInv, NEW h \in Handlers, UpdateContract(h)
  PROVE  IInv'
<1>1. PICK wrote \in BOOLEAN : wrote = (tx[h].total # tx[h].stored)
  OBVIOUS
<1>2. PICK new : new = [tx[h] EXCEPT !.wrote = wrote, !.stored = 0, !.pc = "contract"]
  OBVIOUS
<1>3. /\ new = [f \in Fields |-> new[f]] /\ new.wrote = wrote /\ new.pc = "contract"
      /\ \A f \in Fields \ {"wrote", "stored", "pc"} : new[f] = tx[h][f]
  BY <1>2 DEF IInv, Shape, Fields
<1>4. /\ SameErrand(new, tx[h])
      /\ new.activates = tx[h].activates /\ new.own = tx[h].own /\ new.active = tx[h].active
      /\ new.seen = tx[h].seen /\ new.existing = tx[h].existing /\ new.alone = tx[h].alone
      /\ new.total = tx[h].total
  BY <1>3, SameFields DEF SameErrand
<1>5. /\ tx[h].pc = "lock" /\ Update(h, new) /\ UNCHANGED <<committed, ledgerLock>>
      /\ TakenBy(h, contractLock, contractLock') /\ (wrote => contractLock' = h)
  BY <1>1, <1>2 DEF UpdateContract, TakenBy
<1>6. Sound(h) /\ ledgerLock # h /\ tx[h].kind \in Money
  BY <1>5, NotHeld DEF IInv, Syncing, Sound, OnItsWay
<1>7. /\ tx'[h] = new /\ payments' = payments
      /\ Carries(h)' /\ HoldsRows(h)' /\ ReadsStand(h)' /\ (NoneSkipped => MissesNone(h)') => IInv'
  BY <1>3, <1>4, <1>5, OnErrand DEF TakenBy, Syncing, committed
<1>8. Carries(h)'
  BY <1>3, <1>4, <1>6, <1>7 DEF Carries, Sound, SameErrand
<1>9. HoldsRows(h)'
  BY <1>3, <1>4, <1>5, <1>6, <1>7 DEF HoldsRows, Sound, SameErrand, TakenBy, Money, Settling
<1>10. ReadsStand(h)' /\ MissesNone(h)'
  BY <1>3, <1>4, <1>5, <1>6, <1>7 DEF ReadsStand, MissesNone, Sound, Syncing
<1>11. QED
  BY <1>7, <1>8, <1>9, <1>10

LEMMA AdvanceStep ==
  ASSUME IInv, NEW h \in Handlers, AdvanceContractStatus(h)
  PROVE  IInv'
<1>1. PICK activates \in BOOLEAN : activates = Activates(h)
  BY DEF Activates
<1>2. PICK new : new = [tx[h] EXCEPT !.activates = activates, !.again = TRUE, !.pc = "contract"]
  OBVIOUS
<1>3. /\ new = [f \in Fields |-> new[f]] /\ new.activates = activates /\ new.pc = "contract"
      /\ \A f \in Fields \ {"activates", "again", "pc"} : new[f] = tx[h][f]
  BY <1>2 DEF IInv, Shape, Fields
<1>4. /\ SameErrand(new, tx[h])
      /\ new.wrote = tx[h].wrote /\ new.own = tx[h].own /\ new.active = tx[h].active
      /\ new.seen = tx[h].seen /\ new.existing = tx[h].existing /\ new.alone = tx[h].alone
      /\ new.total = tx[h].total
  BY <1>3, SameFields DEF SameErrand
<1>5. /\ tx[h].pc = "advance" /\ Update(h, new) /\ UNCHANGED <<committed, ledgerLock>>
      /\ TakenBy(h, contractLock, contractLock') /\ (activates => contractLock' = h)
  BY <1>1, <1>2 DEF AdvanceContractStatus, TakenBy
<1>6. Sound(h) /\ tx[h].kind = "POST"
  BY <1>5 DEF IInv, Sound, OnItsWay
<1>7. /\ tx'[h] = new /\ payments' = payments /\ ledger' = ledger
      /\ Carries(h)' /\ HoldsRows(h)' /\ ReadsStand(h)' /\ (NoneSkipped => MissesNone(h)') => IInv'
  BY <1>3, <1>4, <1>5, OnErrand DEF TakenBy, Syncing, committed
<1>8. Carries(h)'
  BY <1>3, <1>4, <1>6, <1>7 DEF Carries, Sound, SameErrand
<1>9. HoldsRows(h)'
  BY <1>3, <1>4, <1>5, <1>6, <1>7 DEF HoldsRows, Sound, SameErrand, TakenBy, Settling, Syncing
<1>10. ReadsStand(h)' /\ MissesNone(h)'
  BY <1>3, <1>4, <1>5, <1>6, <1>7 DEF ReadsStand, MissesNone, Sound, Syncing
<1>11. QED
  BY <1>7, <1>8, <1>9, <1>10

LEMMA IncrementStep ==
  ASSUME IInv, NEW h \in Handlers, Increment(h)
  PROVE  IInv'
<1>1. PICK own : own = IF tx[h].kind = "CONFIRM" THEN [ledger EXCEPT !.remitted = @ + tx[h].amount]
                       ELSE [ledger EXCEPT !.paidOut = @ + tx[h].amount]
  OBVIOUS
<1>2. PICK new : new = [tx[h] EXCEPT !.own = own, !.pc = "contract"]
  OBVIOUS
<1>3. /\ new = [f \in Fields |-> new[f]] /\ new.own = own /\ new.pc = "contract"
      /\ \A f \in Fields \ {"own", "pc"} : new[f] = tx[h][f]
  BY <1>2 DEF IInv, Shape, Fields
<1>4. /\ SameErrand(new, tx[h])
      /\ new.wrote = tx[h].wrote /\ new.activates = tx[h].activates /\ new.active = tx[h].active
      /\ new.seen = tx[h].seen /\ new.existing = tx[h].existing /\ new.alone = tx[h].alone
      /\ new.total = tx[h].total
  BY <1>3, SameFields DEF SameErrand
<1>5. /\ tx[h].pc = "increment" /\ Update(h, new) /\ UNCHANGED <<committed, contractLock>>
      /\ TakenBy(h, ledgerLock, ledgerLock') /\ ledgerLock' = h
  BY <1>1, <1>2 DEF Increment, TakenBy
<1>6. Sound(h) /\ tx[h].kind \in Settling /\ CommittedRows
  BY <1>5 DEF IInv, Sound, OnItsWay
<1>7. /\ tx'[h] = new /\ payments' = payments /\ ledger' = ledger
      /\ Carries(h)' /\ HoldsRows(h)' /\ ReadsStand(h)' /\ (NoneSkipped => MissesNone(h)') => IInv'
  BY <1>3, <1>4, <1>5, OnErrand DEF TakenBy, Syncing, committed
<1>8. Carries(h)'
  BY <1>3, <1>4, <1>6, <1>7 DEF Carries, Sound, SameErrand
<1>9. /\ own \in Ledgers /\ own.exists
      /\ own.remitted = IF tx[h].kind = "CONFIRM" THEN ledger.remitted + tx[h].amount ELSE ledger.remitted
  <2>1. ledger \in Ledgers /\ ledger.exists /\ tx[h].amount \in Nat
    BY <1>6 DEF Sound, SettlesAlone, CommittedRows, IsLedger, Carries, Settling
  <2>2. QED
    BY <1>1, <2>1 DEF Ledgers
<1>10. HoldsRows(h)'
  BY <1>3, <1>4, <1>5, <1>6, <1>7, <1>9 DEF HoldsRows, Sound, SameErrand, Syncing
<1>11. ReadsStand(h)' /\ MissesNone(h)'
  BY <1>3, <1>4, <1>5, <1>6, <1>7 DEF ReadsStand, MissesNone, Sound, Syncing
<1>12. QED
  BY <1>7, <1>8, <1>10, <1>11

LEMMA SyncContractStep ==
  ASSUME IInv, NEW h \in Handlers, SyncContract(h)
  PROVE  IInv'
<1>1. PICK active \in BOOLEAN : active = (activated \/ tx[h].activates)
  OBVIOUS
<1>2. PICK new : new = [tx[h] EXCEPT !.active = active, !.alone = TRUE, !.pc = "payments"]
  OBVIOUS
<1>3. /\ new = [f \in Fields |-> new[f]] /\ new.active = active /\ new.pc = "payments"
      /\ \A f \in Fields \ {"active", "alone", "pc"} : new[f] = tx[h][f]
  BY <1>2 DEF IInv, Shape, Fields
<1>4. /\ SameErrand(new, tx[h])
      /\ new.wrote = tx[h].wrote /\ new.activates = tx[h].activates /\ new.own = tx[h].own
      /\ new.seen = tx[h].seen /\ new.existing = tx[h].existing /\ new.total = tx[h].total
  BY <1>3, SameFields DEF SameErrand
<1>5. tx[h].pc = "contract" /\ Update(h, new) /\ UNCHANGED <<committed, locks>>
  BY <1>1, <1>2 DEF SyncContract
<1>6. Sound(h)
  BY DEF IInv
<1>7. /\ tx'[h] = new /\ UNCHANGED <<committed, locks>>
      /\ Carries(h)' /\ HoldsRows(h)' /\ ReadsStand(h)' /\ (NoneSkipped => MissesNone(h)') => IInv'
  BY <1>3, <1>4, <1>5, OnErrand DEF TakenBy, Syncing, locks
<1>8. Carries(h)'
  BY <1>3, <1>4, <1>6, <1>7 DEF Carries, Sound, SameErrand, committed
<1>9. HoldsRows(h)'
  BY <1>3, <1>4, <1>5, <1>6, <1>7 DEF HoldsRows, Sound, SameErrand, Syncing, committed, locks
<1>10. ReadsStand(h)' /\ MissesNone(h)'
  BY <1>1, <1>3, <1>4, <1>7 DEF ReadsStand, MissesNone, Syncing, committed
<1>11. QED
  BY <1>7, <1>8, <1>9, <1>10
LEMMA SyncPaymentsStep ==
  ASSUME IInv, NEW h \in Handlers, SyncPayments(h)
  PROVE  IInv'
<1>1. PICK seen : seen = SeenPayments(h)
  OBVIOUS
<1>2. PICK new : new = [tx[h] EXCEPT !.seen = seen, !.pc = "existing"]
  OBVIOUS
<1>3. /\ new = [f \in Fields |-> new[f]] /\ new.seen = seen /\ new.pc = "existing"
      /\ \A f \in Fields \ {"seen", "pc"} : new[f] = tx[h][f]
  BY <1>2 DEF IInv, Shape, Fields
<1>4. /\ SameErrand(new, tx[h])
      /\ new.wrote = tx[h].wrote /\ new.activates = tx[h].activates /\ new.own = tx[h].own
      /\ new.active = tx[h].active /\ new.existing = tx[h].existing /\ new.total = tx[h].total
      /\ new.alone = tx[h].alone
  BY <1>3, SameFields DEF SameErrand
<1>5. tx[h].pc = "payments" /\ Update(h, new) /\ UNCHANGED <<committed, locks>>
  BY <1>1, <1>2 DEF SyncPayments
<1>6. Sound(h) /\ IsPayments(seen)
  BY <1>1, Seen DEF IInv
<1>7. /\ tx'[h] = new /\ UNCHANGED <<committed, locks>> /\ SeenPayments(h)' = SeenPayments(h)
      /\ Carries(h)' /\ HoldsRows(h)' /\ ReadsStand(h)' /\ (NoneSkipped => MissesNone(h)') => IInv'
  BY <1>3, <1>4, <1>5, OnErrand DEF TakenBy, Syncing, locks
<1>8. Carries(h)'
  BY <1>3, <1>4, <1>6, <1>7 DEF Carries, Sound, SameErrand, committed, IsPayments
<1>9. HoldsRows(h)'
  BY <1>3, <1>4, <1>5, <1>6, <1>7 DEF HoldsRows, Sound, SameErrand, Syncing, committed, locks
<1>10. ReadsStand(h)'
  BY <1>1, <1>3, <1>4, <1>5, <1>6, <1>7 DEF ReadsStand, Sound, Syncing, committed
<1>11. MissesNone(h)'
  BY <1>1, <1>3, <1>7 DEF MissesNone
<1>12. QED
  BY <1>7, <1>8, <1>9, <1>10, <1>11

LEMMA SyncExistingStep ==
  ASSUME IInv, NEW h \in Handlers, SyncExisting(h)
  PROVE  IInv'
<1>1. PICK existing : existing = SeenLedger(h)
  OBVIOUS
<1>2. PICK applicable : applicable = IF existing.rate = NoRate THEN settings ELSE 0
  OBVIOUS
<1>3. PICK new : new = [tx[h] EXCEPT !.existing = existing, !.pc = "upsert", !.applicable = applicable]
  OBVIOUS
<1>4. /\ new = [f \in Fields |-> new[f]] /\ new.existing = existing /\ new.pc = "upsert"
      /\ new.applicable = applicable
      /\ \A f \in Fields \ {"existing", "applicable", "pc"} : new[f] = tx[h][f]
  BY <1>3 DEF IInv, Shape, Fields
<1>5. /\ SameErrand(new, tx[h])
      /\ new.wrote = tx[h].wrote /\ new.activates = tx[h].activates /\ new.own = tx[h].own
      /\ new.active = tx[h].active /\ new.seen = tx[h].seen /\ new.total = tx[h].total
      /\ new.alone = tx[h].alone
  BY <1>4, SameFields DEF SameErrand
<1>6. tx[h].pc = "existing" /\ Update(h, new) /\ UNCHANGED <<committed, locks>>
  BY <1>1, <1>2, <1>3 DEF SyncExisting
<1>7. Sound(h) /\ existing \in Ledgers /\ settings \in Rates /\ (NoneSkipped => MissesNone(h))
  BY <1>1, Seen DEF IInv, IsLedger, CommittedRows
<1>8. /\ tx'[h] = new /\ UNCHANGED <<committed, locks>> /\ SeenPayments(h)' = SeenPayments(h)
      /\ SeenLedger(h)' = SeenLedger(h)
      /\ Carries(h)' /\ HoldsRows(h)' /\ ReadsStand(h)' /\ (NoneSkipped => MissesNone(h)') => IInv'
  BY <1>4, <1>5, <1>6, OnErrand DEF TakenBy, Syncing, locks
<1>9. Carries(h)'
  BY <1>2, <1>4, <1>5, <1>7, <1>8 DEF Carries, Sound, SameErrand, committed
<1>10. HoldsRows(h)'
  BY <1>4, <1>5, <1>6, <1>7, <1>8 DEF HoldsRows, Sound, SameErrand, Syncing, committed, locks
<1>11. ReadsStand(h)'
  BY <1>1, <1>4, <1>5, <1>6, <1>7, <1>8 DEF ReadsStand, Sound, Syncing, committed
<1>12. NoneSkipped => MissesNone(h)'
  BY <1>1, <1>4, <1>5, <1>6, <1>7, <1>8 DEF MissesNone, TakesTurn, SameErrand
<1>13. QED
  BY <1>8, <1>9, <1>10, <1>11, <1>12

\* Nothing to write: what it saw of the row is right, for there is none.
LEMMA LeavesNoRow ==
  ASSUME IInv, NEW h \in Handlers, tx[h].pc = "upsert",
         NothingToSettle(tx[h].seen, tx[h].active, tx[h].existing),
         Update(h, [tx[h] EXCEPT !.seen = {}, !.pc = AfterUpsert(h)]), UNCHANGED <<committed, locks>>
  PROVE  IInv'
<1>1. PICK new : new = [tx[h] EXCEPT !.seen = {}, !.pc = AfterUpsert(h)]
  OBVIOUS
<1>2. /\ new = [f \in Fields |-> new[f]] /\ new.seen = {} /\ new.pc = AfterUpsert(h)
      /\ \A f \in Fields \ {"seen", "pc"} : new[f] = tx[h][f]
  BY <1>1 DEF IInv, Shape, Fields
<1>3. /\ SameErrand(new, tx[h])
      /\ new.wrote = tx[h].wrote /\ new.activates = tx[h].activates /\ new.own = tx[h].own
      /\ new.active = tx[h].active /\ new.existing = tx[h].existing /\ new.total = tx[h].total
      /\ new.alone = tx[h].alone
  BY <1>2, SameFields DEF SameErrand
<1>4. Sound(h) /\ (NoneSkipped => MissesNone(h)) /\ IsLedger(SeenLedger(h)) /\ Update(h, new)
  BY <1>1, Seen DEF IInv
<1>5. new.pc \in {"advance", "commit"} /\ (new.pc = "advance" => tx[h].kind = "POST")
  BY <1>2 DEF AfterUpsert
<1>6. /\ tx'[h] = new /\ UNCHANGED <<committed, locks>> /\ SeenPayments(h)' = SeenPayments(h)
      /\ SeenLedger(h)' = SeenLedger(h)
      /\ Carries(h)' /\ HoldsRows(h)' /\ ReadsStand(h)' /\ (NoneSkipped => MissesNone(h)') => IInv'
  BY <1>2, <1>3, <1>4, <1>5, OnErrand DEF TakenBy, Syncing, locks
<1>7. Carries(h)'
  BY <1>2, <1>3, <1>4, <1>5, <1>6, FS_EmptySet DEF Carries, Sound, SameErrand, committed, IsPayments
<1>8. HoldsRows(h)'
  BY <1>2, <1>3, <1>4, <1>5, <1>6 DEF HoldsRows, Sound, SameErrand, Syncing, committed, locks
<1>9. ReadsStand(h)'
  <2>1. ASSUME tx[h].alone
        PROVE  RightFor(SeenLedger(h), SeenPayments(h), activated \/ tx[h].activates)
    BY <1>4, <2>1, NothingIsRight DEF Sound, ReadsStand
  <2>2. activated' = activated
    BY <1>6 DEF committed
  <2>3. QED
    BY <1>3, <1>5, <1>6, <2>1, <2>2 DEF ReadsStand, Syncing
<1>10. NoneSkipped => MissesNone(h)'
  <2>1. ASSUME NoneSkipped, TakesTurn(h)
        PROVE  /\ SeenLedger(h).collected = Collected(SeenPayments(h))
               /\ ledgerLock = h \/ ~ledger.exists
    <3>1. tx[h].seen = SeenPayments(h) /\ ~SeenLedger(h).exists
      BY <1>4, <2>1 DEF MissesNone, NothingToSettle
    <3>2. SeenLedger(h) = NoLedger /\ Collected(SeenPayments(h)) = 0
      BY <1>4, <3>1 DEF IsLedger, NothingToSettle
    <3>3. QED
      BY <3>1, <3>2 DEF NoLedger, SeenLedger
  <2>2. TakesTurn(h)' <=> TakesTurn(h)
    BY <1>3, <1>6 DEF TakesTurn, SameErrand
  <2>3. QED
    BY <1>5, <1>6, <2>1, <2>2 DEF MissesNone, committed, locks
<1>11. QED
  BY <1>6, <1>7, <1>8, <1>9, <1>10

LEMMA WritesRow ==
  ASSUME IInv, NEW h \in Handlers, tx[h].pc = "upsert", NEW own,
         own = Derived(SeenLedger(h), tx[h].seen, tx[h].active, tx[h].existing, tx[h].applicable),
         ledgerLock \in {NoOne, h}, ledgerLock' = h,
         Update(h, [tx[h] EXCEPT !.own = own, !.seen = {}, !.existing = NoLedger, !.active = FALSE,
                                 !.applicable = 0, !.pc = AfterUpsert(h)]),
         UNCHANGED <<committed, contractLock>>
  PROVE  IInv'
<1>1. PICK new : new = [tx[h] EXCEPT !.own = own, !.seen = {}, !.existing = NoLedger, !.active = FALSE,
                                     !.applicable = 0, !.pc = AfterUpsert(h)]
  OBVIOUS
<1>2. /\ new = [f \in Fields |-> new[f]] /\ new.seen = {} /\ new.pc = AfterUpsert(h)
      /\ new.own = own /\ new.existing = NoLedger /\ new.active = FALSE
      /\ \A f \in Fields \ {"own", "seen", "existing", "active", "applicable", "pc"} : new[f] = tx[h][f]
  <2>1. tx[h] = [f \in Fields |-> tx[h][f]]
    BY DEF IInv, Shape
  <2>2. PICK mid : mid = [tx[h] EXCEPT !.own = own, !.seen = {}, !.pc = AfterUpsert(h)]
    OBVIOUS
  <2>3. /\ mid = [f \in Fields |-> mid[f]]
        /\ mid.own = own /\ mid.seen = {} /\ mid.pc = AfterUpsert(h)
        /\ \A f \in Fields \ {"own", "seen", "pc"} : mid[f] = tx[h][f]
    BY <2>1, <2>2 DEF Fields
  <2>4. PICK no : no = FALSE
    OBVIOUS
  <2>5. new = [mid EXCEPT !.existing = NoLedger, !.active = no, !.applicable = 0]
    BY <1>1, <2>2, <2>4 DEF Fields
  <2>6. /\ new = [f \in Fields |-> new[f]] /\ new.existing = NoLedger /\ new.active = no
        /\ \A f \in Fields \ {"existing", "active", "applicable"} : new[f] = mid[f]
    BY <2>3, <2>5 DEF Fields
  <2>7. new.own = own /\ new.seen = {} /\ new.pc = AfterUpsert(h)
    BY <2>3, <2>6 DEF Fields
  <2>8. QED
    BY <2>3, <2>4, <2>6, <2>7
<1>3. /\ SameErrand(new, tx[h])
      /\ new.wrote = tx[h].wrote /\ new.activates = tx[h].activates /\ new.total = tx[h].total
      /\ new.alone = tx[h].alone
  BY <1>2, SameFields DEF SameErrand
<1>4. Sound(h) /\ (NoneSkipped => MissesNone(h)) /\ SeenLedger(h) \in Ledgers /\ Update(h, new)
  BY <1>1, Seen DEF IInv, IsLedger
<1>5. new.pc \in {"advance", "commit"} /\ (new.pc = "advance" => tx[h].kind = "POST")
  BY <1>2 DEF AfterUpsert
<1>6. /\ own \in Ledgers /\ own.exists
      /\ own.collected = Collected(tx[h].seen)
      /\ own.remitted = SeenLedger(h).remitted
      /\ tx[h].existing = SeenLedger(h) => RightFor(own, tx[h].seen, tx[h].active)
  BY <1>4, DerivedIs DEF Sound, Carries
<1>7. /\ tx'[h] = new /\ UNCHANGED <<committed, contractLock>> /\ SeenPayments(h)' = SeenPayments(h)
      /\ Carries(h)' /\ HoldsRows(h)' /\ ReadsStand(h)' /\ (NoneSkipped => MissesNone(h)') => IInv'
  BY <1>2, <1>3, <1>4, <1>5, OnErrand DEF TakenBy, Syncing
<1>8. Carries(h)'
  <2>1. new.active \in BOOLEAN
    BY <1>2
  <2>2. IsPayments(new.seen)
    BY <1>2, FS_EmptySet DEF IsPayments
  <2>3. QED
    BY <1>2, <1>3, <1>4, <1>5, <1>7, <2>1, <2>2, NoLedgerIsLedger DEF Carries, Sound, SameErrand, committed
<1>9. HoldsRows(h)'
  <2>1. own.remitted = IF tx[h].kind = "CONFIRM" THEN ledger.remitted + tx[h].amount ELSE ledger.remitted
    BY <1>4, <1>6 DEF Sound, HoldsRows, SeenLedger, Syncing, Settling
  <2>2. QED
    BY <1>2, <1>3, <1>4, <1>5, <1>6, <1>7, <2>1 DEF HoldsRows, Sound, SameErrand, Syncing, committed
<1>10. SeenLedger(h)' = own
  BY <1>2, <1>7 DEF SeenLedger
<1>11. ReadsStand(h)'
  <2>1. ASSUME tx[h].alone
        PROVE  RightFor(own, SeenPayments(h), activated \/ tx[h].activates)
    BY <1>4, <1>6, <2>1 DEF Sound, ReadsStand
  <2>2. activated' = activated
    BY <1>7 DEF committed
  <2>3. QED
    BY <1>3, <1>5, <1>7, <1>10, <2>1, <2>2 DEF ReadsStand, Syncing
<1>12. NoneSkipped => MissesNone(h)'
  <2>1. ASSUME NoneSkipped, TakesTurn(h)
        PROVE  own.collected = Collected(SeenPayments(h))
    BY <1>4, <1>6, <2>1 DEF MissesNone
  <2>2. TakesTurn(h)' <=> TakesTurn(h)
    BY <1>3, <1>7 DEF TakesTurn, SameErrand
  <2>3. QED
    BY <1>5, <1>7, <1>10, <2>1, <2>2 DEF MissesNone
<1>13. QED
  BY <1>7, <1>8, <1>9, <1>11, <1>12

LEMMA SyncUpsertStep ==
  ASSUME IInv, NEW h \in Handlers, SyncUpsert(h)
  PROVE  IInv'
<1>1. CASE NothingToSettle(tx[h].seen, tx[h].active, tx[h].existing)
  BY <1>1, LeavesNoRow DEF SyncUpsert, locks
<1>2. CASE ~NothingToSettle(tx[h].seen, tx[h].active, tx[h].existing)
  BY <1>2, WritesRow DEF SyncUpsert
<1>3. QED
  BY <1>1, <1>2
-----------------------------------------------------------------------------
(* Commits. *)

Rests(new) ==
    /\ new.pc = "done" /\ new.own = NoLedger /\ new.seen = {} /\ new.total = 0
    /\ new.active = FALSE /\ new.wrote = FALSE /\ new.activates = FALSE /\ new.alone = FALSE
    /\ new.inserted = {} /\ new.target = {} /\ new.amount = 0 /\ new.existing = NoLedger

\* What another handler knows is what it knew, but that it is alone no more.
KnowsTheSame(x, y) ==
    /\ SameErrand(x, y)
    /\ x.pc = y.pc /\ x.total = y.total /\ x.wrote = y.wrote /\ x.activates = y.activates
    /\ x.own = y.own /\ x.active = y.active /\ x.seen = y.seen /\ x.existing = y.existing
    /\ x.applicable = y.applicable /\ x.alone = FALSE

LEMMA CommitEnds ==
  ASSUME IInv, NEW h \in Handlers, Commit(h)
  PROVE  /\ Shape'
         /\ Rests(tx'[h]) /\ tx'[h].kind = tx[h].kind /\ tx'[h].skipped = Skips(h)
         /\ \A g \in Handlers \ {h} : KnowsTheSame(tx'[g], tx[g])
<1>1. Shape
  BY DEF IInv
<1>2. PICK skips \in BOOLEAN : skips = Skips(h)
  BY DEF Skips
<1>3. PICK new : new = [Idle EXCEPT !.kind = tx[h].kind, !.pc = "done", !.skipped = skips]
  OBVIOUS
<1>4. /\ new = [f \in Fields |-> new[f]] /\ new.kind = tx[h].kind /\ new.pc = "done"
      /\ new.skipped = skips
      /\ \A f \in Fields \ {"kind", "pc", "skipped"} : new[f] = Idle[f]
  BY <1>3, IdleIs DEF Fields
<1>5. Rests(new)
  BY <1>4, SameFields, IdleIs DEF Rests, IdleLike
<1>6. PICK no : no = FALSE
  OBVIOUS
<1>7. tx' = [g \in Handlers |-> IF g = h THEN new ELSE [tx[g] EXCEPT !.alone = no]]
  BY <1>2, <1>3, <1>6 DEF Commit
<1>8. ASSUME NEW g \in Handlers \ {h}
      PROVE  tx'[g] = [f \in Fields |-> tx'[g][f]] /\ KnowsTheSame(tx'[g], tx[g])
  <2>1. tx[g] = [f \in Fields |-> tx[g][f]]
    BY <1>1 DEF Shape
  <2>2. tx'[g] = [tx[g] EXCEPT !.alone = no]
    BY <1>7
  <2>3. /\ tx'[g] = [f \in Fields |-> tx'[g][f]] /\ tx'[g].alone = no
        /\ \A f \in Fields \ {"alone"} : tx'[g][f] = tx[g][f]
    BY <2>1, <2>2 DEF Fields
  <2>4. QED
    BY <1>6, <2>3, SameFields DEF KnowsTheSame, SameErrand
<1>9. tx'[h] = new
  BY <1>7
<1>10. Shape'
  <2>1. tx' = [g \in Handlers |-> tx'[g]]
    BY <1>7
  <2>2. \A g \in Handlers : tx'[g] = [f \in Fields |-> tx'[g][f]]
    BY <1>4, <1>8, <1>9
  <2>3. QED
    BY <2>1, <2>2 DEF Shape
<1>11. QED
  BY <1>2, <1>4, <1>5, <1>8, <1>9, <1>10

\* A confirmation changes its remittance's status and no other row's.
LEMMA CommitConfirms ==
  ASSUME IInv, NEW h \in Handlers, Commit(h)
  PROVE  /\ remittances' \in [Rows -> [amount : Nat, status : RemittanceStatuses]]
         /\ \A r \in Rows : /\ remittances'[r].amount = remittances[r].amount
                            /\ remittances'[r].status = "none" <=> remittances[r].status = "none"
         /\ \A g \in Handlers \ {h} : Claims(g) => remittances'[tx[g].remittance] = remittances[tx[g].remittance]
         /\ tx[h].kind = "CONFIRM" =>
               /\ tx[h].remittance \in Rows
               /\ remittances[tx[h].remittance].status = "PENDING"
               /\ remittances'[tx[h].remittance].status = "CONFIRMED"
               /\ tx[h].amount = remittances[tx[h].remittance].amount
<1>1. CommittedRows /\ SettlesAlone(h) /\ tx[h].pc = "commit"
  BY DEF IInv, Sound, Commit
<1>2. CASE tx[h].kind # "CONFIRM"
  BY <1>1, <1>2 DEF Commit, CommittedRows
<1>3. CASE tx[h].kind = "CONFIRM"
  <2>1. PICK s \in Rows : /\ s = tx[h].remittance /\ remittances[s].status = "PENDING"
                          /\ tx[h].amount = remittances[s].amount
    BY <1>1, <1>3 DEF SettlesAlone, Claims
  <2>2. remittances' = [remittances EXCEPT ![s].status = "CONFIRMED"]
    BY <1>3, <2>1 DEF Commit
  <2>3. \A g \in Handlers \ {h} : Claims(g) => tx[g].remittance \in Rows \ {s}
    BY <1>1, <1>3, <2>1 DEF IInv, Sound, SettlesAlone, Claims
  <2>4. remittances \in [Rows -> [amount : Nat, status : RemittanceStatuses]]
    BY <1>1 DEF CommittedRows
  <2>5. remittances' \in [Rows -> [amount : Nat, status : RemittanceStatuses]]
    BY <2>2, <2>4 DEF RemittanceStatuses
  <2>6. /\ remittances'[s].status = "CONFIRMED" /\ remittances'[s].amount = remittances[s].amount
        /\ \A r \in Rows \ {s} : remittances'[r] = remittances[r]
    BY <2>2, <2>4
  <2>7. QED
    BY <2>1, <2>3, <2>5, <2>6
<1>4. QED
  BY <1>2, <1>3

LEMMA CommitsRows ==
  ASSUME IInv, NEW h \in Handlers, Commit(h)
  PROVE  /\ CommittedRows'
         /\ payments \subseteq payments'
         /\ Now' = SeenPayments(h) /\ ledger' = SeenLedger(h)
         /\ ledger.exists => ledger'.exists
         /\ ledgerLock' # h /\ contractLock' # h
         /\ \A g \in Handlers \ {h} : /\ contractLock = g => contractLock' = g
                                      /\ ledgerLock' = g <=> ledgerLock = g
<1>1. CommittedRows /\ Carries(h) /\ HoldsRows(h)
  BY DEF IInv, Sound
<1>2. activated' \in BOOLEAN
  BY DEF Commit
<1>3. totalPaid' \in Nat
  BY Seen DEF Commit
<1>4. IsPayments(payments') /\ payments \subseteq payments'
  BY <1>1, FS_Union DEF Commit, CommittedRows, Carries, IsPayments
<1>5. reversed' \subseteq Rows
  <2>1. \A p \in tx[h].target : p.id \in Rows
    BY <1>1 DEF Carries, CommittedRows, IsPayments, PaymentRows
  <2>2. QED
    BY <1>1, <2>1 DEF Commit, CommittedRows
<1>6. ledger' = SeenLedger(h) /\ IsLedger(ledger') /\ (ledger.exists => ledger'.exists)
  BY <1>1, Seen DEF Commit, SeenLedger, HoldsRows
<1>7. /\ contractLock' \in Handlers \cup {NoOne} /\ ledgerLock' \in Handlers \cup {NoOne}
      /\ ledgerLock' # h /\ contractLock' # h
      /\ \A g \in Handlers \ {h} : /\ contractLock = g => contractLock' = g
                                   /\ ledgerLock' = g <=> ledgerLock = g
  BY <1>1, HandlersAssumption DEF Commit, Free, CommittedRows
<1>8. \A r \in Rows : remittances'[r].status # "none" => ledger'.exists
  BY <1>1, <1>6, CommitConfirms DEF CommittedRows
<1>9. CommittedRows'
  BY <1>1, <1>2, <1>3, <1>4, <1>5, <1>6, <1>7, <1>8, CommitConfirms DEF CommittedRows, Commit
<1>10. Now' = SeenPayments(h)
  BY DEF Commit, Now, SeenPayments
<1>11. QED
  BY <1>4, <1>6, <1>7, <1>9, <1>10

LEMMA CommitSound ==
  ASSUME IInv, NEW h \in Handlers, Commit(h)
  PROVE  Sound(h)'
<1>1. /\ Rests(tx'[h]) /\ tx'[h].kind = tx[h].kind
      /\ OnItsWay(h) /\ SettlesAlone(h)
      /\ ledgerLock' # h /\ (ledger.exists => ledger'.exists)
  BY CommitEnds, CommitsRows DEF IInv, Sound
<1>2. Carries(h)'
  <2>1. tx'[h].active \in BOOLEAN /\ tx'[h].activates \in BOOLEAN
    BY <1>1 DEF Rests
  <2>2. IsPayments({})
    BY FS_EmptySet DEF IsPayments
  <2>3. QED
    BY <1>1, <2>1, <2>2, NoLedgerIsLedger DEF Carries, Rests
<1>3. OnItsWay(h)'
  BY <1>1 DEF OnItsWay, Rests, Syncing
<1>4. HoldsRows(h)'
  BY <1>1 DEF HoldsRows, Rests, Syncing
<1>5. SettlesAlone(h)'
  BY <1>1 DEF SettlesAlone, Rests, Claims
<1>6. ReadsStand(h)'
  BY <1>1 DEF ReadsStand, Rests
<1>7. QED
  BY <1>2, <1>3, <1>4, <1>5, <1>6 DEF Sound

LEMMA CommitOthersSound ==
  ASSUME IInv, NEW h \in Handlers, Commit(h), NEW g \in Handlers \ {h}
  PROVE  Sound(g)'
<1>1. /\ KnowsTheSame(tx'[g], tx[g]) /\ Carries(g) /\ OnItsWay(g) /\ HoldsRows(g) /\ SettlesAlone(g)
      /\ payments \subseteq payments' /\ ledger' = SeenLedger(h)
      /\ ledger.exists => ledger'.exists
      /\ contractLock = g => contractLock' = g
      /\ ledgerLock' = g <=> ledgerLock = g
  BY CommitEnds, CommitsRows DEF IInv, Sound
<1>2. Carries(g)'
  BY <1>1 DEF Carries, KnowsTheSame, SameErrand
<1>3. OnItsWay(g)'
  BY <1>1 DEF OnItsWay, KnowsTheSame, SameErrand
<1>4. HoldsRows(g)'
  <2>1. ledgerLock = g => ledger' = ledger
    BY <1>1 DEF SeenLedger
  <2>2. QED
    BY <1>1, <2>1 DEF HoldsRows, KnowsTheSame, SameErrand
<1>5. SettlesAlone(g)'
  <2>1. Claims(g)' <=> Claims(g)
    BY <1>1 DEF Claims, KnowsTheSame, SameErrand
  <2>2. \A f \in Handlers \ {g} : Claims(f)' => Claims(f) /\ tx'[f].remittance = tx[f].remittance
    BY CommitEnds DEF Claims, KnowsTheSame, SameErrand, Rests
  <2>3. g \in Rows
    BY DEF Rows
  <2>4. /\ \A r \in Rows : /\ remittances'[r].amount = remittances[r].amount
                           /\ remittances'[r].status = "none" <=> remittances[r].status = "none"
        /\ Claims(g) => remittances'[tx[g].remittance] = remittances[tx[g].remittance]
    BY CommitConfirms
  <2>5. /\ tx'[g].kind = tx[g].kind /\ tx'[g].pc = tx[g].pc /\ tx'[g].amount = tx[g].amount
        /\ tx'[g].remittance = tx[g].remittance
    BY <1>1 DEF KnowsTheSame, SameErrand
  <2>6. QED
    BY <1>1, <2>1, <2>2, <2>3, <2>4, <2>5 DEF SettlesAlone
<1>6. ReadsStand(g)'
  BY <1>1 DEF ReadsStand, KnowsTheSame
<1>7. QED
  BY <1>2, <1>3, <1>4, <1>5, <1>6 DEF Sound

\* Unless money skipped the contract's row: who commits has the row right, and whoever
\* else holds a lock sees no change.
LEMMA CommitMissesNone ==
  ASSUME IInv, NEW h \in Handlers, Commit(h), NoneSkipped'
  PROVE  /\ ledger'.collected = Collected(Now')
         /\ \A g \in Handlers : MissesNone(g)'
<1>1. Sound(h) /\ tx[h].pc = "commit"
  BY DEF IInv, Commit
<1>2. NoneSkipped /\ ~Skips(h)
  <2>1. ~tx[h].skipped
    BY <1>1 DEF Sound, OnItsWay
  <2>2. ~tx'[h].skipped
    BY DEF NoneSkipped
  <2>3. tx'[h].skipped = Skips(h) /\ \A g \in Handlers \ {h} : tx'[g].skipped = tx[g].skipped
    BY CommitEnds DEF KnowsTheSame, SameErrand
  <2>4. ~Skips(h)
    BY <2>2, <2>3
  <2>5. NoneSkipped
    BY <2>1, <2>3 DEF NoneSkipped
  <2>6. QED
    BY <2>4, <2>5
<1>3. tx[h].kind \in Settling \/ (tx[h].kind \in Money /\ tx[h].wrote)
  BY <1>1, <1>2 DEF Sound, OnItsWay, Syncing, Skips, Money
<1>4. /\ SeenLedger(h).collected = Collected(SeenPayments(h))
      /\ ledgerLock = h \/ ~ledger.exists
  BY <1>1, <1>2, <1>3 DEF IInv, MissesNone, TakesTurn
<1>5. ledger'.collected = Collected(Now')
  BY <1>4, CommitsRows
<1>6. ~TakesTurn(h)' \/ tx'[h].pc = "done"
  BY CommitEnds DEF Rests
<1>7. ASSUME NEW g \in Handlers \ {h}
      PROVE  MissesNone(g)'
  <2>1. Sound(g) /\ MissesNone(g) /\ KnowsTheSame(tx'[g], tx[g]) /\ (TakesTurn(g)' <=> TakesTurn(g))
    BY <1>2, CommitEnds DEF IInv, TakesTurn, KnowsTheSame, SameErrand
  <2>2. CASE tx[h].kind \in Settling
    <3>1. payments' = payments /\ reversed' = reversed
      BY <1>1, <2>2 DEF Sound, OnItsWay, Commit, Money, Settling
    <3>2. SeenPayments(g)' = SeenPayments(g)
      BY <2>1, <3>1 DEF SeenPayments, KnowsTheSame, SameErrand
    <3>3. ledgerLock = h /\ ledger.exists
      BY <1>1, <2>2 DEF Sound, HoldsRows, SettlesAlone, Syncing, Settling
    <3>4. SeenLedger(g).exists
      BY <3>3 DEF SeenLedger
    <3>5. QED
      BY <2>1, <3>2, <3>3, <3>4 DEF MissesNone, KnowsTheSame
  <2>3. CASE tx[h].kind \in Money /\ tx[h].wrote
    <3>1. ~tx[g].wrote
      BY <1>1, <2>1, <2>3 DEF Sound, HoldsRows
    <3>2. TakesTurn(g) /\ tx[g].pc \in Syncing => ledgerLock = g /\ ledger.exists
      BY <2>1, <3>1 DEF Sound, HoldsRows, SettlesAlone, TakesTurn, Settling
    <3>3. ~(TakesTurn(g) /\ tx[g].pc \in Syncing)
      BY <1>4, <3>2
    <3>4. QED
      BY <2>1, <3>3 DEF MissesNone, Syncing, KnowsTheSame
  <2>4. QED
    BY <1>3, <2>2, <2>3
<1>8. QED
  BY <1>5, <1>6, <1>7 DEF MissesNone

LEMMA CommitStep ==
  ASSUME IInv, NEW h \in Handlers, Commit(h)
  PROVE  IInv'
<1>1. Shape' /\ \A g \in Handlers \ {h} : KnowsTheSame(tx'[g], tx[g])
  BY CommitEnds
<1>2. CommittedRows'
  BY CommitsRows
<1>3. IsFiniteSet(Started)'
  BY <1>1, FewStarted DEF IInv, KnowsTheSame
<1>4. \A g \in Handlers : Sound(g)'
  BY CommitSound, CommitOthersSound
<1>5. CashMatchesPayments' /\ (NoneSkipped' => \A g \in Handlers : MissesNone(g)')
  BY CommitMissesNone DEF CashMatchesPayments, NoneSkipped
<1>6. QED
  BY <1>1, <1>2, <1>3, <1>4, <1>5 DEF IInv
-----------------------------------------------------------------------------
LEMMA ChangeSettingsStep ==
  ASSUME IInv, ChangeSettings
  PROVE  IInv'
<1>1. settings' \in Rates
  BY DEF ChangeSettings
<1>2. UNCHANGED <<activated, totalPaid, payments, reversed, remittances, ledger, locks, tx>>
  BY DEF ChangeSettings
<1>3. CommittedRows'
  BY <1>1, <1>2 DEF IInv, CommittedRows, IsPayments, IsLedger, locks
<1>4. ASSUME NEW h \in Handlers
      PROVE  Sound(h)' /\ (MissesNone(h) => MissesNone(h)')
  <2>1. SeenPayments(h)' = SeenPayments(h) /\ SeenLedger(h)' = SeenLedger(h)
    BY <1>2 DEF SeenPayments, SeenLedger, locks
  <2>2. Sound(h)
    BY DEF IInv
  <2>3. Carries(h)' /\ OnItsWay(h)'
    BY <1>2, <2>2 DEF Sound, Carries, OnItsWay
  <2>4. HoldsRows(h)' /\ SettlesAlone(h)'
    BY <1>2, <2>2 DEF Sound, HoldsRows, SettlesAlone, Claims, locks
  <2>5. ReadsStand(h)'
    BY <1>2, <2>1, <2>2 DEF Sound, ReadsStand, RightFor
  <2>6. MissesNone(h) => MissesNone(h)'
    BY <1>2, <2>1 DEF MissesNone, TakesTurn, locks
  <2>7. QED
    BY <2>3, <2>4, <2>5, <2>6 DEF Sound
<1>5. IsFiniteSet(Started)' /\ Shape'
  BY <1>2 DEF IInv, Started, Shape
<1>6. CashMatchesPayments' /\ (NoneSkipped' => NoneSkipped)
  BY <1>2 DEF IInv, CashMatchesPayments, NoneSkipped, Now
<1>7. QED
  BY <1>3, <1>4, <1>5, <1>6 DEF IInv

LEMMA StutterStep ==
  ASSUME IInv, UNCHANGED vars
  PROVE  IInv'
<1>1. UNCHANGED <<committed, locks, tx>>
  BY DEF vars, committed, locks
<1>2. \A h \in Handlers : (SeenPayments(h)' = SeenPayments(h)) /\ (SeenLedger(h)' = SeenLedger(h))
  BY <1>1 DEF SeenPayments, SeenLedger, committed, locks
<1>3. CommittedRows' /\ Shape' /\ IsFiniteSet(Started)'
  BY <1>1 DEF IInv, CommittedRows, IsPayments, IsLedger, Shape, Started, committed, locks
<1>4. ASSUME NEW h \in Handlers
      PROVE  Sound(h)' /\ (MissesNone(h) => MissesNone(h)')
  <2>1. Sound(h)
    BY DEF IInv
  <2>2. Carries(h)' /\ OnItsWay(h)'
    BY <1>1, <2>1 DEF Sound, Carries, OnItsWay, committed
  <2>3. HoldsRows(h)' /\ SettlesAlone(h)'
    BY <1>1, <2>1 DEF Sound, HoldsRows, SettlesAlone, Claims, committed, locks
  <2>4. ReadsStand(h)'
    BY <1>1, <1>2, <2>1 DEF Sound, ReadsStand, RightFor, committed
  <2>5. MissesNone(h) => MissesNone(h)'
    BY <1>1, <1>2 DEF MissesNone, TakesTurn, committed, locks
  <2>6. QED
    BY <2>2, <2>3, <2>4, <2>5 DEF Sound
<1>5. CashMatchesPayments' /\ (NoneSkipped' => NoneSkipped)
  BY <1>1 DEF IInv, CashMatchesPayments, NoneSkipped, Now, committed
<1>6. QED
  BY <1>3, <1>4, <1>5 DEF IInv

LEMMA NextIInv ==
  ASSUME IInv, [Next]_vars
  PROVE  IInv'
<1>1. CASE ChangeSettings
  BY <1>1, ChangeSettingsStep
<1>2. ASSUME NEW h \in Handlers, NEW a \in Amounts, NEW byAgent \in BOOLEAN, NEW toCharges \in BOOLEAN,
             PostPayment(h, a, byAgent, toCharges)
      PROVE  IInv'
  BY <1>2, PostPaymentStep
<1>3. ASSUME NEW h \in Handlers, NEW p \in payments, ReversePayment(h, p)
      PROVE  IInv'
  BY <1>3, ReversePaymentStep
<1>4. ASSUME NEW h \in Handlers, NEW a \in Amounts, FileRemittance(h, a) \/ PayCommission(h, a)
      PROVE  IInv'
  BY <1>4, FileRemittanceStep, PayCommissionStep
<1>5. ASSUME NEW h \in Handlers, NEW r \in Rows, ConfirmRemittance(h, r) \/ RejectRemittance(h, r)
      PROVE  IInv'
  BY <1>5, ConfirmRemittanceStep, RejectRemittanceStep
<1>6. ASSUME NEW h \in Handlers, Step(h)
      PROVE  IInv'
  <2>1. CASE CountPending(h) \/ CreateRemittance(h) \/ Claim(h) \/ Reject(h) \/ Increment(h)
    BY <2>1, CountPendingStep, CreateRemittanceStep, ClaimStep, RejectStep, IncrementStep
  <2>2. CASE InsertReversal(h) \/ RecomputeTotal(h) \/ UpdateContract(h) \/ AdvanceContractStatus(h)
    BY <2>2, InsertReversalStep, RecomputeTotalStep, UpdateContractStep, AdvanceStep
  <2>3. CASE SyncContract(h) \/ SyncPayments(h) \/ SyncExisting(h) \/ SyncUpsert(h) \/ Commit(h)
    BY <2>3, SyncContractStep, SyncPaymentsStep, SyncExistingStep, SyncUpsertStep, CommitStep
  <2>4. QED
    BY <1>6, <2>1, <2>2, <2>3 DEF Step
<1>7. CASE UNCHANGED vars
  BY <1>7, StutterStep
<1>8. QED
  BY <1>1, <1>2, <1>3, <1>4, <1>5, <1>6, <1>7 DEF Next

\* The invariant holds of every behaviour.
THEOREM Invariance == Spec => []IInv
<1>1. IInv /\ [Next]_vars => IInv'
  BY NextIInv
<1>2. QED
  BY <1>1, InitIInv, PTL DEF Spec
-----------------------------------------------------------------------------
(* What follows from it. *)

\* The rows keep their shape, and what a handler has written and not committed is written
\* under its row's lock (the updates of recomputeContract, advanceContractStatus and
\* syncAgentLedger).
THEOREM RowsAreTyped == Spec => []TypeOK
<1>1. IInv => TypeOK
  <2>1. SUFFICES ASSUME IInv
                 PROVE  TypeOK
    OBVIOUS
  <2>2. CommittedRows /\ \A h \in Handlers : HoldsRows(h)
    BY <2>1 DEF IInv, Sound
  <2>3. payments \in SUBSET [id : Rows, at : Nat, amount : Nat, byAgent : BOOLEAN,
                             entryType : {"DEPOSIT", "INSTALMENT_PAYMENT"}, toCharges : BOOLEAN]
    BY <2>2 DEF CommittedRows, IsPayments, PaymentRows
  <2>4. activated \in BOOLEAN
    BY <2>2 DEF CommittedRows
  <2>5. \A h \in Handlers : /\ tx[h].wrote \/ tx[h].activates => contractLock = h
                            /\ tx[h].pc = "commit" /\ tx[h].own # NoLedger => ledgerLock = h
    BY <2>2 DEF HoldsRows
  <2>6. QED
    BY <2>2, <2>3, <2>4, <2>5 DEF TypeOK, CommittedRows, IsLedger
<1>2. QED
  BY <1>1, Invariance, PTL

\* As long as all the money that committed had taken its turn on the contract's row, what the
\* agent's row says was collected is the cash of every effective payment, however payments,
\* reversals, confirmations and payouts overlap.
THEOREM CashIsNeverMissed == Spec => []CashMatchesPayments
<1>1. IInv => CashMatchesPayments
  BY DEF IInv
<1>2. QED
  BY <1>1, Invariance, PTL

\* What an agent has paid in rises only with a remittance that waited, by its amount, and that
\* remittance waits no more: approvers who press at once add it once (confirmRemittance).
THEOREM RemittedOncePerClaim == Spec => RemittedByConfirming
<1>1. ASSUME IInv, [Next]_vars, ledger'.remitted # ledger.remitted
      PROVE  \E r \in Rows : /\ remittances[r].status = "PENDING"
                             /\ remittances'[r].status = "CONFIRMED"
                             /\ ledger'.remitted = ledger.remitted + remittances[r].amount
  <2>1. PICK h \in Handlers : Commit(h)
    BY <1>1 DEF Next, Step, vars, committed, ChangeSettings, PostPayment, ReversePayment, FileRemittance,
                PayCommission, ConfirmRemittance, RejectRemittance, Begin, CountPending, CreateRemittance,
                Claim, Reject, Increment, InsertReversal, RecomputeTotal, UpdateContract,
                AdvanceContractStatus, SyncContract, SyncPayments, SyncExisting, SyncUpsert
  <2>2. ledger' = SeenLedger(h) /\ HoldsRows(h)
    BY <1>1, <2>1, CommitsRows DEF IInv, Sound
  <2>3. tx[h].kind = "CONFIRM" /\ ledger'.remitted = ledger.remitted + tx[h].amount
    BY <1>1, <2>2 DEF SeenLedger, HoldsRows
  <2>4. QED
    BY <1>1, <2>1, <2>3, CommitConfirms
<1>2. QED
  BY <1>1, Invariance, PTL DEF Spec, RemittedByConfirming

LEMMA OnlyCommitEnds ==
  ASSUME IInv, [Next]_vars, NEW h \in Handlers, tx[h].pc = "commit", tx'[h].pc = "done"
  PROVE  Commit(h)
<1>1. tx = [g \in Handlers |-> tx[g]] /\ tx'[h] # tx[h]
  BY DEF IInv, Shape
<1>2. ASSUME NEW g \in Handlers, tx[g].pc # "commit", NEW new, Update(g, new)
      PROVE  FALSE
  <2>1. g # h
    BY <1>2
  <2>2. tx'[h] = tx[h]
    BY <1>1, <1>2, <2>1 DEF Update
  <2>3. QED
    BY <1>1, <2>2
<1>3. ASSUME NEW g \in Handlers, NEW new, Begin(g, new)
      PROVE  FALSE
  BY <1>2, <1>3 DEF Begin
<1>4. ASSUME NEW g \in Handlers, Step(g), ~Commit(g)
      PROVE  FALSE
  <2>1. CASE CountPending(g)
    BY <1>2, <2>1 DEF CountPending, Finish
  <2>2. CASE CreateRemittance(g) \/ Reject(g)
    BY <1>2, <2>2 DEF CreateRemittance, Reject, Finish
  <2>3. CASE Claim(g)
    BY <1>2, <2>3 DEF Claim, Finish
  <2>4. CASE Increment(g)
    BY <1>2, <2>4 DEF Increment
  <2>5. CASE InsertReversal(g)
    BY <1>2, <2>5 DEF InsertReversal, Finish
  <2>6. CASE RecomputeTotal(g)
    BY <1>2, <2>6 DEF RecomputeTotal
  <2>7. CASE UpdateContract(g)
    BY <1>2, <2>7 DEF UpdateContract
  <2>8. CASE AdvanceContractStatus(g)
    BY <1>2, <2>8 DEF AdvanceContractStatus
  <2>9. CASE SyncContract(g) \/ SyncPayments(g) \/ SyncExisting(g)
    BY <1>2, <2>9 DEF SyncContract, SyncPayments, SyncExisting
  <2>10. CASE SyncUpsert(g)
    BY <1>2, <2>10 DEF SyncUpsert
  <2>11. QED
    BY <1>4, <2>1, <2>2, <2>3, <2>4, <2>5, <2>6, <2>7, <2>8, <2>9, <2>10 DEF Step
<1>5. PICK g \in Handlers : Commit(g)
  <2>1. ~ChangeSettings /\ ~UNCHANGED vars
    BY <1>1 DEF ChangeSettings, vars
  <2>2. QED
    BY <1>3, <1>4, <2>1 DEF Next, PostPayment, ReversePayment, FileRemittance, PayCommission,
                            ConfirmRemittance, RejectRemittance
<1>6. g = h
  <2>1. g # h => tx'[h].pc = tx[h].pc
    BY <1>5, CommitEnds DEF KnowsTheSame
  <2>2. QED
    BY <2>1
<1>7. QED
  BY <1>5, <1>6

\* A derivation beside which nothing else committed leaves collected, commission and status as
\* the payments, remittances and payouts make them (syncAgentLedger).
THEOREM UndisturbedIsRight == Spec => UndisturbedSyncIsRight
<1>1. ASSUME IInv, [Next]_vars, NEW h \in Handlers, tx[h].pc = "commit", tx'[h].pc = "done", tx[h].alone
      PROVE  RowIsRight'
  <2>1. Commit(h)
    BY <1>1, OnlyCommitEnds
  <2>2. /\ ledger' = SeenLedger(h) /\ Now' = SeenPayments(h)
        /\ activated' = (activated \/ tx[h].activates)
    BY <1>1, <2>1, CommitsRows DEF Commit
  <2>3. RightFor(SeenLedger(h), SeenPayments(h), activated \/ tx[h].activates)
    BY <1>1 DEF IInv, Sound, ReadsStand
  <2>4. QED
    BY <2>2, <2>3 DEF RowIsRight, RightFor
<1>2. IInv /\ [Next]_vars =>
         \A h \in Handlers : tx[h].pc = "commit" /\ tx'[h].pc = "done" /\ tx[h].alone => RowIsRight'
  BY <1>1
<1>3. QED
  BY <1>2, Invariance, PTL DEF Spec, UndisturbedSyncIsRight

-----------------------------------------------------------------------------
(* Who waits for whom. *)

\* Whoever holds the contract's row has read what it asked for and derives the agent's.
ContractTaken ==
    \A h \in Handlers : contractLock = h => tx[h].pc \in Syncing \cup {"advance"}

LEMMA StaysTaken ==
  ASSUME IInv, ContractTaken, NEW h \in Handlers, NEW new, Update(h, new),
         contractLock' = contractLock \/ contractLock' = h,
         contractLock' = h => new.pc \in Syncing \cup {"advance"}
  PROVE  ContractTaken'
<1>1. tx'[h] = new /\ \A g \in Handlers \ {h} : tx'[g] = tx[g]
  BY DEF IInv, Shape, Update
<1>2. QED
  BY <1>1 DEF ContractTaken

\* A statement that comes before the contract's row is taken, and leaves it alone.
LEMMA StaysUntaken ==
  ASSUME IInv, ContractTaken, NEW h \in Handlers, NEW new, Update(h, new),
         contractLock' = contractLock, tx[h].pc \notin Syncing \cup {"advance"}
  PROVE  ContractTaken'
  BY StaysTaken DEF ContractTaken

LEMMA ContractTakenStep ==
  ASSUME IInv, ContractTaken, NEW h \in Handlers, Step(h)
  PROVE  ContractTaken'
<1>1. tx[h] = [f \in Fields |-> tx[h][f]] /\ NoOne # h
  BY HandlersAssumption DEF IInv, Shape
<1>2. "file" \notin Syncing /\ "create" \notin Syncing /\ "claim" \notin Syncing
      /\ "reject" \notin Syncing /\ "reverse" \notin Syncing /\ "derive" \notin Syncing
      /\ {"contract", "payments", "existing", "upsert", "commit"} \subseteq Syncing
  BY DEF Syncing
<1>3. CASE CountPending(h)
  BY <1>2, <1>3, StaysUntaken DEF CountPending, Finish, locks
<1>4. CASE CreateRemittance(h) \/ Reject(h)
  BY <1>2, <1>4, StaysUntaken DEF CreateRemittance, Reject, Finish, locks
<1>5. CASE Claim(h)
  BY <1>2, <1>5, StaysUntaken DEF Claim, Finish, locks
<1>6. CASE InsertReversal(h)
  BY <1>2, <1>6, StaysUntaken DEF InsertReversal, Finish, locks
<1>7. CASE RecomputeTotal(h)
  BY <1>2, <1>7, StaysUntaken DEF RecomputeTotal, locks
<1>8. CASE Increment(h)
  <2>1. tx[h].pc \notin Syncing \cup {"advance"}
    BY <1>8 DEF Increment, Syncing
  <2>2. QED
    BY <1>8, <2>1, StaysUntaken DEF Increment
<1>9. CASE UpdateContract(h)
  <2>1. PICK new : new = [tx[h] EXCEPT !.wrote = tx[h].total # tx[h].stored, !.stored = 0, !.pc = "contract"]
    OBVIOUS
  <2>2. new.pc = "contract"
    BY <1>1, <2>1 DEF Fields
  <2>3. Update(h, new) /\ (contractLock' = contractLock \/ contractLock' = h)
    BY <1>9, <2>1 DEF UpdateContract
  <2>4. QED
    BY <1>2, <2>2, <2>3, StaysTaken
<1>10. CASE AdvanceContractStatus(h)
  <2>1. PICK new : new = [tx[h] EXCEPT !.activates = Activates(h), !.again = TRUE, !.pc = "contract"]
    OBVIOUS
  <2>2. new.pc = "contract"
    BY <1>1, <2>1 DEF Fields
  <2>3. Update(h, new) /\ (contractLock' = contractLock \/ contractLock' = h)
    BY <1>10, <2>1 DEF AdvanceContractStatus
  <2>4. QED
    BY <1>2, <2>2, <2>3, StaysTaken
<1>11. CASE SyncContract(h)
  <2>1. PICK new : new = [tx[h] EXCEPT !.active = activated \/ tx[h].activates, !.alone = TRUE, !.pc = "payments"]
    OBVIOUS
  <2>2. new.pc = "payments"
    BY <1>1, <2>1 DEF Fields
  <2>3. Update(h, new) /\ contractLock' = contractLock
    BY <1>11, <2>1 DEF SyncContract, locks
  <2>4. QED
    BY <1>2, <2>2, <2>3, StaysTaken
<1>12. CASE SyncPayments(h)
  <2>1. PICK new : new = [tx[h] EXCEPT !.seen = SeenPayments(h), !.pc = "existing"]
    OBVIOUS
  <2>2. new.pc = "existing"
    BY <1>1, <2>1 DEF Fields
  <2>3. Update(h, new) /\ contractLock' = contractLock
    BY <1>12, <2>1 DEF SyncPayments, locks
  <2>4. QED
    BY <1>2, <2>2, <2>3, StaysTaken
<1>13. CASE SyncExisting(h)
  <2>1. PICK new : new = [tx[h] EXCEPT !.existing = SeenLedger(h), !.pc = "upsert",
                                       !.applicable = IF SeenLedger(h).rate = NoRate THEN settings ELSE 0]
    OBVIOUS
  <2>2. new.pc = "upsert"
    BY <1>1, <2>1 DEF Fields
  <2>3. Update(h, new) /\ contractLock' = contractLock
    BY <1>13, <2>1 DEF SyncExisting, locks
  <2>4. QED
    BY <1>2, <2>2, <2>3, StaysTaken
<1>14. CASE SyncUpsert(h)
  <2>1. PICK at : at = AfterUpsert(h) /\ at \in Syncing \cup {"advance"}
    BY <1>2 DEF AfterUpsert
  <2>2. PICK row : row = Derived(SeenLedger(h), tx[h].seen, tx[h].active, tx[h].existing, tx[h].applicable)
    OBVIOUS
  <2>3. PICK new : /\ \/ new = [tx[h] EXCEPT !.seen = {}, !.pc = at]
                      \/ new = [tx[h] EXCEPT !.own = row, !.seen = {}, !.existing = NoLedger,
                                             !.active = FALSE, !.applicable = 0, !.pc = at]
                   /\ Update(h, new)
    BY <1>14, <2>1, <2>2 DEF SyncUpsert
  <2>4. new.pc = at
    BY <1>1, <2>3 DEF Fields
  <2>5. contractLock' = contractLock
    BY <1>14 DEF SyncUpsert
  <2>6. QED
    BY <2>1, <2>3, <2>4, <2>5, StaysTaken
<1>15. CASE Commit(h)
  <2>1. contractLock' # h /\ \A g \in Handlers : contractLock' = g => contractLock = g
    BY <1>1, <1>15, HandlersAssumption DEF Commit, Free
  <2>2. \A g \in Handlers \ {h} : tx'[g].pc = tx[g].pc
    BY <1>15, CommitEnds DEF KnowsTheSame
  <2>3. QED
    BY <2>1, <2>2 DEF ContractTaken
<1>16. QED
  BY <1>3, <1>4, <1>5, <1>6, <1>7, <1>8, <1>9, <1>10, <1>11, <1>12, <1>13, <1>14, <1>15 DEF Step

LEMMA ContractTakenKept ==
  ASSUME IInv, ContractTaken, [Next]_vars
  PROVE  ContractTaken'
<1>1. CASE ChangeSettings \/ UNCHANGED vars
  BY <1>1 DEF ContractTaken, ChangeSettings, vars, locks
<1>2. ASSUME NEW h \in Handlers, NEW new, Begin(h, new)
      PROVE  ContractTaken'
  BY <1>2, StaysUntaken DEF Begin, locks, Syncing
<1>3. ASSUME NEW h \in Handlers, Step(h)
      PROVE  ContractTaken'
  BY <1>3, ContractTakenStep
<1>4. QED
  BY <1>1, <1>2, <1>3 DEF Next, PostPayment, ReversePayment, FileRemittance, PayCommission,
                          ConfirmRemittance, RejectRemittance

\* However many handlers wait for one another in a circle, one of them wants the contract's row
\* to activate it and found its total already what it makes of the payments: the others take the
\* contract's row before the agent's (postPayment, reversePaymentInTx) or never.
THEOREM OneOrderOfLocks == Spec => []OnlyDriftDeadlocks
<1>1. IInv /\ ContractTaken => OnlyDriftDeadlocks
  <2>1. ASSUME IInv, ContractTaken, NEW S \in (SUBSET Handlers) \ {{}},
               \A h \in S : \E g \in S : WaitsFor(h, g),
               \A h \in S : ~(Activates(h) /\ ~tx[h].wrote)
        PROVE  FALSE
    <3>1. S # {} /\ \A h \in S : h \in Handlers
      BY <2>1
    <3>2. \A h \in S : OnItsWay(h) /\ HoldsRows(h)
      BY <2>1, <3>1 DEF IInv, Sound
    <3>3. ASSUME NEW h \in S
          PROVE  tx[h].pc # "advance"
      BY <2>1, <3>2 DEF WaitsFor, HoldsRows
    <3>4. ASSUME NEW h \in S
          PROVE  ledgerLock # h
      BY <2>1, <3>2, <3>3 DEF WaitsFor, HoldsRows, Syncing
    <3>5. ASSUME NEW h \in S
          PROVE  tx[h].pc \in {"claim", "reject", "reverse", "lock"}
      BY <2>1, <3>3, <3>4 DEF WaitsFor
    <3>6. ASSUME NEW h \in S
          PROVE  contractLock # h
      BY <2>1, <3>1, <3>5 DEF ContractTaken, Syncing
    <3>7. ASSUME NEW h \in S
          PROVE  tx[h].pc \in {"claim", "reject", "reverse"}
      BY <2>1, <3>5, <3>6 DEF WaitsFor
    <3>8. ASSUME NEW h \in S
          PROVE  tx[h].pc = "reverse"
      <4>1. \A g \in S : tx[g].kind = "CONFIRM" => tx[g].pc = "claim"
        BY <3>2, <3>7 DEF OnItsWay
      <4>2. QED
        BY <2>1, <3>7, <4>1 DEF WaitsFor, Claimants
    <3>9. QED
      BY <2>1, <3>1, <3>8 DEF WaitsFor
  <2>2. QED
    BY <2>1 DEF OnlyDriftDeadlocks
<1>2. Init => ContractTaken
  BY HandlersAssumption DEF Init, ContractTaken
<1>3. IInv /\ ContractTaken /\ [Next]_vars => ContractTaken'
  BY ContractTakenKept
<1>4. QED
  BY Invariance, <1>1, <1>2, <1>3, PTL DEF Spec

-----------------------------------------------------------------------------
(* Since when cash is held: the loop over collections, oldest first, whatever was taken *)
(* together and however little or much is covered.                                      *)

LEMMA SumWithout ==
  ASSUME NEW S, IsPayments(S), NEW p \in S
  PROVE  SumAmounts(S) = p.amount + SumAmounts(S \ {p})
<1> DEFINE f == [q \in S |-> q.amount]
           g == [q \in S \ {p} |-> q.amount]
<1>1. IsFiniteSet(S) /\ AllInts(f, S)
  BY DEF IsPayments, PaymentRows, AllInts
<1>2. IsFiniteSet(S \ {p}) /\ AllInts(f, S \ {p}) /\ \A q \in S \ {p} : g[q] = f[q]
  BY <1>1, FS_Subset DEF AllInts
<1>3. f[p] = p.amount
  OBVIOUS
<1> HIDE DEF f, g
<1>4. SumFunctionOnSet(f, S) = f[p] + SumFunctionOnSet(f, S \ {p})
  BY <1>1, SumTakes
<1>5. SumFunctionOnSet(g, S \ {p}) = SumFunctionOnSet(f, S \ {p})
  BY <1>2, SumSame
<1>6. QED
  BY <1>3, <1>4, <1>5 DEF SumAmounts, f, g

LEMMA SumOfSome ==
  ASSUME NEW S, IsPayments(S), NEW R \in SUBSET S
  PROVE  SumAmounts(R) <= SumAmounts(S)
<1> DEFINE f == [q \in S |-> q.amount]
           g == [q \in R |-> q.amount]
<1>1. IsFiniteSet(S) /\ \A q \in S : f[q] \in Nat
  BY DEF IsPayments, PaymentRows
<1>2. IsFiniteSet(R) /\ AllInts(f, R) /\ \A q \in R : g[q] = f[q]
  BY <1>1, FS_Subset DEF AllInts
<1> HIDE DEF f, g
<1>3. SumFunctionOnSet(f, R) <= SumFunctionOnSet(f, S)
  BY <1>1, SumOfFewer
<1>4. SumFunctionOnSet(g, R) = SumFunctionOnSet(f, R)
  BY <1>2, SumSame
<1>5. QED
  BY <1>3, <1>4 DEF SumAmounts, f, g

\* One of the last is last.
LEMMA LatestIsLast ==
  ASSUME NEW S, IsPayments(S), S # {}
  PROVE  Latest(S) \in S /\ \A q \in S : q.at <= Latest(S).at
<1> DEFINE T == {s \in SUBSET S : s # {} => \E p \in s : \A q \in s : q.at <= p.at}
<1>1. IsFiniteSet(S) /\ \A q \in S : q.at \in Nat
  BY DEF IsPayments, PaymentRows
<1>2. \A s \in T : \A x \in S \ s : s \cup {x} \in T
  <2> SUFFICES ASSUME NEW s \in T, NEW x \in S \ s
               PROVE  \E p \in s \cup {x} : \A q \in s \cup {x} : q.at <= p.at
    OBVIOUS
  <2>1. CASE s = {}
    BY <1>1, <2>1
  <2>2. CASE s # {}
    <3>1. PICK p \in s : \A q \in s : q.at <= p.at
      BY <2>2
    <3>2. CASE x.at <= p.at
      BY <3>1, <3>2
    <3>3. CASE ~(x.at <= p.at)
      <4>1. \A q \in s : q.at <= x.at
        BY <1>1, <3>1, <3>3
      <4>2. QED
        BY <1>1, <4>1
    <3>4. QED
      BY <3>2, <3>3
  <2>3. QED
    BY <2>1, <2>2
<1>3. {} \in T /\ T \in SUBSET SUBSET S
  OBVIOUS
<1> HIDE DEF T
<1>4. S \in T
  BY <1>1, <1>2, <1>3, SetInduct
<1>5. \E p \in S : \A q \in S : q.at <= p.at
  BY <1>4 DEF T
<1>6. QED
  BY <1>5, Zenon DEF Latest

\* What the loop has counted after the collections s, all of them together oldest first.
Counts(g, covered, S) ==
    g = [s \in SUBSET S |->
            IF s = {} THEN [covered |-> covered, since |-> NotHolding]
            ELSE Cover(Latest(s), g[s \ {Latest(s)}])]

LEMMA HeldSinceIs ==
  ASSUME NEW l, NEW pays, ~(Balance(l) <= 0)
  PROVE  HeldSince(l, pays) =
            (CHOOSE g : Counts(g, Covered(l, pays), AgentCash(pays)))[AgentCash(pays)].since
  BY Zenon DEF HeldSince, MapThenFoldSet, Counts

UpTo(S, p) == {q \in S : q.at <= p.at}

\* What it finds: all of s is covered and some is left, or the date of the first that is not.
Found(acc, covered, s) ==
    \/ /\ acc = [covered |-> covered - SumAmounts(s), since |-> NotHolding]
       /\ \A p \in s : SumAmounts(UpTo(s, p)) <= covered
    \/ \E p \in s :
          /\ acc.since = p.at
          /\ SumAmounts(UpTo(s, p)) > covered
          /\ \A q \in s : SumAmounts(UpTo(s, q)) > covered => p.at <= q.at

LEMMA CountsOneMore ==
  ASSUME NEW S, IsPayments(S), S # {}, NEW covered \in Int, NEW acc,
         Found(acc, covered, S \ {Latest(S)})
  PROVE  Found(Cover(Latest(S), acc), covered, S)
<1> DEFINE l == Latest(S)
           R == S \ {l}
<1>1. l \in S /\ \A q \in S : q.at <= l.at
  BY LatestIsLast
<1>2. \A q \in S : q.at \in Nat /\ q.amount \in Nat
  BY DEF IsPayments, PaymentRows
<1>3. SumAmounts(S) = l.amount + SumAmounts(R)
  BY <1>1, SumWithout
<1>4. SumAmounts(S) \in Nat /\ SumAmounts(R) \in Nat
  BY SomePayments, SumOfPayments
<1>5. \A q \in S : q.at = l.at => UpTo(S, q) = S
  BY <1>1, <1>2 DEF UpTo
<1>6. \A q \in S : q.at # l.at => q \in R /\ UpTo(S, q) = UpTo(R, q)
  BY <1>1, <1>2 DEF UpTo
<1>7. \A q \in S : SumAmounts(UpTo(S, q)) \in Nat
  <2> TAKE q \in S
  <2>1. UpTo(S, q) \in SUBSET S
    BY DEF UpTo
  <2>2. QED
    BY <2>1, SomePayments, SumOfPayments
<1>8. \A q \in R : SumAmounts(UpTo(R, q)) \in Nat /\ SumAmounts(UpTo(R, q)) <= SumAmounts(UpTo(S, q))
  <2> TAKE q \in R
  <2>1. UpTo(S, q) \in SUBSET S /\ UpTo(R, q) \in SUBSET UpTo(S, q) /\ UpTo(R, q) \in SUBSET S
    BY DEF UpTo
  <2>2. QED
    BY <2>1, SomePayments, SumOfPayments, SumOfSome
<1> HIDE DEF R, l
<1>9. CASE /\ acc = [covered |-> covered - SumAmounts(R), since |-> NotHolding]
           /\ \A p \in R : SumAmounts(UpTo(R, p)) <= covered
  <2>1. CASE covered - SumAmounts(R) >= l.amount
    <3>1. Cover(l, acc) = [covered |-> covered - SumAmounts(S), since |-> NotHolding]
      <4>1. Cover(l, acc) = [acc EXCEPT !.covered = @ - l.amount]
        <5>1. /\ acc.since = NotHolding /\ acc.covered >= l.amount /\ ~(acc.covered < l.amount)
              /\ acc.covered \in Int
          BY <1>1, <1>2, <1>4, <1>9, <2>1
        <5>2. QED
          BY <5>1 DEF Cover
      <4>2. (covered - SumAmounts(R)) - l.amount = covered - SumAmounts(S)
        BY <1>1, <1>2, <1>3, <1>4
      <4>3. QED
        BY <1>9, <4>1, <4>2
    <3>2. SumAmounts(S) <= covered
      BY <1>1, <1>2, <1>3, <1>4, <2>1
    <3>3. \A p \in S : SumAmounts(UpTo(S, p)) <= covered
      BY <1>5, <1>6, <1>9, <3>2
    <3>4. QED
      BY <3>1, <3>3 DEF Found, l
  <2>2. CASE ~(covered - SumAmounts(R) >= l.amount)
    <3>1. Cover(l, acc).since = l.at
      <4>1. Cover(l, acc) = [acc EXCEPT !.since = l.at]
        <5>1. covered - SumAmounts(R) < l.amount
          BY <1>1, <1>2, <1>4, <2>2
        <5>2. QED
          BY <1>9, <2>2, <5>1 DEF Cover
      <4>2. QED
        BY <1>9, <4>1
    <3>2. SumAmounts(S) > covered /\ UpTo(S, l) = S
      BY <1>1, <1>2, <1>3, <1>4, <1>5, <2>2
    <3>3. \A q \in S : SumAmounts(UpTo(S, q)) > covered => l.at <= q.at
      <4> SUFFICES ASSUME NEW q \in S, SumAmounts(UpTo(S, q)) > covered
                   PROVE  l.at <= q.at
        OBVIOUS
      <4>1. CASE q.at = l.at
        BY <1>2, <4>1
      <4>2. CASE q.at # l.at
        <5>1. SumAmounts(UpTo(S, q)) <= covered
          BY <1>6, <1>9, <4>2
        <5>2. QED
          BY <1>7, <5>1
      <4>3. QED
        BY <4>1, <4>2
    <3>4. QED
      BY <1>1, <3>1, <3>2, <3>3 DEF Found, l
  <2>3. QED
    BY <2>1, <2>2
<1>10. ASSUME NEW p \in R, acc.since = p.at, SumAmounts(UpTo(R, p)) > covered,
              \A q \in R : SumAmounts(UpTo(R, q)) > covered => p.at <= q.at
       PROVE  Found(Cover(l, acc), covered, S)
  <2>1. p \in S
    BY <1>10 DEF R
  <2>2. Cover(l, acc).since = p.at
    BY <1>2, <1>10, <2>1 DEF Cover, NotHolding
  <2>3. SumAmounts(UpTo(S, p)) > covered
    BY <1>7, <1>8, <1>10, <2>1
  <2>4. \A q \in S : SumAmounts(UpTo(S, q)) > covered => p.at <= q.at
    <3> SUFFICES ASSUME NEW q \in S, SumAmounts(UpTo(S, q)) > covered
                 PROVE  p.at <= q.at
      OBVIOUS
    <3>1. CASE q.at = l.at
      BY <1>1, <2>1, <3>1
    <3>2. CASE q.at # l.at
      BY <1>6, <1>10, <3>2
    <3>3. QED
      BY <3>1, <3>2
  <2>5. QED
    BY <2>1, <2>2, <2>3, <2>4 DEF Found
<1>11. QED
  BY <1>9, <1>10 DEF Found, R, l

LEMMA CountsFind ==
  ASSUME NEW S, IsPayments(S), NEW covered \in Int, NEW g, Counts(g, covered, S)
  PROVE  Found(g[S], covered, S)
<1> DEFINE c == [s \in SUBSET S |-> Latest(s)]
           T == {s \in SUBSET S : Found(g[s], covered, s)}
<1>1. \A s \in SUBSET S : IsPayments(s)
  BY SomePayments
<1>2. {} \in T
  <2>1. g[{}] = [covered |-> covered, since |-> NotHolding]
    BY DEF Counts
  <2>2. SumAmounts({}) = 0
    BY SumEmpty DEF SumAmounts
  <2>3. g[{}] = [covered |-> covered - SumAmounts({}), since |-> NotHolding]
    BY <2>1, <2>2
  <2>4. QED
    BY <2>3 DEF Found
<1>3. \A s \in SUBSET S : s # {} => c[s] \in s /\ (s \ {c[s]} \in T => s \in T)
  <2> SUFFICES ASSUME NEW s \in SUBSET S, s # {}
               PROVE  c[s] \in s /\ (s \ {c[s]} \in T => s \in T)
    OBVIOUS
  <2>1. Latest(s) \in s /\ c[s] = Latest(s)
    BY <1>1, LatestIsLast
  <2>2. g[s] = Cover(Latest(s), g[s \ {Latest(s)}])
    BY DEF Counts
  <2>3. Found(g[s \ {Latest(s)}], covered, s \ {Latest(s)}) => Found(g[s], covered, s)
    BY <1>1, <2>2, CountsOneMore
  <2>4. QED
    BY <2>1, <2>3
<1>4. PickInductive(T, c, S)
  <2>1. T \in SUBSET SUBSET S
    OBVIOUS
  <2> HIDE DEF T, c
  <2>2. QED
    BY <1>2, <1>3, <2>1 DEF PickInductive
<1>5. IsFiniteSet(S)
  BY DEF IsPayments
<1> HIDE DEF T, c
<1>6. S \in T
  BY <1>4, <1>5, PickInduct
<1>7. QED
  BY <1>6 DEF T

\* The loop's function exists.
LEMMA CountsExist ==
  ASSUME NEW S, IsPayments(S), NEW covered \in Int
  PROVE  \E g : Counts(g, covered, S)
<1> DEFINE V == [covered : Int, since : Int]
           base == [covered |-> covered, since |-> NotHolding]
           step == [c \in S |-> [v \in V |-> Cover(c, v)]]
           c == [s \in SUBSET S |-> Latest(s)]
<1>1. IsFiniteSet(S)
  BY DEF IsPayments
<1>2. base \in V
  BY DEF NotHolding
<1>3. \A p \in S : \A v \in V : Cover(p, v) \in V
  <2> TAKE p \in S
  <2> TAKE v \in V
  <2>1. p.at \in Nat /\ p.amount \in Nat
    BY DEF IsPayments, PaymentRows
  <2>2. CASE v.since = NotHolding /\ v.covered >= p.amount
    <3>1. Cover(p, v) = [v EXCEPT !.covered = @ - p.amount]
      BY <2>1, <2>2 DEF Cover
    <3>2. QED
      BY <2>1, <3>1
  <2>3. CASE v.since = NotHolding /\ ~(v.covered >= p.amount)
    <3>1. Cover(p, v) = [v EXCEPT !.since = p.at]
      BY <2>1, <2>3 DEF Cover
    <3>2. QED
      BY <2>1, <3>1
  <2>4. CASE v.since # NotHolding
    BY <2>4 DEF Cover
  <2>5. QED
    BY <2>2, <2>3, <2>4
<1>4. \A v \in V : \A p \in S : step[p][v] = Cover(p, v) /\ step[p][v] \in V
  BY <1>3
<1>5. \A s \in SUBSET S : s # {} => c[s] \in s /\ c[s] = Latest(s)
  BY LatestIsLast, SomePayments
<1> HIDE DEF V, base, step, c
<1>6. PICK g \in [SUBSET S -> V] : FoldsOver(g, S, base, step, c)
  BY <1>1, <1>2, <1>4, <1>5, FoldExists
<1>7. \A s \in SUBSET S : g[s] = IF s = {} THEN base ELSE Cover(Latest(s), g[s \ {Latest(s)}])
  <2> TAKE s \in SUBSET S
  <2>1. g[s] = IF s = {} THEN base ELSE step[c[s]][g[s \ {c[s]}]]
    BY <1>6 DEF FoldsOver
  <2>2. s # {} => c[s] = Latest(s) /\ Latest(s) \in S /\ g[s \ {c[s]}] \in V
    BY <1>5, <1>6
  <2>3. QED
    BY <1>4, <2>1, <2>2
<1>8. g = [s \in SUBSET S |-> g[s]]
  BY <1>6
<1>9. Counts(g, covered, S)
  BY <1>7, <1>8 DEF Counts, base
<1>10. QED
  BY <1>9

\* What an agent still holds was taken since the oldest collection that what they paid in and
\* kept does not cover.
LEMMA HeldSinceFinds ==
  ASSUME NEW l \in Ledgers, NEW pays, IsPayments(pays), Balance(l) > 0, AgentCash(pays) # {}
  PROVE  LET S == AgentCash(pays)
             over == {p \in S : SumAmounts(UpTo(S, p)) > Collected(pays) - Balance(l)}
         IN  HeldSince(l, pays) = Min({p.at : p \in over})
<1> DEFINE S == AgentCash(pays)
           covered == Covered(l, pays)
           over == {p \in S : SumAmounts(UpTo(S, p)) > Collected(pays) - Balance(l)}
<1>1. IsPayments(S)
  BY SomePayments DEF AgentCash
<1>2. Balance(l) \in Int /\ Collected(pays) \in Nat
  BY BalanceIsInt, CollectedIsNat
<1>3. covered \in Int /\ covered = Collected(pays) - Balance(l)
  BY <1>2 DEF Covered, Balance, Ledgers
<1>4. PICK g : g = CHOOSE f : Counts(f, covered, S)
  OBVIOUS
<1>5. Counts(g, covered, S)
  <2> HIDE DEF covered, S
  <2>1. \E f : Counts(f, covered, S)
    BY <1>1, <1>3, CountsExist
  <2>2. QED
    BY <1>4, <2>1, Zenon
<1>6. HeldSince(l, pays) = g[S].since
  <2>1. ~(Balance(l) <= 0)
    BY <1>2
  <2>2. QED
    BY <1>4, <2>1, HeldSinceIs
<1>7. \A p \in S : p.at \in Nat
  BY <1>1 DEF IsPayments, PaymentRows
<1>8. SumAmounts(S) = Collected(pays)
  BY DEF Collected
<1>9. S # {}
  OBVIOUS
<1> HIDE DEF S, covered
<1>10. Found(g[S], covered, S)
  BY <1>1, <1>3, <1>5, CountsFind
<1>11. PICK p \in S : /\ g[S].since = p.at
                      /\ SumAmounts(UpTo(S, p)) > covered
                      /\ \A q \in S : SumAmounts(UpTo(S, q)) > covered => p.at <= q.at
  <2>1. Latest(S) \in S /\ UpTo(S, Latest(S)) = S
    BY <1>1, <1>9, LatestIsLast DEF UpTo
  <2>2. ~(SumAmounts(UpTo(S, Latest(S))) <= covered)
    BY <1>2, <1>3, <1>8, <2>1
  <2>3. QED
    BY <1>10, <2>1, <2>2 DEF Found
<1>12. p \in over /\ \A q \in over : p.at <= q.at
  BY <1>3, <1>11
<1>13. Min({q.at : q \in over}) = p.at
  <2> HIDE DEF over
  <2>1. p.at \in {q.at : q \in over} /\ \A n \in {q.at : q \in over} : p.at <= n
    BY <1>12
  <2>2. \A m \in {q.at : q \in over} : m \in Nat
    BY <1>7 DEF over
  <2>3. \A m \in {q.at : q \in over} : (\A n \in {q.at : q \in over} : m <= n) => m = p.at
    <3> SUFFICES ASSUME NEW m \in {q.at : q \in over}, \A n \in {q.at : q \in over} : m <= n
                 PROVE  m = p.at
      OBVIOUS
    <3>1. m <= p.at /\ p.at <= m /\ m \in Nat /\ p.at \in Nat
      BY <2>1, <2>2
    <3>2. QED
      BY <3>1
  <2>4. QED
    BY <2>1, <2>3 DEF Min
<1>14. QED
  BY <1>6, <1>11, <1>13 DEF S, over

\* Whenever an agent owes cash, the alert's date is that of the oldest cash which what they paid
\* in and kept does not cover, for any collections and whatever the row was derived from.
THEOREM AlertCountsFromOldest == Spec => []HeldSinceOldest
<1>1. IInv => HeldSinceOldest
  <2> SUFFICES ASSUME IInv, Balance(ledger) > 0, AgentCash(Now) # {}
               PROVE  HeldSinceOldest
    BY DEF HeldSinceOldest
  <2>1. ledger \in Ledgers /\ IsPayments(payments)
    BY DEF IInv, CommittedRows, IsLedger
  <2>2. IsPayments(Now)
    BY <2>1, SomePayments DEF Now, Effective
  <2> HIDE DEF Now
  <2>3. QED
    BY <2>1, <2>2, HeldSinceFinds DEF HeldSinceOldest, UpTo
<1>2. QED
  BY <1>1, Invariance, PTL
-----------------------------------------------------------------------------
(* A behaviour of Books is one of each part, so what is proved of a part holds there.  *)

LEMMA IsOfTheContract == BooksSpec => Contract!Spec
<1>1. BooksInit => Contract!Init
  BY DEF BooksInit
<1>2. [BooksNext]_booksVars => [Contract!Next]_(Contract!vars)
  BY DEF BooksNext, booksVars, contractVars, Contract!vars
<1>3. QED
  BY <1>1, <1>2, PTL DEF BooksSpec, Contract!Spec

\* What is proved of the agent's row holds of every behaviour the run of Books looks at.
THEOREM IsOfTheAgent == BooksSpec => Spec
<1>1. BooksInit => Init
  BY DEF BooksInit
<1>2. [BooksNext]_booksVars => [Next]_vars
  BY DEF BooksNext, booksVars, contractVars, vars
<1>3. QED
  BY <1>1, <1>2, PTL DEF BooksSpec, Spec

\* Every row of the contract keeps its type, and only who holds its lock has written it.
THEOREM ContractRowsAreTyped == BooksSpec => []ContractTypeOK
<1>1. Contract!Spec => []Contract!TypeOK
  BY Contract!RowsAreTyped, RowsAssumption, MoneyAssumption, ContractTypesAssumption
<1>2. QED
  BY <1>1, IsOfTheContract, PTL DEF ContractTypeOK

\* At most one committed reversal points at a payment, however many transactions overlap.
THEOREM PaymentsReversedOnce == BooksSpec => []ReversedOnce
<1>1. Contract!Spec => []Contract!ReversedOnce
  BY Contract!PaymentsReversedOnce, RowsAssumption, MoneyAssumption, ContractTypesAssumption
<1>2. QED
  BY <1>1, IsOfTheContract, PTL DEF ReversedOnce

\* A cancellation never puts back a phone that was handed over while it was at work.
THEOREM PhonesHandedOver == BooksSpec => HandedOverStaysOut
<1>1. Contract!Spec => Contract!HandedOverStaysOut
  BY Contract!PhonesHandedOver, RowsAssumption, MoneyAssumption, ContractTypesAssumption
<1>2. QED
  BY <1>1, IsOfTheContract, PTL DEF HandedOverStaysOut

\* A transaction beside which nothing committed since it began to recompute commits the
\* ledger's total, however many others are open.
THEOREM RecomputedIsRight == BooksSpec => Heals
<1>1. Contract!Spec => Contract!Heals
  BY Contract!RecomputedIsRight, RowsAssumption, MoneyAssumption, ContractTypesAssumption
<1>2. QED
  BY <1>1, IsOfTheContract, PTL DEF Heals
=============================================================================

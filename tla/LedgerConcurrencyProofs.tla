---------------------- MODULE LedgerConcurrencyProofs -----------------------
(***************************************************************************)
(* For any transactions that overlap on a contract, of any amounts: no     *)
(* payment is taken back twice, a phone handed over is not put back by a   *)
(* cancellation that began before, and a recomputation nobody committed    *)
(* beside leaves the ledger's total.  Everything rests on what the lock    *)
(* and the unique index give: who has written the contract row holds it,   *)
(* and a reversal row not committed yet is the only one of its payment.    *)
(***************************************************************************)
EXTENDS LedgerConcurrency, SumTheorems

Fields == {"pc", "kind", "amount", "targets", "reverses", "derived", "stored", "taken", "next",
           "wrote", "issues", "sawAll"}

Shape ==
    /\ tx = [t \in Txns |-> tx[t]]
    /\ \A t \in Txns : tx[t] = [f \in Fields |-> tx[t][f]]
    /\ reversals = [r \in Rows |-> reversals[r]]

\* Committed rows are of transactions that are over, each reversed once at most.
CommittedRows ==
    /\ payments \subseteq Rows
    /\ \A t \in Txns : t \in payments => tx[t].pc = "done"
    /\ \A r \in Rows : reversals[r] \in {0, 1}

\* The reversal rows a transaction has written are the only ones of their payments.
TakesBackAlone(t) ==
    /\ tx[t].targets \subseteq Rows
    /\ tx[t].reverses \subseteq Rows
    /\ \A r \in tx[t].reverses :
          /\ reversals[r] = 0
          /\ \A u \in Txns \ {t} : r \notin tx[u].reverses

\* Who has written columns of the contract row, or is about to unwind it, holds it.
HoldsTheRow(t) ==
    (tx[t].wrote # {} \/ tx[t].pc = "unwind") /\ tx[t].pc # "done" => lock = t

\* A cancellation moves the phone only if it found it reserved while holding the row.
PutsBackReserved(t) ==
    tx[t].kind = "CANCEL" =>
        /\ tx[t].pc \notin {"advance", "move"}
        /\ "item" \in tx[t].wrote /\ tx[t].pc # "done" => item = "RESERVED"

SumOf(S) == MapThenSumSet(Signed, S)

\* What a recomputation nobody committed beside has read is still so.
SawAll(t) ==
    tx[t].sawAll /\ tx[t].pc # "done" =>
        /\ tx[t].pc \in {"reversals", "payments", "store", "advance", "move", "commit"}
        /\ tx[t].stored = total
        /\ tx[t].pc # "reversals" => tx[t].taken = Reversed(SeenReversals(t))
        /\ tx[t].pc \in {"store", "advance", "move", "commit"} =>
              tx[t].derived = SumOf(SeenRows(t) \ tx[t].taken)
        /\ tx[t].pc \in {"advance", "move", "commit"} =>
              "total" \in tx[t].wrote \/ tx[t].derived = tx[t].stored

Sound(t) ==
    TakesBackAlone(t) /\ HoldsTheRow(t) /\ PutsBackReserved(t) /\ SawAll(t)

IInv == Shape /\ CommittedRows /\ \A t \in Txns : Sound(t)

-----------------------------------------------------------------------------
LEMMA InitIInv == Init => IInv
<1> SUFFICES ASSUME Init
             PROVE  IInv
  OBVIOUS
<1>1. Shape
  BY DEF Init, Idle, Shape, Fields
<1>2. CommittedRows
  BY RowsAssumption DEF Init, CommittedRows, Rows
<1>3. ASSUME NEW t \in Txns
      PROVE  Sound(t)
  <2>1. tx[t] = Idle
    BY DEF Init
  <2>2. QED
    BY <2>1 DEF Idle, Sound, TakesBackAlone, HoldsTheRow, PutsBackReserved, SawAll
<1>4. QED
  BY <1>1, <1>2, <1>3 DEF IInv

\* A sum depends only on the amounts of its rows.
SumsBody(amounts, S, it) ==
    [s \in SUBSET S |-> IF s = {} THEN 0 ELSE amounts[Some(s)] + it[s \ {Some(s)}]]
Sums(amounts, S) == CHOOSE it : it = SumsBody(amounts, S, it)

LEMMA SumOfIs ==
  ASSUME NEW S
  PROVE  SumOf(S) = Sums([r \in S |-> Signed(r)], S)[S]
<1>1. ASSUME NEW s \in SUBSET S, s # {}
      PROVE  [r \in S |-> Signed(r)][Some(s)] = Signed(Some(s))
  <2>1. Some(s) \in S
    BY <1>1 DEF Some
  <2>2. QED
    BY <2>1
<1>2. ASSUME NEW it
      PROVE  [s \in SUBSET S |-> IF s = {} THEN 0 ELSE Signed(Some(s)) + it[s \ {Some(s)}]]
             = SumsBody([r \in S |-> Signed(r)], S, it)
  BY <1>1 DEF SumsBody
<1>3. (CHOOSE it : it = [s \in SUBSET S |-> IF s = {} THEN 0 ELSE Signed(Some(s)) + it[s \ {Some(s)}]])
      = Sums([r \in S |-> Signed(r)], S)
  BY <1>2, Zenon DEF Sums
<1>4. SumOf(S) = (CHOOSE it : it = [s \in SUBSET S |-> IF s = {} THEN 0 ELSE Signed(Some(s)) + it[s \ {Some(s)}]])[S]
  BY Zenon DEF SumOf, MapThenSumSet, MapThenFoldSet, Some
<1>5. QED
  BY <1>3, <1>4

LEMMA SumOfIsNext ==
  ASSUME NEW S
  PROVE  SumOf(S)' = Sums([r \in S |-> Signed(r)'], S)[S]
<1>1. ASSUME NEW s \in SUBSET S, s # {}
      PROVE  [r \in S |-> Signed(r)'][Some(s)] = Signed(Some(s))'
  <2>1. Some(s) \in S
    BY <1>1 DEF Some
  <2>2. QED
    BY <2>1
<1>2. ASSUME NEW it
      PROVE  [s \in SUBSET S |-> IF s = {} THEN 0 ELSE Signed(Some(s))' + it[s \ {Some(s)}]]
             = SumsBody([r \in S |-> Signed(r)'], S, it)
  BY <1>1 DEF SumsBody
<1>3. (CHOOSE it : it = [s \in SUBSET S |-> IF s = {} THEN 0 ELSE Signed(Some(s))' + it[s \ {Some(s)}]])
      = Sums([r \in S |-> Signed(r)'], S)
  BY <1>2, Zenon DEF Sums
<1>4. SumOf(S)' = (CHOOSE it : it = [s \in SUBSET S |-> IF s = {} THEN 0 ELSE Signed(Some(s))' + it[s \ {Some(s)}]])[S]
  BY Zenon DEF SumOf, MapThenSumSet, MapThenFoldSet, Some
<1>5. QED
  BY <1>3, <1>4

LEMMA SumKept ==
  ASSUME NEW S, \A r \in S : Signed(r)' = Signed(r)
  PROVE  SumOf(S)' = SumOf(S)
<1>1. [r \in S |-> Signed(r)'] = [r \in S |-> Signed(r)]
  OBVIOUS
<1>2. QED
  BY <1>1, SumOfIs, SumOfIsNext

-----------------------------------------------------------------------------
(* A statement of one transaction that does not commit. *)

LEMMA Updates ==
  ASSUME Shape, NEW t \in Txns, NEW new, new = [f \in Fields |-> new[f]], Update(t, new),
         reversals' = reversals
  PROVE  Shape' /\ tx'[t] = new /\ \A u \in Txns \ {t} : tx'[u] = tx[u]
  BY DEF Shape, Update

\* What a transaction has written moves from another's hands only by being committed.
LockMoves(t) ==
    \/ lock' = lock
    \/ lock \in {NoTxn, t} /\ lock' = t
    \/ lock = t /\ lock' = NoTxn /\ tx'[t].pc = "done"

\* Statement by statement, only transaction t moves, and the committed rows stay.
Moves(t) ==
    /\ Shape'
    /\ \A u \in Txns \ {t} : tx'[u] = tx[u]
    /\ status' = status /\ total' = total /\ item' = item
    /\ payments' = payments /\ reversals' = reversals
    /\ LockMoves(t)
    /\ tx[t].pc \notin {"commit", "done"}

LEMMA SignedKept ==
  ASSUME IInv, NEW t \in Txns, Moves(t), NEW u \in Txns \ {t}, NEW r \in SeenRows(u)
  PROVE  Signed(r)' = Signed(r)
<1>1. r # t
  BY DEF IInv, CommittedRows, Moves, SeenRows
<1>2. r = FirstRow \/ r \in Txns \ {t}
  BY <1>1 DEF IInv, CommittedRows, SeenRows, Rows
<1>3. QED
  BY <1>2, RowsAssumption DEF Moves, Signed

\* The other transactions' reads stand.
LEMMA OthersSawAll ==
  ASSUME IInv, NEW t \in Txns, Moves(t), NEW u \in Txns \ {t}
  PROVE  SawAll(u)'
<1>1. tx'[u] = tx[u] /\ SawAll(u)
  BY DEF Moves, IInv, Sound
<1>2. SeenRows(u)' = SeenRows(u)
  BY <1>1 DEF Moves, SeenRows
<1>3. Reversed(SeenReversals(u))' = Reversed(SeenReversals(u))
  BY <1>1 DEF Moves, SeenReversals, Reversed
<1>4. PICK S : S = SeenRows(u) \ tx[u].taken
  OBVIOUS
<1>5. SumOf(S)' = SumOf(S)
  BY <1>4, SignedKept, SumKept
<1>6. SumOf(SeenRows(u) \ tx[u].taken)' = SumOf(S)'
  BY <1>1, <1>2, <1>4 DEF SumOf, MapThenSumSet, MapThenFoldSet
<1>7. SumOf(SeenRows(u) \ tx[u].taken)' = SumOf(SeenRows(u) \ tx[u].taken)
  BY <1>4, <1>5, <1>6
<1>8. total' = total
  BY DEF Moves
<1>9. QED
  BY <1>1, <1>3, <1>7, <1>8 DEF SawAll

\* So a statement keeps the invariant if it keeps it for its own transaction.
LEMMA MovesKeeps ==
  ASSUME IInv, NEW t \in Txns, Moves(t), Sound(t)',
         \A u \in Txns \ {t} : tx'[t].reverses \cap tx[u].reverses = {}
  PROVE  IInv'
<1>1. CommittedRows'
  BY DEF IInv, CommittedRows, Moves
<1>2. ASSUME NEW u \in Txns \ {t}
      PROVE  Sound(u)'
  <2>1. tx'[u] = tx[u] /\ Sound(u)
    BY DEF Moves, IInv
  <2>2. TakesBackAlone(u)'
    <3>1. \A r \in tx'[u].reverses : reversals'[r] = 0
      BY <2>1 DEF Sound, TakesBackAlone, Moves
    <3>2. ASSUME NEW r \in tx'[u].reverses, NEW v \in Txns \ {u}
          PROVE  r \notin tx'[v].reverses
      BY <2>1 DEF Sound, TakesBackAlone, Moves
    <3>3. QED
      BY <2>1, <3>1, <3>2 DEF Sound, TakesBackAlone
  <2>3. HoldsTheRow(u)'
    BY <2>1, RowsAssumption DEF Sound, HoldsTheRow, Moves, LockMoves
  <2>4. PutsBackReserved(u)'
    BY <2>1 DEF Sound, PutsBackReserved, Moves
  <2>5. QED
    BY <2>2, <2>3, <2>4, OthersSawAll DEF Sound
<1>3. QED
  BY <1>1, <1>2 DEF IInv, Moves

\* The reversal rows a statement keeps are still alone.
LEMMA StillTakesBackAlone ==
  ASSUME IInv, NEW t \in Txns, Moves(t), tx'[t].reverses \in {tx[t].reverses, {}},
         tx'[t].targets \subseteq Rows
  PROVE  /\ TakesBackAlone(t)'
         /\ \A u \in Txns \ {t} : tx'[t].reverses \cap tx[u].reverses = {}
<1>1. TakesBackAlone(t)
  BY DEF IInv, Sound
<1>2. \A u \in Txns \ {t} : tx'[u] = tx[u]
  BY DEF Moves
<1>3. reversals' = reversals
  BY DEF Moves
<1>4. QED
  BY <1>1, <1>2, <1>3 DEF TakesBackAlone

\* What it sees of the ledger is the same while the rows it writes are.
LEMMA SeesTheSame ==
  ASSUME IInv, NEW t \in Txns, Moves(t), tx'[t].kind = tx[t].kind, tx'[t].reverses = tx[t].reverses,
         tx'[t].amount = tx[t].amount
  PROVE  /\ SeenRows(t)' = SeenRows(t)
         /\ Reversed(SeenReversals(t))' = Reversed(SeenReversals(t))
         /\ \A r \in SeenRows(t) : Signed(r)' = Signed(r)
         /\ tx'[t].taken = tx[t].taken =>
               SumOf(SeenRows(t) \ tx[t].taken)' = SumOf(SeenRows(t) \ tx[t].taken)
<1>1. SeenRows(t)' = SeenRows(t)
  BY DEF Moves, SeenRows
<1>2. Reversed(SeenReversals(t))' = Reversed(SeenReversals(t))
  BY DEF Moves, SeenReversals, Reversed
<1>3. ASSUME NEW r \in SeenRows(t)
      PROVE  Signed(r)' = Signed(r)
  <2>1. r = FirstRow \/ r \in Txns
    BY DEF IInv, CommittedRows, SeenRows, Rows
  <2>2. r \in Txns => tx'[r].kind = tx[r].kind /\ tx'[r].amount = tx[r].amount
    BY DEF Moves
  <2>3. QED
    BY <2>1, <2>2, RowsAssumption DEF Signed
<1>4. ASSUME tx'[t].taken = tx[t].taken
      PROVE  SumOf(SeenRows(t) \ tx[t].taken)' = SumOf(SeenRows(t) \ tx[t].taken)
  <2>1. PICK S : S = SeenRows(t) \ tx[t].taken
    OBVIOUS
  <2>2. SumOf(S)' = SumOf(S)
    BY <1>3, <2>1, SumKept
  <2>3. SumOf(SeenRows(t) \ tx[t].taken)' = SumOf(S)'
    BY <1>1, <1>4, <2>1 DEF SumOf, MapThenSumSet, MapThenFoldSet
  <2>4. QED
    BY <2>1, <2>2, <2>3
<1>5. QED
  BY <1>1, <1>2, <1>3, <1>4

\* A transaction with nothing written and nothing summed up is sound wherever it is,
\* but where it needs the row.
LEMMA Fresh ==
  ASSUME IInv, NEW t \in Txns, Moves(t), tx'[t].wrote = {}, tx'[t].reverses \in {tx[t].reverses, {}},
         tx'[t].targets \subseteq Rows, tx'[t].pc # "unwind", tx'[t].pc \notin {"advance", "move"},
         ~ tx'[t].sawAll
  PROVE  IInv'
<1>1. HoldsTheRow(t)' /\ PutsBackReserved(t)' /\ SawAll(t)'
  BY DEF HoldsTheRow, PutsBackReserved, SawAll
<1>2. QED
  BY <1>1, StillTakesBackAlone, MovesKeeps DEF Sound

LEMMA BeginStep ==
  ASSUME IInv, NEW t \in Txns, NEW kind, NEW amount, NEW targets \in SUBSET Rows, NEW at,
         at \in {"derive", "reverse", "mark"}, Begin(t, kind, amount, targets, at)
  PROVE  Moves(t) /\ IInv'
<1>1. PICK new : /\ new = [Idle EXCEPT !.kind = kind, !.amount = amount, !.targets = targets,
                                       !.stored = total, !.next = status, !.pc = at]
  OBVIOUS
<1>2. /\ new = [f \in Fields |-> new[f]]
      /\ new.pc = at /\ new.wrote = {} /\ new.reverses = {} /\ new.targets = targets
      /\ ~ new.sawAll
  BY <1>1 DEF Idle, Fields
<1>3. Update(t, new) /\ UNCHANGED <<committed, lock>> /\ tx[t].pc = "idle"
  BY <1>1 DEF Begin, Update
<1>4. Moves(t) /\ tx'[t] = new
  BY <1>2, <1>3, Updates DEF IInv, Moves, LockMoves, committed
<1>5. QED
  BY <1>2, <1>4, Fresh

\* Rolled back, from wherever it waits.
LEMMA RollBackStep ==
  ASSUME IInv, NEW t \in Txns, RollBack(t), tx[t].pc \in {"reverse", "store", "move"}
  PROVE  Moves(t) /\ IInv'
<1>1. PICK new : new = [tx[t] EXCEPT !.pc = "done", !.kind = "none", !.reverses = {}]
  OBVIOUS
<1>2. /\ new = [f \in Fields |-> new[f]]
      /\ new.pc = "done" /\ new.kind = "none" /\ new.reverses = {} /\ new.targets = tx[t].targets
  BY <1>1 DEF IInv, Shape, Fields
<1>3. Update(t, new) /\ UNCHANGED committed /\ lock' = IF lock = t THEN NoTxn ELSE lock
  BY <1>1 DEF RollBack
<1>4. Shape' /\ tx'[t] = new /\ \A u \in Txns \ {t} : tx'[u] = tx[u]
  BY <1>2, <1>3, Updates DEF IInv, committed
<1>5. Moves(t)
  BY <1>2, <1>3, <1>4 DEF Moves, LockMoves, committed
<1>6. HoldsTheRow(t)' /\ PutsBackReserved(t)' /\ SawAll(t)'
  BY <1>2, <1>4 DEF HoldsTheRow, PutsBackReserved, SawAll
<1>7. tx[t].targets \subseteq Rows
  BY DEF IInv, Sound, TakesBackAlone
<1>8. QED
  BY <1>2, <1>4, <1>5, <1>6, <1>7, StillTakesBackAlone, MovesKeeps DEF Sound

LEMMA InsertReversalsStep ==
  ASSUME IInv, NEW t \in Txns, InsertReversals(t)
  PROVE  Moves(t) /\ IInv'
<1>1. CASE \E r \in tx[t].targets : reversals[r] > 0
  BY <1>1, RollBackStep DEF InsertReversals
<1>2. CASE ~ \E r \in tx[t].targets : reversals[r] > 0
  <2>1. PICK new : new = [tx[t] EXCEPT !.reverses = tx[t].targets, !.pc = "derive"]
    OBVIOUS
  <2>2. /\ new = [f \in Fields |-> new[f]]
        /\ new.pc = "derive" /\ new.reverses = tx[t].targets /\ new.targets = tx[t].targets
        /\ new.kind = tx[t].kind /\ new.wrote = tx[t].wrote /\ new.sawAll = tx[t].sawAll
    BY <2>1 DEF IInv, Shape, Fields
  <2>3. Update(t, new) /\ UNCHANGED <<committed, lock>> /\ tx[t].pc = "reverse"
    BY <1>2, <2>1 DEF InsertReversals
  <2>4. Moves(t) /\ tx'[t] = new /\ reversals' = reversals /\ item' = item /\ lock' = lock
        /\ \A u \in Txns \ {t} : tx'[u] = tx[u]
    BY <2>2, <2>3, Updates DEF IInv, Moves, LockMoves, committed
  <2>5. Sound(t) /\ CommittedRows
    BY DEF IInv
  <2>6. \A u \in Txns \ {t} : tx[t].targets \cap tx[u].reverses = {}
    BY DEF InsertReversals, HeldByOthers
  <2>7. TakesBackAlone(t)'
    <3>1. \A r \in tx[t].targets : reversals[r] = 0
      BY <1>2, <2>5 DEF CommittedRows, Sound, TakesBackAlone
    <3>2. QED
      BY <2>2, <2>4, <2>5, <2>6, <3>1 DEF Sound, TakesBackAlone
  <2>8. HoldsTheRow(t)' /\ PutsBackReserved(t)' /\ SawAll(t)'
    BY <2>2, <2>3, <2>4, <2>5 DEF Sound, HoldsTheRow, PutsBackReserved, SawAll
  <2>9. QED
    BY <2>2, <2>4, <2>6, <2>7, <2>8, MovesKeeps DEF Sound
<1>3. QED
  BY <1>1, <1>2

LEMMA MarkCancelledStep ==
  ASSUME IInv, NEW t \in Txns, MarkCancelled(t)
  PROVE  Moves(t) /\ IInv'
<1>1. PICK new : new = [tx[t] EXCEPT !.wrote = {"status", "refund"},
                                     !.amount = IF tx[t].stored > 0 THEN tx[t].stored ELSE 0,
                                     !.pc = "unwind"]
  OBVIOUS
<1>2. /\ new = [f \in Fields |-> new[f]]
      /\ new.pc = "unwind" /\ new.wrote = {"status", "refund"} /\ new.kind = tx[t].kind
      /\ new.reverses = tx[t].reverses /\ new.targets = tx[t].targets /\ new.sawAll = tx[t].sawAll
  BY <1>1 DEF IInv, Shape, Fields
<1>3. Update(t, new) /\ UNCHANGED committed /\ TakeLock(t) /\ tx[t].pc = "mark"
  BY <1>1 DEF MarkCancelled
<1>4. tx'[t] = new /\ Moves(t) /\ lock' = t
  BY <1>2, <1>3, Updates DEF IInv, Moves, LockMoves, committed, TakeLock
<1>5. Sound(t)
  BY DEF IInv
<1>6. HoldsTheRow(t)' /\ PutsBackReserved(t)' /\ SawAll(t)'
  BY <1>2, <1>3, <1>4, <1>5 DEF Sound, HoldsTheRow, PutsBackReserved, SawAll
<1>7. QED
  BY <1>2, <1>4, <1>5, <1>6, StillTakesBackAlone, MovesKeeps DEF Sound, TakesBackAlone

LEMMA UnwindStep ==
  ASSUME IInv, NEW t \in Txns, Unwind(t)
  PROVE  Moves(t) /\ IInv'
<1>1. PICK wrote, targets, at :
        /\ Update(t, [tx[t] EXCEPT !.wrote = wrote, !.targets = targets, !.pc = at])
        /\ wrote = IF item = "RESERVED" THEN tx[t].wrote \cup {"item"} ELSE tx[t].wrote
        /\ targets \in {Effective(payments, reversals), {}}
        /\ at \in {"reverse", "commit"}
  BY DEF Unwind
<1>2. PICK new : new = [tx[t] EXCEPT !.wrote = wrote, !.targets = targets, !.pc = at]
  OBVIOUS
<1>3. /\ new = [f \in Fields |-> new[f]]
      /\ new.pc = at /\ new.wrote = wrote /\ new.kind = tx[t].kind
      /\ new.reverses = tx[t].reverses /\ new.targets = targets /\ new.sawAll = tx[t].sawAll
  BY <1>2 DEF IInv, Shape, Fields
<1>4. UNCHANGED <<committed, lock>> /\ tx[t].pc = "unwind"
  BY DEF Unwind
<1>5. tx'[t] = new /\ Moves(t) /\ lock' = lock /\ item' = item
  BY <1>1, <1>2, <1>3, <1>4, Updates DEF IInv, Moves, LockMoves, committed
<1>6. Sound(t) /\ CommittedRows
  BY DEF IInv
<1>7. targets \subseteq Rows
  BY <1>1, <1>6 DEF Effective, CommittedRows
<1>8. HoldsTheRow(t)'
  BY <1>1, <1>3, <1>4, <1>5, <1>6 DEF Sound, HoldsTheRow
<1>9. PutsBackReserved(t)'
  <2>1. "item" \in tx'[t].wrote /\ tx[t].kind = "CANCEL" => item = "RESERVED"
    BY <1>1, <1>3, <1>4, <1>5, <1>6 DEF Sound, PutsBackReserved
  <2>2. QED
    BY <1>1, <1>3, <1>5, <2>1 DEF PutsBackReserved
<1>10. SawAll(t)'
  BY <1>3, <1>4, <1>5, <1>6 DEF Sound, SawAll
<1>11. QED
  BY <1>3, <1>5, <1>7, <1>8, <1>9, <1>10, StillTakesBackAlone, MovesKeeps DEF Sound

LEMMA ReadContractStep ==
  ASSUME IInv, NEW t \in Txns, ReadContract(t)
  PROVE  Moves(t) /\ IInv'
<1>1. PICK new : new = [tx[t] EXCEPT !.stored = total, !.sawAll = TRUE, !.pc = "reversals"]
  OBVIOUS
<1>2. /\ new = [f \in Fields |-> new[f]]
      /\ new.pc = "reversals" /\ new.wrote = tx[t].wrote /\ new.kind = tx[t].kind
      /\ new.reverses = tx[t].reverses /\ new.targets = tx[t].targets /\ new.stored = total
  BY <1>1 DEF IInv, Shape, Fields
<1>3. Update(t, new) /\ UNCHANGED <<committed, lock>> /\ tx[t].pc = "derive"
  BY <1>1 DEF ReadContract
<1>4. tx'[t] = new /\ Moves(t) /\ lock' = lock /\ item' = item /\ total' = total
  BY <1>2, <1>3, Updates DEF IInv, Moves, LockMoves, committed
<1>5. Sound(t)
  BY DEF IInv
<1>6. HoldsTheRow(t)' /\ PutsBackReserved(t)' /\ SawAll(t)'
  BY <1>2, <1>3, <1>4, <1>5 DEF Sound, HoldsTheRow, PutsBackReserved, SawAll
<1>7. QED
  BY <1>2, <1>4, <1>5, <1>6, StillTakesBackAlone, MovesKeeps DEF Sound, TakesBackAlone

LEMMA ReadReversalsStep ==
  ASSUME IInv, NEW t \in Txns, ReadReversals(t)
  PROVE  Moves(t) /\ IInv'
<1>1. PICK new : new = [tx[t] EXCEPT !.taken = Reversed(SeenReversals(t)), !.pc = "payments"]
  OBVIOUS
<1>2. /\ new = [f \in Fields |-> new[f]]
      /\ new.pc = "payments" /\ new.wrote = tx[t].wrote /\ new.kind = tx[t].kind
      /\ new.amount = tx[t].amount /\ new.taken = Reversed(SeenReversals(t))
      /\ new.sawAll = tx[t].sawAll
      /\ new.reverses = tx[t].reverses /\ new.targets = tx[t].targets /\ new.stored = tx[t].stored
  BY <1>1 DEF IInv, Shape, Fields
<1>3. Update(t, new) /\ UNCHANGED <<committed, lock>> /\ tx[t].pc = "reversals"
  BY <1>1 DEF ReadReversals
<1>4. tx'[t] = new /\ Moves(t) /\ lock' = lock /\ item' = item /\ total' = total
  BY <1>2, <1>3, Updates DEF IInv, Moves, LockMoves, committed
<1>5. Sound(t)
  BY DEF IInv
<1>6. HoldsTheRow(t)' /\ PutsBackReserved(t)'
  BY <1>2, <1>3, <1>4, <1>5 DEF Sound, HoldsTheRow, PutsBackReserved
<1>7. Reversed(SeenReversals(t))' = Reversed(SeenReversals(t))
  BY <1>2, <1>4, SeesTheSame
<1>8. SawAll(t)'
  BY <1>2, <1>3, <1>4, <1>5, <1>7 DEF Sound, SawAll
<1>9. QED
  BY <1>2, <1>4, <1>5, <1>6, <1>8, StillTakesBackAlone, MovesKeeps DEF Sound, TakesBackAlone

LEMMA DeriveStep ==
  ASSUME IInv, NEW t \in Txns, Derive(t)
  PROVE  Moves(t) /\ IInv'
<1>1. PICK new : new = [tx[t] EXCEPT !.derived = SumOf(SeenRows(t) \ tx[t].taken), !.pc = "store"]
  OBVIOUS
<1>2. /\ new = [f \in Fields |-> new[f]]
      /\ new.pc = "store" /\ new.wrote = tx[t].wrote /\ new.kind = tx[t].kind
      /\ new.amount = tx[t].amount /\ new.taken = tx[t].taken /\ new.sawAll = tx[t].sawAll
      /\ new.reverses = tx[t].reverses /\ new.targets = tx[t].targets /\ new.stored = tx[t].stored
      /\ new.derived = SumOf(SeenRows(t) \ tx[t].taken)
  BY <1>1 DEF IInv, Shape, Fields
<1>3. Update(t, new) /\ UNCHANGED <<committed, lock>> /\ tx[t].pc = "payments"
  BY <1>1 DEF Derive, SumOf
<1>4. tx'[t] = new /\ Moves(t) /\ lock' = lock /\ item' = item /\ total' = total
  BY <1>2, <1>3, Updates DEF IInv, Moves, LockMoves, committed
<1>5. Sound(t)
  BY DEF IInv
<1>6. HoldsTheRow(t)' /\ PutsBackReserved(t)'
  BY <1>2, <1>3, <1>4, <1>5 DEF Sound, HoldsTheRow, PutsBackReserved
<1>7. /\ Reversed(SeenReversals(t))' = Reversed(SeenReversals(t))
      /\ SumOf(SeenRows(t) \ tx[t].taken)' = SumOf(SeenRows(t) \ tx[t].taken)
  BY <1>2, <1>4, SeesTheSame
<1>8. SawAll(t)'
  BY <1>2, <1>3, <1>4, <1>5, <1>7 DEF Sound, SawAll
<1>9. QED
  BY <1>2, <1>4, <1>5, <1>6, <1>8, StillTakesBackAlone, MovesKeeps DEF Sound, TakesBackAlone

\* Once derived, a total is carried along: a statement that changes nothing it rests on.
LEMMA CarriesOn ==
  ASSUME IInv, NEW t \in Txns, Moves(t), tx[t].pc \in {"store", "advance", "move"},
         tx'[t].pc \in {"advance", "move", "commit"}, tx'[t].wrote # {} => lock' = t,
         tx'[t].kind = "CANCEL" => tx'[t].pc = "commit",
         "item" \in tx'[t].wrote => "item" \in tx[t].wrote \/ tx[t].kind # "CANCEL",
         "total" \in tx'[t].wrote \/ tx'[t].derived = tx'[t].stored \/ ~ tx'[t].sawAll,
         \A f \in {"kind", "amount", "targets", "reverses", "derived", "stored", "taken", "sawAll"} :
            tx'[t][f] = tx[t][f]
  PROVE  IInv'
<1>1. /\ tx'[t].kind = tx[t].kind /\ tx'[t].amount = tx[t].amount /\ tx'[t].targets = tx[t].targets
      /\ tx'[t].reverses = tx[t].reverses /\ tx'[t].derived = tx[t].derived
      /\ tx'[t].stored = tx[t].stored /\ tx'[t].taken = tx[t].taken
      /\ tx'[t].sawAll = tx[t].sawAll
  BY DEF IInv, Shape, Moves, Fields
<1>2. Sound(t) /\ item' = item /\ total' = total
  BY DEF IInv, Moves
<1>3. HoldsTheRow(t)'
  BY DEF HoldsTheRow
<1>4. PutsBackReserved(t)'
  BY <1>1, <1>2 DEF Sound, PutsBackReserved
<1>5. SawAll(t)'
  BY <1>1, <1>2, SeesTheSame DEF Sound, SawAll
<1>6. QED
  BY <1>1, <1>2, <1>3, <1>4, <1>5, StillTakesBackAlone, MovesKeeps DEF Sound, TakesBackAlone

LEMMA StoreStep ==
  ASSUME IInv, NEW t \in Txns, Store(t)
  PROVE  Moves(t) /\ IInv'
<1>1. PICK wrote : /\ Update(t, [tx[t] EXCEPT !.wrote = wrote, !.pc = AfterStore(t)])
                   /\ \/ wrote = tx[t].wrote \cup {"total"} /\ TakeLock(t)
                      \/ wrote = tx[t].wrote /\ tx[t].derived = tx[t].stored /\ UNCHANGED lock
  <2>1. CASE tx[t].derived # tx[t].stored
    BY <2>1 DEF Store
  <2>2. CASE tx[t].derived = tx[t].stored
    <3>1. [tx[t] EXCEPT !.pc = AfterStore(t)] = [tx[t] EXCEPT !.wrote = tx[t].wrote, !.pc = AfterStore(t)]
      BY DEF IInv, Shape, Fields
    <3>2. QED
      BY <2>2, <3>1 DEF Store
  <2>3. QED
    BY <2>1, <2>2
<1>2. PICK new : new = [tx[t] EXCEPT !.wrote = wrote, !.pc = AfterStore(t)]
  OBVIOUS
<1>3. /\ new = [f \in Fields |-> new[f]]
      /\ new.pc = AfterStore(t) /\ new.wrote = wrote
      /\ \A f \in Fields \ {"pc", "wrote"} : new[f] = tx[t][f]
  BY <1>2 DEF IInv, Shape, Fields
<1>4. UNCHANGED committed /\ tx[t].pc = "store"
  BY DEF Store
<1>5. tx'[t] = new /\ Moves(t)
  BY <1>1, <1>2, <1>3, <1>4, Updates DEF IInv, Moves, LockMoves, committed, TakeLock
<1>6. new.pc \in {"advance", "commit"} /\ (tx[t].kind = "CANCEL" => new.pc = "commit")
  BY <1>3 DEF AfterStore
<1>7. wrote # {} => lock' = t
  BY <1>1, <1>4 DEF TakeLock, IInv, Sound, HoldsTheRow
<1>8. tx'[t].kind = tx[t].kind /\ tx'[t].derived = tx[t].derived /\ tx'[t].stored = tx[t].stored
  BY <1>3, <1>5 DEF Fields
<1>9. \A f \in {"kind", "amount", "targets", "reverses", "derived", "stored", "taken", "sawAll"} :
         tx'[t][f] = tx[t][f]
  BY <1>3, <1>5 DEF Fields
<1>10. QED
  BY <1>1, <1>3, <1>4, <1>5, <1>6, <1>7, <1>8, <1>9, CarriesOn

LEMMA AdvanceStep ==
  ASSUME IInv, NEW t \in Txns, AdvanceContractStatus(t)
  PROVE  Moves(t) /\ IInv'
<1>1. PICK next, issues, at :
        /\ Update(t, [tx[t] EXCEPT !.next = next, !.issues = issues, !.pc = at])
        /\ at \in {"commit", "move"}
  BY DEF AdvanceContractStatus
<1>2. PICK new : new = [tx[t] EXCEPT !.next = next, !.issues = issues, !.pc = at]
  OBVIOUS
<1>3. /\ new = [f \in Fields |-> new[f]]
      /\ new.pc = at
      /\ \A f \in Fields \ {"pc", "next", "issues"} : new[f] = tx[t][f]
  BY <1>2 DEF IInv, Shape, Fields
<1>4. UNCHANGED <<committed, lock>> /\ tx[t].pc = "advance"
  BY DEF AdvanceContractStatus
<1>5. tx'[t] = new /\ Moves(t) /\ lock' = lock
  BY <1>1, <1>2, <1>3, <1>4, Updates DEF IInv, Moves, LockMoves, committed
<1>6. Sound(t)
  BY DEF IInv
<1>7. tx'[t].kind = tx[t].kind /\ tx'[t].derived = tx[t].derived /\ tx'[t].stored = tx[t].stored
      /\ tx'[t].wrote = tx[t].wrote /\ tx'[t].sawAll = tx[t].sawAll
  BY <1>3, <1>5 DEF Fields
<1>8. \A f \in {"kind", "amount", "targets", "reverses", "derived", "stored", "taken", "sawAll"} :
         tx'[t][f] = tx[t][f]
  BY <1>3, <1>5 DEF Fields
<1>9. tx[t].wrote # {} => lock' = t
  BY <1>4, <1>5, <1>6 DEF Sound, HoldsTheRow
<1>10. tx[t].kind # "CANCEL"
  BY <1>4, <1>6 DEF Sound, PutsBackReserved
<1>11. "total" \in tx[t].wrote \/ tx[t].derived = tx[t].stored \/ ~ tx[t].sawAll
  BY <1>4, <1>6 DEF Sound, SawAll
<1>12. QED
  BY <1>1, <1>3, <1>4, <1>5, <1>7, <1>8, <1>9, <1>10, <1>11, CarriesOn

LEMMA MoveStatusStep ==
  ASSUME IInv, NEW t \in Txns, MoveStatus(t)
  PROVE  Moves(t) /\ IInv'
<1>1. CASE tx[t].issues /\ item \notin {"AVAILABLE", "RESERVED"}
  BY <1>1, RollBackStep DEF MoveStatus
<1>2. CASE ~ (tx[t].issues /\ item \notin {"AVAILABLE", "RESERVED"})
  <2>1. PICK wrote : /\ Update(t, [tx[t] EXCEPT !.wrote = wrote, !.pc = "commit"])
                     /\ tx[t].wrote \subseteq wrote
    BY <1>2 DEF MoveStatus
  <2>2. PICK new : new = [tx[t] EXCEPT !.wrote = wrote, !.pc = "commit"]
    OBVIOUS
  <2>3. /\ new = [f \in Fields |-> new[f]]
        /\ new.pc = "commit" /\ new.wrote = wrote
        /\ \A f \in Fields \ {"pc", "wrote"} : new[f] = tx[t][f]
    BY <2>2 DEF IInv, Shape, Fields
  <2>4. UNCHANGED committed /\ tx[t].pc = "move" /\ lock \in {NoTxn, t} /\ lock' = t
    BY <1>2 DEF MoveStatus
  <2>5. tx'[t] = new /\ Moves(t)
    BY <2>1, <2>2, <2>3, <2>4, Updates DEF IInv, Moves, LockMoves, committed
  <2>6. Sound(t)
    BY DEF IInv
  <2>7. tx'[t].kind = tx[t].kind /\ tx'[t].derived = tx[t].derived /\ tx'[t].stored = tx[t].stored
        /\ tx'[t].sawAll = tx[t].sawAll
    BY <2>3, <2>5 DEF Fields
  <2>8. \A f \in {"kind", "amount", "targets", "reverses", "derived", "stored", "taken", "sawAll"} :
           tx'[t][f] = tx[t][f]
    BY <2>3, <2>5 DEF Fields
  <2>9. tx[t].kind # "CANCEL"
    BY <2>4, <2>6 DEF Sound, PutsBackReserved
  <2>10. "total" \in wrote \/ tx[t].derived = tx[t].stored \/ ~ tx[t].sawAll
    BY <2>1, <2>4, <2>6 DEF Sound, SawAll
  <2>11. QED
    BY <2>3, <2>4, <2>5, <2>7, <2>8, <2>9, <2>10, CarriesOn
<1>3. QED
  BY <1>1, <1>2

-----------------------------------------------------------------------------
(* The commit, the one step that others see. *)

LEMMA CommitFacts ==
  ASSUME IInv, NEW t \in Txns, Commit(t)
  PROVE  /\ Shape'
         /\ tx'[t].pc = "done" /\ tx'[t].reverses = {}
         /\ \A f \in Fields \ {"pc", "reverses"} : tx'[t][f] = tx[t][f]
         /\ \A u \in Txns \ {t} : \A f \in Fields \ {"sawAll"} : tx'[u][f] = tx[u][f]
         /\ \A u \in Txns \ {t} : tx'[u].sawAll => /\ tx[u].sawAll
                                                   /\ payments' = payments
                                                   /\ reversals' = reversals
                                                   /\ total' = total
<1>1. reversals' = [r \in Rows |-> reversals'[r]]
  BY DEF Commit, SeenReversals
<1>2. PICK kept : kept = [u \in Txns |-> /\ tx[u].sawAll
                                         /\ SeenRows(t) = payments
                                         /\ SeenReversals(t) = reversals
                                         /\ SeenTotal(t) = total]
  OBVIOUS
<1>3. /\ tx' = [u \in Txns |-> tx'[u]]
      /\ tx'[t] = [tx[t] EXCEPT !.pc = "done", !.reverses = {}]
      /\ \A u \in Txns \ {t} : tx'[u] = [tx[u] EXCEPT !.sawAll = kept[u]]
  BY <1>2 DEF Commit
<1>4. \A u \in Txns : tx[u] = [f \in Fields |-> tx[u][f]]
  BY DEF IInv, Shape
<1>5. /\ tx'[t] = [f \in Fields |-> tx'[t][f]]
      /\ tx'[t].pc = "done" /\ tx'[t].reverses = {}
      /\ \A f \in Fields \ {"pc", "reverses"} : tx'[t][f] = tx[t][f]
  BY <1>3, <1>4 DEF Fields
<1>6. ASSUME NEW u \in Txns \ {t}
      PROVE  /\ tx'[u] = [f \in Fields |-> tx'[u][f]]
             /\ tx'[u].sawAll = kept[u]
             /\ \A f \in Fields \ {"sawAll"} : tx'[u][f] = tx[u][f]
  BY <1>3, <1>4 DEF Fields
<1>7. ASSUME NEW u \in Txns \ {t}, tx'[u].sawAll
      PROVE  /\ tx[u].sawAll /\ payments' = payments /\ reversals' = reversals /\ total' = total
  <2>1. kept[u]
    BY <1>6, <1>7
  <2>2. QED
    BY <1>2, <2>1 DEF Commit
<1>8. Shape'
  BY <1>1, <1>3, <1>5, <1>6 DEF Shape
<1>9. QED
  BY <1>5, <1>6, <1>7, <1>8

\* Transaction u, which goes on beside a commit, is where it was.
LEMMA GoesOnBeside ==
  ASSUME IInv, NEW t \in Txns, Commit(t), NEW u \in Txns \ {t}
  PROVE  /\ tx'[u].pc = tx[u].pc /\ tx'[u].kind = tx[u].kind /\ tx'[u].amount = tx[u].amount
         /\ tx'[u].targets = tx[u].targets /\ tx'[u].reverses = tx[u].reverses
         /\ tx'[u].wrote = tx[u].wrote /\ tx'[u].derived = tx[u].derived
         /\ tx'[u].stored = tx[u].stored /\ tx'[u].taken = tx[u].taken
  BY CommitFacts DEF Fields

LEMMA OverAtCommit ==
  ASSUME IInv, NEW t \in Txns, Commit(t)
  PROVE  /\ tx'[t].pc = "done" /\ tx'[t].reverses = {} /\ tx'[t].kind = tx[t].kind
         /\ tx'[t].amount = tx[t].amount /\ tx'[t].targets = tx[t].targets
  BY CommitFacts DEF Fields

LEMMA CommittedSawAll ==
  ASSUME IInv, NEW t \in Txns, Commit(t), NEW u \in Txns \ {t}
  PROVE  SawAll(u)'
<1> SUFFICES ASSUME tx'[u].sawAll, tx'[u].pc # "done"
             PROVE  SawAll(u)'
  BY DEF SawAll
<1>1. tx[u].sawAll /\ payments' = payments /\ reversals' = reversals /\ total' = total
  BY CommitFacts
<1>2. SawAll(u) /\ CommittedRows
  BY DEF IInv, Sound
<1>3. SeenRows(u)' = SeenRows(u)
  BY <1>1, GoesOnBeside DEF SeenRows
<1>4. Reversed(SeenReversals(u))' = Reversed(SeenReversals(u))
  BY <1>1, GoesOnBeside DEF SeenReversals, Reversed
<1>5. \A r \in Txns : tx'[r].kind = tx[r].kind /\ tx'[r].amount = tx[r].amount
  BY GoesOnBeside, OverAtCommit
<1>6. ASSUME NEW r \in SeenRows(u)
      PROVE  Signed(r)' = Signed(r)
  <2>1. r = FirstRow \/ r \in Txns
    BY <1>2 DEF CommittedRows, SeenRows, Rows
  <2>2. QED
    BY <1>5, <2>1, RowsAssumption DEF Signed
<1>7. PICK S : S = SeenRows(u) \ tx[u].taken
  OBVIOUS
<1>8. SumOf(S)' = SumOf(S)
  BY <1>6, <1>7, SumKept
<1>9. SumOf(SeenRows(u) \ tx[u].taken)' = SumOf(S)'
  <2>1. SeenRows(u)' \ tx'[u].taken = S
    BY <1>3, <1>7, GoesOnBeside
  <2>2. QED
    BY <2>1 DEF SumOf, MapThenSumSet, MapThenFoldSet
<1>10. SumOf(SeenRows(u) \ tx[u].taken)' = SumOf(SeenRows(u) \ tx[u].taken)
  BY <1>7, <1>8, <1>9
<1>11. QED
  BY <1>1, <1>2, <1>4, <1>10, GoesOnBeside DEF SawAll

LEMMA CommitStep ==
  ASSUME IInv, NEW t \in Txns, Commit(t)
  PROVE  IInv'
<1>1. CommittedRows /\ Sound(t) /\ tx[t].pc = "commit"
  BY DEF IInv, Commit
<1>2. CommittedRows'
  <2>1. payments' = SeenRows(t) /\ reversals' = SeenReversals(t)
    BY DEF Commit
  <2>2. payments' \subseteq Rows /\ \A u \in Txns : u \in payments' => tx'[u].pc = "done"
    BY <1>1, <2>1, GoesOnBeside, OverAtCommit DEF CommittedRows, SeenRows, Rows
  <2>3. \A r \in Rows : reversals'[r] \in {0, 1}
    BY <1>1, <2>1 DEF CommittedRows, Sound, TakesBackAlone, SeenReversals
  <2>4. QED
    BY <2>2, <2>3 DEF CommittedRows
<1>3. Sound(t)'
  BY <1>1, OverAtCommit DEF Sound, TakesBackAlone, HoldsTheRow, PutsBackReserved, SawAll
<1>4. ASSUME NEW u \in Txns \ {t}
      PROVE  Sound(u)'
  <2>1. Sound(u)
    BY DEF IInv
  <2>2. TakesBackAlone(u)'
    <3>1. ASSUME NEW r \in tx'[u].reverses
          PROVE  reversals'[r] = 0
      <4>1. r \in Rows /\ reversals[r] = 0 /\ r \notin tx[t].reverses
        BY <2>1, GoesOnBeside DEF Sound, TakesBackAlone
      <4>2. QED
        BY <4>1 DEF Commit, SeenReversals
    <3>2. ASSUME NEW r \in tx'[u].reverses, NEW v \in Txns \ {u}
          PROVE  r \notin tx'[v].reverses
      <4>1. CASE v = t
        BY <4>1, OverAtCommit
      <4>2. CASE v # t
        BY <2>1, <4>2, GoesOnBeside DEF Sound, TakesBackAlone
      <4>3. QED
        BY <4>1, <4>2
    <3>3. tx'[u].targets \subseteq Rows /\ tx'[u].reverses \subseteq Rows
      BY <2>1, GoesOnBeside DEF Sound, TakesBackAlone
    <3>4. QED
      BY <3>1, <3>2, <3>3 DEF TakesBackAlone
  <2>3. HoldsTheRow(u)'
    BY <2>1, GoesOnBeside DEF Sound, HoldsTheRow, Commit
  <2>4. PutsBackReserved(u)'
    <3>1. ASSUME "item" \in tx[u].wrote, tx[u].pc # "done"
          PROVE  item' = item
      <4>1. lock = u
        BY <2>1, <3>1 DEF Sound, HoldsTheRow
      <4>2. tx[t].wrote = {}
        BY <1>1, <4>1 DEF Sound, HoldsTheRow
      <4>3. QED
        BY <4>2 DEF Commit
    <3>2. QED
      BY <2>1, <3>1, GoesOnBeside DEF Sound, PutsBackReserved
  <2>5. QED
    BY <2>2, <2>3, <2>4, CommittedSawAll DEF Sound
<1>5. QED
  BY <1>2, <1>3, <1>4, CommitFacts DEF IInv

-----------------------------------------------------------------------------
LEMMA StepKeeps ==
  ASSUME IInv, NEW t \in Txns, Step(t)
  PROVE  (Moves(t) \/ Commit(t)) /\ IInv'
  BY InsertReversalsStep, MarkCancelledStep, UnwindStep, ReadContractStep, ReadReversalsStep,
     DeriveStep, StoreStep, AdvanceStep, MoveStatusStep, CommitStep DEF Step

\* Every step is a statement of one transaction or its commit, and keeps the invariant.
LEMMA NextKeeps ==
  ASSUME IInv, Next
  PROVE  (\E t \in Txns : Moves(t) \/ Commit(t)) /\ IInv'
<1>1. ASSUME NEW t \in Txns, NEW a \in TxnAmounts,
             PostPayment(t, a) \/ PostCreditRefund(t, a) \/ PostWithdrawal(t, a)
      PROVE  Moves(t) /\ IInv'
  BY <1>1, BeginStep DEF PostPayment, PostCreditRefund, PostWithdrawal
<1>2. ASSUME NEW t \in Txns, PostDeviceLoanPayment(t) \/ CancelContract(t)
      PROVE  Moves(t) /\ IInv'
  BY <1>2, BeginStep DEF PostDeviceLoanPayment, CancelContract
<1>3. ASSUME NEW t \in Txns, NEW r \in payments, ReversePayment(t, r)
      PROVE  Moves(t) /\ IInv'
  <2>1. {r} \subseteq Rows
    BY DEF IInv, CommittedRows
  <2>2. QED
    BY <1>3, <2>1, BeginStep DEF ReversePayment
<1>4. ASSUME NEW t \in Txns, NEW u \in Txns, DeadlockVictim(t, u)
      PROVE  (Moves(t) \/ Moves(u)) /\ IInv'
  BY <1>4, RollBackStep DEF DeadlockVictim
<1>5. QED
  BY <1>1, <1>2, <1>3, <1>4, StepKeeps DEF Next

LEMMA StutterKeeps ==
  ASSUME IInv, UNCHANGED vars
  PROVE  IInv'
<1>1. /\ tx' = tx /\ reversals' = reversals /\ payments' = payments /\ lock' = lock
      /\ item' = item /\ total' = total
  BY DEF vars
<1>2. Shape' /\ CommittedRows'
  BY <1>1 DEF IInv, Shape, CommittedRows
<1>3. ASSUME NEW t \in Txns
      PROVE  Sound(t)'
  <2>1. Sound(t)
    BY DEF IInv
  <2>2. TakesBackAlone(t)' /\ HoldsTheRow(t)' /\ PutsBackReserved(t)'
    BY <1>1, <2>1 DEF Sound, TakesBackAlone, HoldsTheRow, PutsBackReserved
  <2>3. SeenRows(t)' = SeenRows(t) /\ Reversed(SeenReversals(t))' = Reversed(SeenReversals(t))
    BY <1>1 DEF SeenRows, SeenReversals, Reversed
  <2>4. PICK S : S = SeenRows(t) \ tx[t].taken
    OBVIOUS
  <2>5. SumOf(S)' = SumOf(S)
    BY <1>1, SumKept DEF Signed
  <2>6. SumOf(SeenRows(t) \ tx[t].taken)' = SumOf(S)'
    BY <1>1, <2>3, <2>4 DEF SumOf, MapThenSumSet, MapThenFoldSet
  <2>7. SumOf(SeenRows(t) \ tx[t].taken)' = SumOf(SeenRows(t) \ tx[t].taken)
    BY <2>4, <2>5, <2>6
  <2>8. SawAll(t)'
    BY <1>1, <2>1, <2>3, <2>7 DEF Sound, SawAll
  <2>9. QED
    BY <2>2, <2>8 DEF Sound
<1>4. QED
  BY <1>2, <1>3 DEF IInv

LEMMA Invariance == Spec => []IInv
<1>1. IInv /\ [Next]_vars => IInv'
  BY NextKeeps, StutterKeeps
<1>2. QED
  BY InitIInv, <1>1, PTL DEF Spec

\* However reversals and cancellations overlap (reversePayment, cancelContract), no
\* payment is taken back twice: the rows not committed yet are the only ones of theirs.
THEOREM PaymentsReversedOnce == Spec => []ReversedOnce
<1>1. IInv => ReversedOnce
  BY DEF IInv, CommittedRows, ReversedOnce
<1>2. QED
  BY Invariance, <1>1, PTL

\* A phone handed over to the customer is not put back on the shelf by a cancellation
\* that had read the contract before: it read the phone again holding the contract row.
THEOREM PhonesHandedOver == Spec => HandedOverStaysOut
<1>1. ASSUME IInv, [Next]_vars, item = "ISSUED"
      PROVE  item' = "ISSUED"
  <2>1. ASSUME NEW t \in Txns, Commit(t)
        PROVE  item' = "ISSUED"
    <3>1. tx[t].kind = "CANCEL" => "item" \notin tx[t].wrote
      BY <1>1, <2>1 DEF IInv, Sound, PutsBackReserved, Commit
    <3>2. QED
      BY <1>1, <2>1, <3>1 DEF Commit
  <2>2. QED
    BY <1>1, <2>1, NextKeeps DEF Moves, vars
<1>2. IInv /\ [Next]_vars => [item = "ISSUED" => item' = "ISSUED"]_vars
  BY <1>1
<1>3. QED
  BY Invariance, <1>2, PTL DEF Spec, HandedOverStaysOut

\* A recomputation (recomputeContract) that no commit came between, from the contract it
\* read to its own commit, leaves the stored total equal to the ledger's, however wrong
\* it was before and whether it found anything to write or not.
THEOREM RecomputedIsRight == Spec => Heals
<1>1. ASSUME IInv, [Next]_vars, NEW t \in Txns, tx[t].pc = "commit", tx'[t].pc = "done", tx[t].sawAll
      PROVE  total' = LedgerTotal(payments', reversals')
  <2>1. Commit(t)
    <3>1. \A u \in Txns : ~ Moves(u)
      BY <1>1 DEF Moves
    <3>2. \A u \in Txns \ {t} : ~ Commit(u)
      BY <1>1, GoesOnBeside
    <3>3. QED
      BY <1>1, <3>1, <3>2, NextKeeps DEF vars
  <2>2. SawAll(t)
    BY <1>1 DEF IInv, Sound
  <2>3. total' = SumOf(SeenRows(t) \ Reversed(SeenReversals(t)))
    BY <1>1, <2>1, <2>2 DEF SawAll, Commit, SeenTotal
  <2>4. QED
    BY <2>1, <2>3 DEF Commit, LedgerTotal, Effective, SumOf
<1>2. IInv /\ [Next]_vars =>
        [\A t \in Txns : tx[t].pc = "commit" /\ tx'[t].pc = "done" /\ tx[t].sawAll
            => total' = LedgerTotal(payments', reversals')]_vars
  BY <1>1
<1>3. QED
  BY Invariance, <1>2, PTL DEF Spec, Heals
-----------------------------------------------------------------------------
(* Types.  A total is a number because finitely many rows are committed at any time. *)

Statuses == {"PENDING_DEPOSIT", "ACTIVE", "COMPLETED", "CANCELLED"}
Places == {"idle", "reverse", "mark", "unwind", "derive", "reversals", "payments", "store",
           "advance", "move", "commit", "done"}

Typed(x) ==
    /\ x.pc \in Places
    /\ x.amount \in Nat /\ x.stored \in Int /\ x.derived \in Int
    /\ x.pc # "idle" => x.next \in Statuses

RowTypes ==
    /\ contractType \in ContractTypes
    /\ status \in Statuses
    /\ total \in Int /\ refundDue \in Nat
    /\ item \in {"none", "AVAILABLE", "RESERVED", "ISSUED"}
    /\ IsFiniteSet(payments)

TypeInv == RowTypes /\ lock \in Txns \cup {NoTxn} /\ \A t \in Txns : Typed(tx[t])

LEMMA SumOfIsInt ==
  ASSUME NEW S, IsFiniteSet(S), \A r \in S : Signed(r) \in Int
  PROVE  SumOf(S) \in Int
<1>1. PICK f : f = [r \in S |-> Signed(r)]
  OBVIOUS
<1>2. AllInts(f, S)
  BY <1>1 DEF AllInts
<1>3. PICK g \in [SUBSET S -> Int] : IsSum(g, f, S)
  BY <1>2, SumsUpExists
<1>4. \A h : IsSum(h, f, S) <=> h = SumsBody(f, S, h)
  BY Zenon DEF IsSum, SumsBody
<1>5. IsSum(Sums(f, S), f, S)
  BY <1>3, <1>4, Zenon DEF Sums
<1>6. SumsUp(g, f, S) /\ SumsUp(Sums(f, S), f, S)
  BY <1>3, <1>5 DEF SumsUp, IsSum
<1>7. Sums(f, S)[S] = g[S]
  BY <1>6, SumsAgree
<1>8. QED
  BY <1>1, <1>3, <1>7, SumOfIs

LEMMA SignedIsInt ==
  ASSUME TypeInv, NEW r \in Rows
  PROVE  Signed(r) \in Int
<1>1. CASE r = FirstRow
  BY <1>1, MoneyAssumption DEF Signed
<1>2. CASE r \in Txns
  <2>1. tx[r].amount \in Nat
    BY <1>2 DEF TypeInv, Typed
  <2>2. r # FirstRow
    BY <1>2, RowsAssumption
  <2>3. QED
    BY <2>1, <2>2 DEF Signed
<1>3. QED
  BY <1>1, <1>2 DEF Rows

LEMMA SeenTypes ==
  ASSUME IInv, TypeInv, NEW t \in Txns
  PROVE  /\ IsFiniteSet(SeenRows(t)) /\ SeenRows(t) \subseteq Rows
         /\ \A S \in SUBSET SeenRows(t) : SumOf(S) \in Int
         /\ SeenTotal(t) \in Int /\ NextStatus(t) \in Statuses
<1>1. IsFiniteSet(SeenRows(t))
  BY FS_AddElement DEF SeenRows, TypeInv, RowTypes
<1>2. SeenRows(t) \subseteq Rows
  BY DEF IInv, CommittedRows, SeenRows, Rows
<1>3. ASSUME NEW S \in SUBSET SeenRows(t)
      PROVE  SumOf(S) \in Int
  <2>1. IsFiniteSet(S) /\ \A r \in S : Signed(r) \in Int
    BY <1>1, <1>2, FS_Subset, SignedIsInt
  <2>2. QED
    BY <2>1, SumOfIsInt
<1>4. SeenTotal(t) \in Int
  BY DEF SeenTotal, TypeInv, RowTypes, Typed
<1>5. NextStatus(t) \in Statuses
  <2>1. status \in Statuses
    BY DEF TypeInv, RowTypes
  <2>2. QED
    BY <2>1 DEF NextStatus, Statuses
<1>6. QED
  BY <1>1, <1>2, <1>3, <1>4, <1>5

\* A statement keeps the types if it keeps those of its own transaction.
LEMMA TypesKept ==
  ASSUME IInv, TypeInv, NEW t \in Txns, NEW new, Update(t, new), UNCHANGED committed,
         lock' \in Txns \cup {NoTxn}, Typed(new)
  PROVE  TypeInv'
<1>1. tx' = [u \in Txns |-> IF u = t THEN new ELSE tx[u]]
  BY DEF Update, IInv, Shape
<1>2. \A u \in Txns : Typed(tx'[u])
  BY <1>1 DEF TypeInv
<1>3. RowTypes'
  BY DEF TypeInv, RowTypes, committed
<1>4. QED
  BY <1>2, <1>3 DEF TypeInv, Typed

LEMMA BeginTypes ==
  ASSUME IInv, TypeInv, NEW t \in Txns, NEW kind, NEW amount \in Nat, NEW targets,
         NEW at \in Places, Begin(t, kind, amount, targets, at)
  PROVE  TypeInv'
<1>1. PICK new : new = [Idle EXCEPT !.kind = kind, !.amount = amount, !.targets = targets,
                                    !.stored = total, !.next = status, !.pc = at]
  OBVIOUS
<1>2. Update(t, new) /\ UNCHANGED <<committed, lock>>
  BY <1>1 DEF Begin, Update
<1>3. new.pc = at /\ new.amount = amount /\ new.stored = total /\ new.next = status /\ new.derived = 0
  BY <1>1 DEF Idle
<1>4. Typed(new)
  BY <1>3 DEF Typed, TypeInv, RowTypes
<1>5. QED
  BY <1>2, <1>4, TypesKept DEF TypeInv

LEMMA RollBackTypes ==
  ASSUME IInv, TypeInv, NEW t \in Txns, tx[t].pc # "idle", RollBack(t)
  PROVE  TypeInv'
<1>1. PICK new : new = [tx[t] EXCEPT !.pc = "done", !.kind = "none", !.reverses = {}]
  OBVIOUS
<1>2. /\ new.pc = "done" /\ new.amount = tx[t].amount /\ new.stored = tx[t].stored
      /\ new.next = tx[t].next /\ new.derived = tx[t].derived
  BY <1>1 DEF IInv, Shape, Fields
<1>3. Typed(new)
  BY <1>2 DEF Typed, TypeInv, Places
<1>4. Update(t, new) /\ UNCHANGED committed /\ lock' \in Txns \cup {NoTxn}
  BY <1>1 DEF RollBack, TypeInv
<1>5. QED
  BY <1>3, <1>4, TypesKept

\* Statements that write nothing to the rows: what each leaves in hand.
LEMMA StatementTypes ==
  ASSUME IInv, TypeInv, NEW t \in Txns,
         \/ InsertReversals(t) \/ MarkCancelled(t) \/ Unwind(t) \/ ReadContract(t) \/ ReadReversals(t)
         \/ Derive(t) \/ Store(t) \/ AdvanceContractStatus(t) \/ MoveStatus(t)
  PROVE  TypeInv'
<1>1. /\ tx[t] = [f \in Fields |-> tx[t][f]] /\ Typed(tx[t])
      /\ lock \in Txns \cup {NoTxn} /\ total \in Int /\ t \in Txns \cup {NoTxn}
  BY DEF IInv, Shape, TypeInv, RowTypes
<1>2. CASE InsertReversals(t)
  <2>1. CASE RollBack(t)
    BY <1>2, <2>1, RollBackTypes DEF InsertReversals
  <2>2. CASE Update(t, [tx[t] EXCEPT !.reverses = tx[t].targets, !.pc = "derive"]) /\ UNCHANGED <<committed, lock>>
    <3>1. PICK new : new = [tx[t] EXCEPT !.reverses = tx[t].targets, !.pc = "derive"]
      OBVIOUS
    <3>2. /\ new.pc = "derive" /\ new.amount = tx[t].amount /\ new.stored = tx[t].stored
          /\ new.derived = tx[t].derived /\ new.next = tx[t].next
      BY <1>1, <3>1 DEF Fields
    <3>3. Typed(new)
      BY <1>1, <1>2, <3>2 DEF Typed, Places, InsertReversals
    <3>4. QED
      BY <1>1, <2>2, <3>1, <3>3, TypesKept
  <2>3. QED
    BY <1>2, <2>1, <2>2 DEF InsertReversals
<1>3. CASE MarkCancelled(t)
  <2>1. PICK new : new = [tx[t] EXCEPT !.wrote = {"status", "refund"},
                                       !.amount = IF tx[t].stored > 0 THEN tx[t].stored ELSE 0,
                                       !.pc = "unwind"]
    OBVIOUS
  <2>2. /\ new.pc = "unwind" /\ new.amount = (IF tx[t].stored > 0 THEN tx[t].stored ELSE 0)
        /\ new.stored = tx[t].stored /\ new.derived = tx[t].derived /\ new.next = tx[t].next
    BY <1>1, <2>1 DEF Fields
  <2>3. Typed(new)
    BY <1>1, <1>3, <2>2 DEF Typed, Places, MarkCancelled
  <2>4. QED
    BY <1>1, <1>3, <2>1, <2>3, TypesKept DEF MarkCancelled, TakeLock
<1>4. CASE Unwind(t)
  <2>1. PICK wrote : wrote = IF item = "RESERVED" THEN tx[t].wrote \cup {"item"} ELSE tx[t].wrote
    OBVIOUS
  <2>2. PICK unwinds \in BOOLEAN : unwinds = ((item = "RESERVED" \/ contractType = "SAVE_TO_OWN") /\ tx[t].stored > 0)
    OBVIOUS
  <2>3. PICK targets, at : /\ targets = IF unwinds THEN Effective(payments, reversals) ELSE {}
                           /\ at = IF unwinds THEN "reverse" ELSE "commit"
    OBVIOUS
  <2>4. PICK new : new = [tx[t] EXCEPT !.wrote = wrote, !.targets = targets, !.pc = at]
    OBVIOUS
  <2>5. /\ new.pc = at /\ new.amount = tx[t].amount /\ new.stored = tx[t].stored
        /\ new.derived = tx[t].derived /\ new.next = tx[t].next
    BY <1>1, <2>4 DEF Fields
  <2>6. Typed(new)
    BY <1>1, <1>4, <2>3, <2>5 DEF Typed, Places, Unwind
  <2>7. Update(t, new) /\ UNCHANGED <<committed, lock>>
    BY <1>1, <1>4, <2>1, <2>2, <2>3, <2>4 DEF Unwind
  <2>8. QED
    BY <1>1, <2>6, <2>7, TypesKept
<1>5. CASE ReadContract(t)
  <2>1. PICK new : new = [tx[t] EXCEPT !.stored = total, !.sawAll = TRUE, !.pc = "reversals"]
    OBVIOUS
  <2>2. /\ new.pc = "reversals" /\ new.amount = tx[t].amount /\ new.stored = total
        /\ new.derived = tx[t].derived /\ new.next = tx[t].next
    BY <1>1, <2>1 DEF Fields
  <2>3. Typed(new)
    BY <1>1, <1>5, <2>2 DEF Typed, Places, ReadContract
  <2>4. QED
    BY <1>1, <1>5, <2>1, <2>3, TypesKept DEF ReadContract
<1>6. CASE ReadReversals(t)
  <2>1. PICK new : new = [tx[t] EXCEPT !.taken = Reversed(SeenReversals(t)), !.pc = "payments"]
    OBVIOUS
  <2>2. /\ new.pc = "payments" /\ new.amount = tx[t].amount /\ new.stored = tx[t].stored
        /\ new.derived = tx[t].derived /\ new.next = tx[t].next
    BY <1>1, <2>1 DEF Fields
  <2>3. Typed(new)
    BY <1>1, <1>6, <2>2 DEF Typed, Places, ReadReversals
  <2>4. QED
    BY <1>1, <1>6, <2>1, <2>3, TypesKept DEF ReadReversals
<1>7. CASE Derive(t)
  <2>1. PICK sum : sum = SumOf(SeenRows(t) \ tx[t].taken)
    OBVIOUS
  <2>2. PICK new : new = [tx[t] EXCEPT !.derived = sum, !.pc = "store"]
    OBVIOUS
  <2>3. /\ new.pc = "store" /\ new.amount = tx[t].amount /\ new.stored = tx[t].stored
        /\ new.derived = sum /\ new.next = tx[t].next
    BY <1>1, <2>2 DEF Fields
  <2>4. sum \in Int
    BY <2>1, SeenTypes
  <2>5. Typed(new)
    BY <1>1, <1>7, <2>3, <2>4 DEF Typed, Places, Derive
  <2>6. Update(t, new) /\ UNCHANGED <<committed, lock>>
    BY <1>7, <2>1, <2>2 DEF Derive, SumOf
  <2>7. QED
    BY <1>1, <2>5, <2>6, TypesKept
<1>8. CASE Store(t)
  <2>1. PICK at : at = AfterStore(t) /\ at \in {"advance", "commit"}
    BY DEF AfterStore
  <2>2. PICK new : new = IF tx[t].derived # tx[t].stored
                         THEN [tx[t] EXCEPT !.wrote = @ \cup {"total"}, !.pc = AfterStore(t)]
                         ELSE [tx[t] EXCEPT !.pc = AfterStore(t)]
    OBVIOUS
  <2>3. /\ new.pc = at /\ new.amount = tx[t].amount /\ new.stored = tx[t].stored
        /\ new.derived = tx[t].derived /\ new.next = tx[t].next
    BY <1>1, <2>1, <2>2 DEF Fields
  <2>4. Typed(new)
    BY <1>1, <1>8, <2>1, <2>3 DEF Typed, Places, Store
  <2>5. Update(t, new) /\ UNCHANGED committed /\ lock' \in Txns \cup {NoTxn}
    BY <1>1, <1>8, <2>2 DEF Store, TakeLock
  <2>6. QED
    BY <2>4, <2>5, TypesKept
<1>9. CASE AdvanceContractStatus(t)
  <2>1. PICK next \in Statuses : next = NextStatus(t)
    BY SeenTypes
  <2>2. PICK issues, at : /\ issues = (status = "PENDING_DEPOSIT" /\ next # status)
                          /\ at = IF next = status THEN "commit" ELSE "move"
    OBVIOUS
  <2>3. PICK new : new = [tx[t] EXCEPT !.next = next, !.issues = issues, !.pc = at]
    OBVIOUS
  <2>4. /\ new.pc = at /\ new.amount = tx[t].amount /\ new.stored = tx[t].stored
        /\ new.derived = tx[t].derived /\ new.next = next
    BY <1>1, <2>3 DEF Fields
  <2>5. Typed(new)
    BY <1>1, <2>2, <2>4 DEF Typed, Places
  <2>6. Update(t, new) /\ UNCHANGED <<committed, lock>>
    BY <1>9, <2>1, <2>2, <2>3 DEF AdvanceContractStatus
  <2>7. QED
    BY <1>1, <2>5, <2>6, TypesKept
<1>10. CASE MoveStatus(t)
  <2>1. CASE RollBack(t)
    BY <1>10, <2>1, RollBackTypes DEF MoveStatus
  <2>2. CASE ~RollBack(t)
    <3>1. PICK wrote : wrote = tx[t].wrote \cup {"status"} \cup IF tx[t].issues THEN {"item"} ELSE {}
      OBVIOUS
    <3>2. PICK new : new = [tx[t] EXCEPT !.wrote = wrote, !.pc = "commit"]
      OBVIOUS
    <3>3. /\ new.pc = "commit" /\ new.amount = tx[t].amount /\ new.stored = tx[t].stored
          /\ new.derived = tx[t].derived /\ new.next = tx[t].next
      BY <1>1, <3>2 DEF Fields
    <3>4. Typed(new)
      BY <1>1, <1>10, <3>3 DEF Typed, Places, MoveStatus
    <3>5. Update(t, new) /\ UNCHANGED committed /\ lock' \in Txns \cup {NoTxn}
      BY <1>1, <1>10, <2>2, <3>1, <3>2 DEF MoveStatus
    <3>6. QED
      BY <3>4, <3>5, TypesKept
  <2>3. QED
    BY <2>1, <2>2
<1>11. QED
  BY <1>2, <1>3, <1>4, <1>5, <1>6, <1>7, <1>8, <1>9, <1>10

LEMMA CommitTypes ==
  ASSUME IInv, TypeInv, NEW t \in Txns, Commit(t)
  PROVE  TypeInv'
<1>1. tx[t] = [f \in Fields |-> tx[t][f]] /\ Typed(tx[t]) /\ RowTypes /\ tx[t].pc = "commit"
  BY DEF IInv, Shape, TypeInv, Commit
<1>2. total' \in Int /\ IsFiniteSet(payments')
  BY SeenTypes DEF Commit
<1>3. status' \in Statuses
  BY <1>1 DEF Commit, RowTypes, Typed, Statuses
<1>4. refundDue' \in Nat
  BY <1>1 DEF Commit, RowTypes, Typed
<1>5. item' \in {"none", "AVAILABLE", "RESERVED", "ISSUED"}
  BY <1>1 DEF Commit, RowTypes
<1>6. RowTypes'
  BY <1>1, <1>2, <1>3, <1>4, <1>5 DEF RowTypes, Commit
<1>7. ASSUME NEW u \in Txns
      PROVE  Typed(tx'[u])
  <2>1. CASE u = t
    <3>1. PICK new : new = [tx[t] EXCEPT !.pc = "done", !.reverses = {}]
      OBVIOUS
    <3>2. tx'[t] = new
      BY <3>1 DEF Commit
    <3>3. /\ new.pc = "done" /\ new.amount = tx[t].amount /\ new.stored = tx[t].stored
          /\ new.derived = tx[t].derived /\ new.next = tx[t].next
      BY <1>1, <3>1 DEF Fields
    <3>4. QED
      BY <1>1, <2>1, <3>2, <3>3 DEF Typed, Places
  <2>2. CASE u # t
    <3>1. PICK saw : saw = (tx[u].sawAll /\ SeenRows(t) = payments /\ SeenReversals(t) = reversals
                                         /\ SeenTotal(t) = total)
      OBVIOUS
    <3>2. tx[u] = [f \in Fields |-> tx[u][f]] /\ Typed(tx[u])
      BY DEF IInv, Shape, TypeInv
    <3>3. tx'[u] = [tx[u] EXCEPT !.sawAll = saw]
      BY <2>2, <3>1, <3>2 DEF Commit, Fields
    <3>4. /\ tx'[u].pc = tx[u].pc /\ tx'[u].amount = tx[u].amount /\ tx'[u].stored = tx[u].stored
          /\ tx'[u].derived = tx[u].derived /\ tx'[u].next = tx[u].next
      BY <3>2, <3>3 DEF Fields
    <3>5. QED
      BY <3>2, <3>4 DEF Typed
  <2>3. QED
    BY <2>1, <2>2
<1>8. lock' \in Txns \cup {NoTxn}
  BY DEF Commit, TypeInv
<1>9. QED
  BY <1>6, <1>7, <1>8 DEF TypeInv, Typed

LEMMA InitTypes == Init => TypeInv
<1> SUFFICES ASSUME Init
             PROVE  TypeInv
  OBVIOUS
<1>1. RowTypes
  <2>1. IsFiniteSet(payments)
    BY FS_EmptySet, FS_Singleton DEF Init
  <2>2. QED
    BY <2>1, MoneyAssumption DEF Init, RowTypes, Statuses
<1>2. ASSUME NEW t \in Txns
      PROVE  Typed(tx[t])
  BY DEF Init, Idle, Typed, Places
<1>3. QED
  BY <1>1, <1>2 DEF TypeInv, Init

LEMMA NextTypes ==
  ASSUME IInv, TypeInv, [Next]_vars
  PROVE  TypeInv'
<1>1. CASE UNCHANGED vars
  BY <1>1 DEF vars, TypeInv, RowTypes, Typed
<1>2. ASSUME NEW t \in Txns, Step(t)
      PROVE  TypeInv'
  BY <1>2, StatementTypes, CommitTypes DEF Step
<1>3. ASSUME NEW t \in Txns, NEW u \in Txns, DeadlockVictim(t, u)
      PROVE  TypeInv'
  BY <1>3, RollBackTypes DEF DeadlockVictim
<1>4. ASSUME NEW t \in Txns, NEW a \in TxnAmounts,
             PostPayment(t, a) \/ PostCreditRefund(t, a) \/ PostWithdrawal(t, a)
      PROVE  TypeInv'
  <2>1. a \in Nat /\ "derive" \in Places
    BY MoneyAssumption DEF Places
  <2>2. QED
    BY <1>4, <2>1, BeginTypes DEF PostPayment, PostCreditRefund, PostWithdrawal
<1>5. ASSUME NEW t \in Txns, PostDeviceLoanPayment(t) \/ CancelContract(t)
      PROVE  TypeInv'
  <2>1. Principal \in Nat /\ 0 \in Nat /\ {"derive", "mark"} \subseteq Places
    BY MoneyAssumption DEF Places
  <2>2. QED
    BY <1>5, <2>1, BeginTypes DEF PostDeviceLoanPayment, CancelContract
<1>6. ASSUME NEW t \in Txns, NEW r \in payments, ReversePayment(t, r)
      PROVE  TypeInv'
  <2>1. 0 \in Nat /\ "reverse" \in Places
    BY DEF Places
  <2>2. QED
    BY <1>6, <2>1, BeginTypes DEF ReversePayment
<1>7. QED
  BY <1>1, <1>2, <1>3, <1>4, <1>5, <1>6 DEF Next

\* The rows keep their types and what is written and not committed is written under the
\* lock, whatever transactions overlap (recomputeContract, cancelContract and
\* advanceContractStatus write the contract row).
THEOREM RowsAreTyped == Spec => []TypeOK
<1>1. IInv /\ TypeInv => TypeOK
  <2>1. SUFFICES ASSUME IInv, TypeInv
                 PROVE  TypeOK
    OBVIOUS
  <2>2. payments \subseteq Rows /\ reversals \in [Rows -> Nat]
    BY <2>1 DEF IInv, Shape, CommittedRows
  <2>3. ASSUME NEW t \in Txns
        PROVE  /\ tx[t].pc \in Places
               /\ tx[t].reverses \subseteq Rows
               /\ tx[t].pc \in {"unwind", "advance", "commit"} /\ tx[t].wrote # {} => lock = t
    BY <2>1 DEF IInv, Sound, TakesBackAlone, HoldsTheRow, TypeInv, Typed
  <2>4. QED
    BY <2>1, <2>2, <2>3 DEF TypeOK, TypeInv, RowTypes, Statuses, Places
<1>2. IInv /\ TypeInv /\ [Next]_vars => TypeInv'
  BY NextTypes
<1>3. QED
  BY Invariance, InitTypes, <1>1, <1>2, PTL DEF Spec
=============================================================================

------------------------ MODULE ContractLedgerProofs ------------------------
(***************************************************************************)
(* For any terms, amounts, charges, schedules and bounds: the stored       *)
(* totals, instalments and charges are the ledger's, however often it is   *)
(* rescheduled; the phone is where the contract's status says; a contract  *)
(* completes only when it is paid and ends once; and paying the arrears    *)
(* ends a default.  What is stored is always derived anew from the         *)
(* ledger, so the work is in what the ledger, the schedule and the         *)
(* charges have to be for that to come out right: LedgerInv for the        *)
(* totals, AccountInv for the rows.  What is needed of sums comes from     *)
(* SumTheorems.                                                            *)
(***************************************************************************)
EXTENDS ContractLedger, SumTheorems

IsSeq(s) == \E S : s \in Seq(S)

\* What makes the totals inductive: a resubmission resets the balance and not what was paid,
\* so nothing may have been paid by then.
LedgerInv ==
    /\ deal \in Deals
    /\ status \in Statuses
    /\ item \in {"AVAILABLE", "RESERVED", "ISSUED"}
    /\ IsSeq(payments)
    /\ status \in PreApproval => payments = <<>>
    /\ TotalsMatchLedger
    /\ PhoneFollowsStatus

-----------------------------------------------------------------------------
(* The ledger as a sequence. *)

LEMMA AppendIsSeq ==
  ASSUME NEW s, IsSeq(s), NEW e
  PROVE  /\ IsSeq(Append(s, e))
         /\ Len(Append(s, e)) = Len(s) + 1
         /\ Append(s, e)[Len(s) + 1] = e
<1>1. PICK S : s \in Seq(S)
  BY DEF IsSeq
<1>2. s \in Seq(S \cup {e})
  BY <1>1
<1>3. Append(s, e) \in Seq(S \cup {e})
  BY <1>2
<1>4. QED
  BY <1>2, <1>3 DEF IsSeq

\* A row-by-row rewrite of the ledger keeps its length.
LEMMA RewrittenIsSeq ==
  ASSUME NEW s, IsSeq(s), NEW r, DOMAIN r = DOMAIN s, r = [i \in DOMAIN s |-> r[i]]
  PROVE  IsSeq(r) /\ Len(r) = Len(s)
<1>1. PICK S : s \in Seq(S)
  BY DEF IsSeq
<1>2. DOMAIN s = 1..Len(s) /\ Len(s) \in Nat
  BY <1>1
<1>3. r \in Seq({r[i] : i \in DOMAIN s})
  BY <1>2
<1>4. Len(r) = Len(s)
  <2>1. 1..Len(r) = 1..Len(s) /\ Len(r) \in Nat
    BY <1>2, <1>3
  <2>2. CASE Len(r) < Len(s)
    <3>1. Len(s) \in 1..Len(s) /\ Len(s) \notin 1..Len(r)
      BY <1>2, <2>1, <2>2
    <3>2. QED
      BY <2>1, <3>1
  <2>3. CASE Len(s) < Len(r)
    <3>1. Len(r) \in 1..Len(r) /\ Len(r) \notin 1..Len(s)
      BY <1>2, <2>1, <2>3
    <3>2. QED
      BY <2>1, <3>1
  <2>4. QED
    BY <1>2, <2>1, <2>2, <2>3
<1>5. QED
  BY <1>3, <1>4 DEF IsSeq

LEMMA ReversedIsSeq ==
  ASSUME IsSeq(payments), NEW S
  PROVE  IsSeq(Reversed(payments, S)) /\ Len(Reversed(payments, S)) = Len(payments)
  BY RewrittenIsSeq DEF Reversed

\* An empty ledger adds up to nothing.
LEMMA EmptyLedger == LedgerTotal(<<>>) = 0
<1>1. EffectivePayments(<<>>) = {}
  BY DEF EffectivePayments
<1>2. QED
  BY <1>1, SumEmpty DEF LedgerTotal, SumFunction

-----------------------------------------------------------------------------
(* What a payment puts where. *)

Charges == [instalment : 0..MaxInstalmentNo, amount : Nat \ {0}, isPaid : BOOLEAN]

\* One charge of the loop over them: "acc" is what is left and which were paid so far.
Cover(acc, k) ==
    IF ~penalties[k].isPaid /\ acc.left >= penalties[k].amount
    THEN [left |-> acc.left - penalties[k].amount, paid |-> acc.paid \cup {k}]
    ELSE acc

Covers(g, money, numbers) ==
    g = [s \in SUBSET DOMAIN numbers |->
            IF s = {} THEN [left |-> money, paid |-> {}]
            ELSE Cover(g[s \ {Max(s)}], numbers[Max(s)])]

LEMMA ChargesCoveredIs ==
  ASSUME NEW money
  PROVE  \E numbers : /\ numbers = [k \in DOMAIN penalties |-> k]
                      /\ ChargesCovered(money) = (CHOOSE g : Covers(g, money, numbers))[DOMAIN numbers]
  BY Zenon DEF ChargesCovered, FoldLeftDomain, FoldLeft, MapThenFoldSet, Covers, Cover

LEMMA MaxOfSome ==
  ASSUME NEW S, IsFiniteSet(S), S \subseteq Int, S # {}
  PROVE  Max(S) \in S /\ \A n \in S : Max(S) >= n
  BY MaxIsIn DEF Max

LEMMA SeqDomain ==
  ASSUME NEW s, IsSeq(s)
  PROVE  Len(s) \in Nat /\ DOMAIN s = 1..Len(s) /\ IsFiniteSet(DOMAIN s) /\ DOMAIN s \subseteq Int
<1>1. Len(s) \in Nat /\ DOMAIN s = 1..Len(s)
  BY DEF IsSeq
<1>2. QED
  BY <1>1, FS_Interval

\* A payment spends what it has on charges, and pays only what is not paid.
LEMMA CoveredCharges ==
  ASSUME NEW money \in Int, penalties \in Seq(Charges)
  PROVE  /\ ChargesCovered(money).left \in Int
         /\ ChargesCovered(money).paid \in SUBSET {k \in DOMAIN penalties : ~penalties[k].isPaid}
<1> DEFINE S == DOMAIN penalties
           U == {k \in DOMAIN penalties : ~penalties[k].isPaid}
           V == [left : Int, paid : SUBSET U]
           base == [left |-> money, paid |-> {}]
           step == [k \in S |-> [v \in V |-> Cover(v, k)]]
           c == [s \in SUBSET S |-> Max(s)]
<1>1. IsFiniteSet(S) /\ S \subseteq Int
  BY SeqDomain DEF IsSeq
<1>2. base \in V
  OBVIOUS
<1>3. \A k \in S : \A v \in V : Cover(v, k) \in V
  <2> TAKE k \in S
  <2> TAKE v \in V
  <2>1. penalties[k] \in Charges
    OBVIOUS
  <2>2. QED
    BY <2>1 DEF Cover, Charges
<1>4. \A v \in V : \A k \in S : step[k][v] \in V
  BY <1>3
<1>5. \A s \in SUBSET S : s # {} => c[s] \in s /\ c[s] = Max(s)
  BY <1>1, MaxOfSome, FS_Subset
<1> HIDE DEF V
<1>6. PICK g \in [SUBSET S -> V] : FoldsOver(g, S, base, step, c)
  <2> HIDE DEF base, step, c
  <2>1. QED
    BY <1>1, <1>2, <1>4, <1>5, FoldExists
<1>7. PICK numbers : /\ numbers = [k \in DOMAIN penalties |-> k]
                     /\ ChargesCovered(money) = (CHOOSE f : Covers(f, money, numbers))[DOMAIN numbers]
  BY ChargesCoveredIs
<1>8. \A s \in SUBSET S : g[s] = IF s = {} THEN base ELSE Cover(g[s \ {Max(s)}], numbers[Max(s)])
  <2> SUFFICES ASSUME NEW s \in SUBSET S
               PROVE  g[s] = IF s = {} THEN base ELSE Cover(g[s \ {Max(s)}], numbers[Max(s)])
    OBVIOUS
  <2>1. g[s] = IF s = {} THEN base ELSE step[c[s]][g[s \ {c[s]}]]
    BY <1>6 DEF FoldsOver
  <2>2. CASE s = {}
    BY <2>1, <2>2
  <2>3. CASE s # {}
    <3>1. c[s] = Max(s) /\ Max(s) \in S /\ numbers[Max(s)] = Max(s)
      BY <1>5, <1>7, <2>3
    <3>2. g[s \ {Max(s)}] \in V
      BY <1>6
    <3>3. step[Max(s)][g[s \ {Max(s)}]] = Cover(g[s \ {Max(s)}], Max(s))
      BY <3>1, <3>2
    <3>4. QED
      BY <2>1, <2>3, <3>1, <3>3
  <2>4. QED
    BY <2>2, <2>3
<1>9. Covers(g, money, numbers)
  <2>1. DOMAIN numbers = S
    BY <1>7
  <2>2. g = [s \in SUBSET S |-> g[s]]
    BY <1>6
  <2>3. QED
    BY <1>8, <2>1, <2>2 DEF Covers
<1>10. PICK f : f = CHOOSE h : Covers(h, money, numbers)
  OBVIOUS
<1>11. Covers(f, money, numbers)
  BY <1>9, <1>10, Zenon
<1>12. \A s \in SUBSET S : f[s] = IF s = {} THEN base ELSE Cover(f[s \ {Max(s)}], numbers[Max(s)])
  <2>1. DOMAIN numbers = S
    BY <1>7
  <2>2. QED
    BY <1>11, <2>1 DEF Covers
<1> DEFINE T == {s \in SUBSET S : f[s] = g[s]}
<1>13. \A s \in SUBSET S : s \in T
  <2>1. {} \in T
    BY <1>8, <1>12
  <2>2. \A s \in SUBSET S : s # {} => c[s] \in s /\ (s \ {c[s]} \in T => s \in T)
    <3> SUFFICES ASSUME NEW s \in SUBSET S, s # {}
                 PROVE  c[s] \in s /\ (s \ {c[s]} \in T => s \in T)
      OBVIOUS
    <3>1. c[s] \in s /\ c[s] = Max(s)
      BY <1>5
    <3> HIDE DEF c, base
    <3>2. QED
      BY <1>8, <1>12, <3>1
  <2>3. T \in SUBSET SUBSET S
    OBVIOUS
  <2> HIDE DEF T, c, S
  <2>4. PickInductive(T, c, S)
    BY <2>1, <2>2, <2>3 DEF PickInductive
  <2>5. QED
    BY <1>1, <2>4, PickInduct
<1>14. ChargesCovered(money) = g[S]
  <2>1. DOMAIN numbers = S
    BY <1>7
  <2>2. f[S] = g[S]
    BY <1>13
  <2>3. QED
    BY <1>7, <1>10, <2>1, <2>2
<1>15. ChargesCovered(money) \in V
  BY <1>6, <1>14
<1>16. QED
  BY <1>15 DEF V

-----------------------------------------------------------------------------
(* Rows of the ledger, and what they put on an instalment. *)

PartialOn(S) == UNION {[D -> Nat] : D \in SUBSET S}

\* A row whose allocations are to the instalments I and the charges K.
Rows(I, K) ==
    [entryType : {"DEPOSIT", "INSTALMENT_PAYMENT", "CREDIT_REFUND"}, amount : Nat,
     reversed : BOOLEAN, toInstalments : PartialOn(I), toPenalties : PartialOn(K)]

LEMMA PartialFacts ==
  ASSUME NEW S, NEW f \in PartialOn(S)
  PROVE  DOMAIN f \in SUBSET S /\ \A x \in DOMAIN f : f[x] \in Nat
<1>1. PICK D \in SUBSET S : f \in [D -> Nat]
  BY DEF PartialOn
<1>2. QED
  BY <1>1

LEMMA PartialIs ==
  ASSUME NEW S, NEW D \in SUBSET S, NEW f \in [D -> Nat]
  PROVE  f \in PartialOn(S)
  BY DEF PartialOn

LEMMA RowFacts ==
  ASSUME NEW I, NEW K, NEW p \in Rows(I, K)
  PROVE  /\ p.amount \in Nat /\ p.reversed \in BOOLEAN
         /\ DOMAIN p.toInstalments \in SUBSET I
         /\ \A n \in DOMAIN p.toInstalments : p.toInstalments[n] \in Nat
         /\ DOMAIN p.toPenalties \in SUBSET K
         /\ \A k \in DOMAIN p.toPenalties : p.toPenalties[k] \in Nat
<1>1. p.toInstalments \in PartialOn(I) /\ p.toPenalties \in PartialOn(K)
  BY DEF Rows
<1>2. p.amount \in Nat /\ p.reversed \in BOOLEAN
  BY DEF Rows
<1>3. QED
  BY <1>1, <1>2, PartialFacts

LEMMA RowsOfSeq ==
  ASSUME NEW I, NEW K, NEW pays \in Seq(Rows(I, K))
  PROVE  /\ IsSeq(pays) /\ \A i \in DOMAIN pays : pays[i] \in Rows(I, K)
         /\ DOMAIN pays = 1..Len(pays) /\ Len(pays) \in Nat /\ IsFiniteSet(DOMAIN pays)
<1>1. IsSeq(pays)
  BY DEF IsSeq
<1>2. QED
  BY <1>1, SeqDomain

LEMMA PaidIsNat ==
  ASSUME NEW I, NEW K, NEW pays \in Seq(Rows(I, K)), NEW n
  PROVE  /\ IsFiniteSet(PaysInstalment(pays, n))
         /\ \A i \in PaysInstalment(pays, n) : pays[i].toInstalments[n] \in Nat
         /\ PaidOnInstalment(pays, n) \in Nat
<1> DEFINE S == PaysInstalment(pays, n)
           f == [i \in S |-> pays[i].toInstalments[n]]
<1>1. S \in SUBSET DOMAIN pays
  BY DEF PaysInstalment, EffectivePayments
<1>2. IsFiniteSet(S)
  BY <1>1, RowsOfSeq, FS_Subset
<1>3. \A i \in S : pays[i].toInstalments[n] \in Nat
  BY <1>1, RowsOfSeq, RowFacts DEF PaysInstalment
<1>4. SumFunctionOnSet(f, S) \in Nat
  <2>1. \A i \in S : f[i] \in Nat
    BY <1>3
  <2> HIDE DEF f, S
  <2>2. QED
    BY <1>2, <2>1, SumNotNegative
<1>5. QED
  BY <1>2, <1>3, <1>4 DEF PaidOnInstalment, SumFunction

\* A new row adds what it puts on the instalment.
LEMMA PaidWithAppended ==
  ASSUME NEW I, NEW K, NEW pays \in Seq(Rows(I, K)), NEW p \in Rows(I, K), ~p.reversed, NEW n
  PROVE  PaidOnInstalment(Append(pays, p), n) =
            PaidOnInstalment(pays, n)
               + IF n \in DOMAIN p.toInstalments THEN p.toInstalments[n] ELSE 0
<1> DEFINE S == PaysInstalment(pays, n)
           R == PaysInstalment(Append(pays, p), n)
           f == [i \in S |-> pays[i].toInstalments[n]]
           g == [i \in R |-> Append(pays, p)[i].toInstalments[n]]
           l == Len(pays) + 1
<1>1. /\ Append(pays, p) \in Seq(Rows(I, K))
      /\ Len(pays) \in Nat
      /\ DOMAIN pays = 1..Len(pays)
      /\ DOMAIN Append(pays, p) = 1..l
      /\ \A i \in 1..Len(pays) : Append(pays, p)[i] = pays[i]
      /\ Append(pays, p)[l] = p
  OBVIOUS
<1>2. /\ IsFiniteSet(S) /\ IsFiniteSet(R)
      /\ \A i \in S : pays[i].toInstalments[n] \in Nat
      /\ \A i \in R : Append(pays, p)[i].toInstalments[n] \in Nat
  BY <1>1, PaidIsNat
<1>3. S \subseteq 1..Len(pays) /\ l \notin S
  BY <1>1 DEF PaysInstalment, EffectivePayments
<1>4. \A i \in S : g[i] = f[i]
  BY <1>1, <1>3 DEF PaysInstalment, EffectivePayments
<1>5. /\ PaidOnInstalment(pays, n) = SumFunctionOnSet(f, S)
      /\ PaidOnInstalment(Append(pays, p), n) = SumFunctionOnSet(g, R)
  BY DEF PaidOnInstalment, SumFunction
<1>6. AllInts(f, S) /\ AllInts(g, R)
  <2> HIDE DEF S, R
  <2>1. \A i \in S : f[i] \in Nat
    BY <1>2
  <2>2. \A i \in R : g[i] \in Nat
    BY <1>2
  <2> HIDE DEF f, g
  <2>3. QED
    BY <2>1, <2>2 DEF AllInts
<1>7. CASE n \in DOMAIN p.toInstalments
  <2>1. R = S \cup {l}
    BY <1>1, <1>7 DEF PaysInstalment, EffectivePayments
  <2>2. g[l] = p.toInstalments[n]
    BY <1>1, <2>1
  <2> HIDE DEF f, g, S, R, l
  <2>3. SumFunctionOnSet(g, S \cup {l}) = g[l] + SumFunctionOnSet(g, S)
    BY <1>2, <1>3, <1>6, <2>1, SumAdds
  <2>4. SumFunctionOnSet(g, S) = SumFunctionOnSet(f, S)
    BY <1>2, <1>4, <1>6, SumSame
  <2>5. SumFunctionOnSet(f, S) \in Int /\ g[l] \in Int
    BY <1>2, <1>6, <2>1, SumIsInt DEF AllInts
  <2>6. QED
    BY <1>5, <1>7, <2>1, <2>2, <2>3, <2>4, <2>5
<1>8. CASE n \notin DOMAIN p.toInstalments
  <2>1. R = S
    BY <1>1, <1>8 DEF PaysInstalment, EffectivePayments
  <2> HIDE DEF f, g, S, R, l
  <2>2. SumFunctionOnSet(g, S) = SumFunctionOnSet(f, S)
    BY <1>2, <1>4, <1>6, SumSame
  <2>3. SumFunctionOnSet(f, S) \in Int
    BY <1>2, <1>6, SumIsInt
  <2>4. QED
    BY <1>5, <1>8, <2>1, <2>2, <2>3
<1>9. QED
  BY <1>7, <1>8

LEMMA EmptyPays ==
  ASSUME NEW n
  PROVE  PaidOnInstalment(<<>>, n) = 0
<1>1. PaysInstalment(<<>>, n) = {}
  BY DEF PaysInstalment, EffectivePayments
<1>2. QED
  BY <1>1, SumEmpty DEF PaidOnInstalment, SumFunction

\* A ledger whose rows put nothing on an instalment paid nothing on it.
LEMMA NothingPaid ==
  ASSUME NEW pays, NEW n, PaysInstalment(pays, n) = {}
  PROVE  PaidOnInstalment(pays, n) = 0
  BY SumEmpty DEF PaidOnInstalment, SumFunction

LEMMA ReversedRows ==
  ASSUME NEW I, NEW K, NEW pays \in Seq(Rows(I, K)), NEW S
  PROVE  /\ Reversed(pays, S) \in Seq(Rows(I, K))
         /\ DOMAIN Reversed(pays, S) = DOMAIN pays
         /\ \A i \in DOMAIN pays :
               /\ (Reversed(pays, S)[i].reversed <=> pays[i].reversed \/ i \in S)
               /\ Reversed(pays, S)[i].toInstalments = pays[i].toInstalments
               /\ Reversed(pays, S)[i].toPenalties = pays[i].toPenalties
<1>1. DOMAIN pays = 1..Len(pays) /\ Len(pays) \in Nat
  BY RowsOfSeq
<1>2. \A i \in DOMAIN pays :
         /\ Reversed(pays, S)[i] \in Rows(I, K)
         /\ (Reversed(pays, S)[i].reversed <=> pays[i].reversed \/ i \in S)
         /\ Reversed(pays, S)[i].toInstalments = pays[i].toInstalments
         /\ Reversed(pays, S)[i].toPenalties = pays[i].toPenalties
  <2> TAKE i \in DOMAIN pays
  <2>1. pays[i] \in Rows(I, K)
    BY RowsOfSeq
  <2>2. Reversed(pays, S)[i] = [pays[i] EXCEPT !.reversed = @ \/ i \in S]
    BY DEF Reversed
  <2>3. QED
    BY <2>1, <2>2 DEF Rows
<1>3. Reversed(pays, S) = [i \in 1..Len(pays) |-> Reversed(pays, S)[i]]
  BY <1>1 DEF Reversed
<1>4. QED
  BY <1>1, <1>2, <1>3

\* Taking payments back makes what was paid no larger.
LEMMA PaidWhenReversed ==
  ASSUME NEW I, NEW K, NEW pays \in Seq(Rows(I, K)), NEW X, NEW n
  PROVE  PaidOnInstalment(Reversed(pays, X), n) <= PaidOnInstalment(pays, n)
<1> DEFINE S == PaysInstalment(pays, n)
           R == PaysInstalment(Reversed(pays, X), n)
           f == [i \in S |-> pays[i].toInstalments[n]]
           g == [i \in R |-> Reversed(pays, X)[i].toInstalments[n]]
<1>1. R \in SUBSET S
  BY ReversedRows DEF PaysInstalment, EffectivePayments
<1>2. \A i \in R : g[i] = f[i]
  <2>1. \A i \in R : i \in DOMAIN pays /\ i \in S
    BY <1>1 DEF PaysInstalment, EffectivePayments
  <2>2. QED
    BY <2>1, ReversedRows
<1>3. /\ PaidOnInstalment(pays, n) = SumFunctionOnSet(f, S)
      /\ PaidOnInstalment(Reversed(pays, X), n) = SumFunctionOnSet(g, R)
  BY DEF PaidOnInstalment, SumFunction
<1>4. IsFiniteSet(S) /\ \A i \in S : f[i] \in Nat
  BY PaidIsNat
<1> HIDE DEF S, R, f, g
<1>5. IsFiniteSet(R) /\ AllInts(f, R)
  BY <1>1, <1>4, FS_Subset DEF AllInts
<1>6. SumFunctionOnSet(g, R) = SumFunctionOnSet(f, R)
  BY <1>2, <1>5, SumSame
<1>7. SumFunctionOnSet(f, R) <= SumFunctionOnSet(f, S)
  BY <1>1, <1>4, SumOfFewer
<1>8. QED
  BY <1>3, <1>6, <1>7

\* The ledger after a reschedule that deletes the instalments U.
WithoutAllocations(pays, U) ==
    [i \in DOMAIN pays |->
        [pays[i] EXCEPT !.toInstalments = Restrict(@, DOMAIN @ \ U)]]

SameWithout(new, pays, U) ==
    /\ DOMAIN new = DOMAIN pays
    /\ \A i \in DOMAIN pays :
          /\ new[i].reversed = pays[i].reversed
          /\ new[i].toInstalments
                = Restrict(pays[i].toInstalments, DOMAIN pays[i].toInstalments \ U)
          /\ new[i].toPenalties = pays[i].toPenalties

LEMMA MoreRows ==
  ASSUME NEW I, NEW K, NEW J, NEW L, I \subseteq J, K \subseteq L,
         NEW pays \in Seq(Rows(I, K))
  PROVE  pays \in Seq(Rows(J, L))
<1>1. PartialOn(I) \subseteq PartialOn(J) /\ PartialOn(K) \subseteq PartialOn(L)
  BY DEF PartialOn
<1>2. Rows(I, K) \subseteq Rows(J, L)
  BY <1>1 DEF Rows
<1>3. QED
  BY <1>2

LEMMA RowsWithout ==
  ASSUME NEW I, NEW K, NEW pays \in Seq(Rows(I, K)), NEW U
  PROVE  /\ WithoutAllocations(pays, U) \in Seq(Rows(I \ U, K))
         /\ SameWithout(WithoutAllocations(pays, U), pays, U)
<1> DEFINE new == WithoutAllocations(pays, U)
<1>1. DOMAIN pays = 1..Len(pays) /\ Len(pays) \in Nat
  BY RowsOfSeq
<1>2. \A i \in DOMAIN pays :
         /\ new[i] \in Rows(I \ U, K)
         /\ new[i].reversed = pays[i].reversed
         /\ new[i].toInstalments
               = Restrict(pays[i].toInstalments, DOMAIN pays[i].toInstalments \ U)
         /\ new[i].toPenalties = pays[i].toPenalties
  <2> TAKE i \in DOMAIN pays
  <2> DEFINE p == pays[i]
             t == Restrict(p.toInstalments, DOMAIN p.toInstalments \ U)
  <2>1. p \in Rows(I, K)
    BY RowsOfSeq
  <2>2. new[i] = [p EXCEPT !.toInstalments = t]
    BY DEF WithoutAllocations
  <2>3. t \in PartialOn(I \ U)
    <3>1. DOMAIN p.toInstalments \in SUBSET I /\ \A n \in DOMAIN p.toInstalments : p.toInstalments[n] \in Nat
      BY <2>1, RowFacts
    <3>2. t \in [DOMAIN p.toInstalments \ U -> Nat] /\ DOMAIN p.toInstalments \ U \in SUBSET (I \ U)
      BY <3>1 DEF Restrict
    <3>3. QED
      BY <3>2, PartialIs
  <2> HIDE DEF p, t
  <2>4. new[i] \in Rows(I \ U, K) /\ new[i].reversed = p.reversed
           /\ new[i].toInstalments = t /\ new[i].toPenalties = p.toPenalties
    BY <2>1, <2>2, <2>3 DEF Rows
  <2>5. QED
    BY <2>4 DEF p, t
<1>3. new = [i \in 1..Len(pays) |-> new[i]]
  BY <1>1 DEF WithoutAllocations
<1>4. DOMAIN new = DOMAIN pays
  BY DEF WithoutAllocations
<1> HIDE DEF new
<1>5. new \in Seq(Rows(I \ U, K))
  <2>1. new \in [1..Len(pays) -> Rows(I \ U, K)]
    BY <1>1, <1>2, <1>3
  <2>2. ASSUME NEW X, new \in [1..Len(pays) -> X]
        PROVE  new \in Seq(X)
    BY <1>1, <2>2
  <2>3. QED
    BY <2>1, <2>2
<1>6. QED
  BY <1>2, <1>4, <1>5 DEF new, SameWithout

\* What was paid on the instalments that stay is what it was.
LEMMA PaidWithout ==
  ASSUME NEW I, NEW K, NEW pays \in Seq(Rows(I, K)), NEW U, NEW n, n \notin U
  PROVE  PaidOnInstalment(WithoutAllocations(pays, U), n) = PaidOnInstalment(pays, n)
<1> DEFINE new == WithoutAllocations(pays, U)
<1>1. SameWithout(new, pays, U)
  BY RowsWithout
<1> HIDE DEF new
<1> DEFINE S == PaysInstalment(pays, n)
           f == [i \in S |-> pays[i].toInstalments[n]]
           g == [i \in S |-> new[i].toInstalments[n]]
<1>2. \A i \in DOMAIN pays :
         /\ n \in DOMAIN new[i].toInstalments <=> n \in DOMAIN pays[i].toInstalments
         /\ n \in DOMAIN pays[i].toInstalments
               => new[i].toInstalments[n] = pays[i].toInstalments[n]
  BY <1>1 DEF Restrict, SameWithout
<1>3. PaysInstalment(new, n) = S
  BY <1>1, <1>2 DEF PaysInstalment, EffectivePayments, SameWithout
<1>4. \A i \in S : g[i] = f[i]
  BY <1>2 DEF PaysInstalment, EffectivePayments
<1>5. /\ PaidOnInstalment(pays, n) = SumFunctionOnSet(f, S)
      /\ PaidOnInstalment(new, n) = SumFunctionOnSet(g, S)
  BY <1>3 DEF PaidOnInstalment, SumFunction
<1>6. IsFiniteSet(S) /\ \A i \in S : f[i] \in Nat
  BY PaidIsNat
<1> HIDE DEF S, f, g
<1>7. SumFunctionOnSet(g, S) = SumFunctionOnSet(f, S)
  BY <1>4, <1>6, SumSame DEF AllInts
<1>8. QED
  BY <1>5, <1>7 DEF new

LEMMA TotalIsInt ==
  ASSUME NEW I, NEW K, IsFiniteSet(K), NEW pays \in Seq(Rows(I, K))
  PROVE  LedgerTotal(pays) \in Int
<1> DEFINE S == EffectivePayments(pays)
           f == [i \in S |-> SignedAmount(pays[i]) - PaidToCharges(pays[i])]
<1>1. S \in SUBSET DOMAIN pays
  BY DEF EffectivePayments
<1>2. ASSUME NEW i \in S
      PROVE  f[i] \in Int
  <2>1. pays[i] \in Rows(I, K)
    BY <1>1, RowsOfSeq
  <2> DEFINE t == pays[i].toPenalties
  <2>2. DOMAIN t \in SUBSET K /\ \A k \in DOMAIN t : t[k] \in Nat
    BY <2>1, RowFacts
  <2>3. SumFunctionOnSet(t, DOMAIN t) \in Nat
    <3> HIDE DEF t
    <3>1. QED
      BY <2>2, FS_Subset, SumNotNegative
  <2>4. PaidToCharges(pays[i]) \in Int
    BY <2>3 DEF PaidToCharges, SumFunction
  <2>5. SignedAmount(pays[i]) \in Int
    BY <2>1, RowFacts DEF SignedAmount
  <2>6. QED
    BY <2>4, <2>5
<1>3. IsFiniteSet(S)
  BY <1>1, RowsOfSeq, FS_Subset
<1>4. LedgerTotal(pays) = SumFunctionOnSet(f, S)
  BY DEF LedgerTotal, SumFunction
<1> HIDE DEF S, f
<1>5. QED
  BY <1>2, <1>3, <1>4, SumIsInt DEF AllInts

LEMMA ChargeWithAppended ==
  ASSUME NEW I, NEW K, NEW pays \in Seq(Rows(I, K)), NEW p \in Rows(I, K), NEW k
  PROVE  /\ PaysCharge(Append(pays, p), k) \subseteq PaysCharge(pays, k) \cup {Len(pays) + 1}
         /\ Len(pays) + 1 \in PaysCharge(Append(pays, p), k) => k \in DOMAIN p.toPenalties
<1>1. /\ Len(pays) \in Nat
      /\ DOMAIN pays = 1..Len(pays)
      /\ DOMAIN Append(pays, p) = 1..(Len(pays) + 1)
      /\ \A i \in 1..Len(pays) : Append(pays, p)[i] = pays[i]
      /\ Append(pays, p)[Len(pays) + 1] = p
  OBVIOUS
<1>2. QED
  BY <1>1 DEF PaysCharge, EffectivePayments

LEMMA ChargeWhenReversed ==
  ASSUME NEW I, NEW K, NEW pays \in Seq(Rows(I, K)), NEW S, NEW k
  PROVE  PaysCharge(Reversed(pays, S), k) \subseteq PaysCharge(pays, k)
  BY ReversedRows DEF PaysCharge, EffectivePayments

LEMMA ChargeWithout ==
  ASSUME NEW I, NEW K, NEW pays \in Seq(Rows(I, K)), NEW U, NEW k
  PROVE  PaysCharge(WithoutAllocations(pays, U), k) = PaysCharge(pays, k)
<1>1. SameWithout(WithoutAllocations(pays, U), pays, U)
  BY RowsWithout
<1>2. QED
  BY <1>1 DEF PaysCharge, EffectivePayments, SameWithout

-----------------------------------------------------------------------------
(* Where a payment goes. *)

ScheduleOK == /\ DOMAIN schedule \subseteq 1..MaxInstalmentNo
              /\ \A n \in DOMAIN schedule : schedule[n] \in Instalments

LEMMA OutstandingIsNat ==
  ASSUME ScheduleOK
  PROVE  /\ IsFiniteSet(DOMAIN schedule)
         /\ \A n \in DOMAIN schedule : n \in Nat /\ Outstanding(schedule[n]) \in Nat
<1>1. IsFiniteSet(1..MaxInstalmentNo)
  BY BoundsAssumption, FS_Interval
<1>2. IsFiniteSet(DOMAIN schedule)
  BY <1>1, FS_Subset DEF ScheduleOK
<1>3. ASSUME NEW n \in DOMAIN schedule
      PROVE  n \in Nat /\ Outstanding(schedule[n]) \in Nat
  <2>1. schedule[n] \in Instalments /\ n \in 1..MaxInstalmentNo
    BY DEF ScheduleOK
  <2>2. QED
    BY <2>1, BoundsAssumption DEF Outstanding, AtLeastZero, Instalments
<1>4. QED
  BY <1>2, <1>3

LEMMA OutstandingOnIsNat ==
  ASSUME ScheduleOK, NEW S \in SUBSET DOMAIN schedule
  PROVE  OutstandingOn(S) \in Nat
<1> DEFINE f == [n \in S |-> Outstanding(schedule[n])]
<1>1. IsFiniteSet(S) /\ \A n \in S : f[n] \in Nat
  BY OutstandingIsNat, FS_Subset
<1>2. OutstandingOn(S) = SumFunctionOnSet(f, S)
  BY DEF OutstandingOn, SumFunction
<1> HIDE DEF f
<1>3. QED
  BY <1>1, <1>2, SumNotNegative

\* Money enough for S is enough for any part of it and one more.
LEMMA OutstandingOnPart ==
  ASSUME ScheduleOK, NEW S \in SUBSET DOMAIN schedule, NEW R \in SUBSET S, NEW n \in S \ R
  PROVE  OutstandingOn(R) + Outstanding(schedule[n]) <= OutstandingOn(S)
<1> DEFINE f == [m \in S |-> Outstanding(schedule[m])]
           g == [m \in R |-> Outstanding(schedule[m])]
<1>1. IsFiniteSet(S) /\ (\A m \in S : f[m] \in Nat) /\ (\A m \in R : g[m] = f[m])
  BY OutstandingIsNat, FS_Subset
<1>2. OutstandingOn(S) = SumFunctionOnSet(f, S) /\ OutstandingOn(R) = SumFunctionOnSet(g, R)
  BY DEF OutstandingOn, SumFunction
<1>3. f[n] = Outstanding(schedule[n])
  OBVIOUS
<1> HIDE DEF f, g
<1>4. IsFiniteSet(R) /\ R \cup {n} \in SUBSET S /\ n \notin R
  BY <1>1, FS_Subset
<1>5. AllInts(f, R) /\ AllInts(f, R \cup {n})
  BY <1>1, <1>4 DEF AllInts
<1>6. SumFunctionOnSet(g, R) = SumFunctionOnSet(f, R)
  BY <1>1, <1>4, <1>5, SumSame
<1>7. SumFunctionOnSet(f, R \cup {n}) = f[n] + SumFunctionOnSet(f, R)
  BY <1>4, <1>5, SumAdds
<1>8. SumFunctionOnSet(f, R \cup {n}) <= SumFunctionOnSet(f, S)
  BY <1>1, <1>4, SumOfFewer
<1>9. SumFunctionOnSet(f, R) \in Int /\ f[n] \in Int
  BY <1>1, <1>4, <1>5, SumIsInt
<1>10. QED
  BY <1>2, <1>3, <1>6, <1>7, <1>8, <1>9

\* Nothing is put on an instalment that it does not lack.
LEMMA FilledFacts ==
  ASSUME ScheduleOK, NEW S \in SUBSET DOMAIN schedule, NEW money \in Int
  PROVE  /\ DOMAIN Filled(S, money) \in SUBSET S
         /\ \A n \in DOMAIN Filled(S, money) :
               /\ Filled(S, money)[n] \in Nat
               /\ Filled(S, money)[n] <= Outstanding(schedule[n])
         /\ \A n \in S : money >= OutstandingOn(S) /\ Outstanding(schedule[n]) > 0
               => /\ n \in DOMAIN Filled(S, money)
                  /\ Filled(S, money)[n] = Outstanding(schedule[n])
<1> DEFINE before(n) == OutstandingOn({m \in S : m < n})
           share(n) == Least(Outstanding(schedule[n]), AtLeastZero(money - before(n)))
<1>1. \A n \in S : before(n) \in Nat /\ Outstanding(schedule[n]) \in Nat
  BY OutstandingOnIsNat, OutstandingIsNat
<1>2. \A n \in S : before(n) + Outstanding(schedule[n]) <= OutstandingOn(S)
  <2> TAKE n \in S
  <2>1. n \in S \ {m \in S : m < n} /\ {m \in S : m < n} \in SUBSET S
    BY OutstandingIsNat
  <2>2. QED
    BY <2>1, OutstandingOnPart
<1>3. Filled(S, money) = [n \in {n \in S : share(n) > 0} |-> share(n)]
  BY DEF Filled
<1>4. OutstandingOn(S) \in Nat
  BY OutstandingOnIsNat
<1> HIDE DEF before
<1>5. \A n \in S : /\ share(n) \in Nat
                   /\ share(n) <= Outstanding(schedule[n])
                   /\ money >= OutstandingOn(S) => share(n) = Outstanding(schedule[n])
  <2> TAKE n \in S
  <2> DEFINE o == Outstanding(schedule[n])
             b == before(n)
  <2>1. o \in Nat /\ b \in Nat /\ b + o <= OutstandingOn(S)
    BY <1>1, <1>2
  <2> HIDE DEF o, b
  <2>2. /\ Least(o, AtLeastZero(money - b)) \in Nat
        /\ Least(o, AtLeastZero(money - b)) <= o
        /\ money >= OutstandingOn(S) => Least(o, AtLeastZero(money - b)) = o
    BY <1>4, <2>1 DEF Least, AtLeastZero
  <2>3. QED
    BY <2>2 DEF o, b
<1> HIDE DEF share
<1>6. QED
  BY <1>3, <1>5

\* A payment goes to instalments for at most what each lacks, and to charges not yet paid; and
\* money enough for the arrears clears them.
LEMMA AllocationFacts ==
  ASSUME ScheduleOK, penalties \in Seq(Charges), NEW money \in Int
  PROVE  /\ AllocatePayment(money).toInstalments \in PartialOn(DOMAIN schedule)
         /\ AllocatePayment(money).toPenalties \in PartialOn(DOMAIN penalties)
         /\ \A n \in DOMAIN AllocatePayment(money).toInstalments :
               AllocatePayment(money).toInstalments[n] <= Outstanding(schedule[n])
         /\ \A k \in DOMAIN AllocatePayment(money).toPenalties : ~penalties[k].isPaid
         /\ \A n \in Arrears : money >= OutstandingOn(Arrears) /\ Outstanding(schedule[n]) > 0
               => /\ n \in DOMAIN AllocatePayment(money).toInstalments
                  /\ AllocatePayment(money).toInstalments[n] = Outstanding(schedule[n])
<1> DEFINE arrears == Filled(Arrears, money)
           charges == ChargesCovered(money - SumFunction(arrears))
           ahead   == Filled(DOMAIN schedule \ Arrears, charges.left)
           D == DOMAIN arrears \cup DOMAIN ahead
           i == [n \in D |-> IF n \in DOMAIN arrears THEN arrears[n] ELSE ahead[n]]
           p == [k \in charges.paid |-> penalties[k].amount]
<1>1. AllocatePayment(money) = [toInstalments |-> i, toPenalties |-> p]
  BY DEF AllocatePayment, Arrears
<1>2. Arrears \in SUBSET DOMAIN schedule
  BY DEF Arrears
<1>3. /\ DOMAIN arrears \in SUBSET Arrears
      /\ \A n \in DOMAIN arrears : arrears[n] \in Nat /\ arrears[n] <= Outstanding(schedule[n])
      /\ \A n \in Arrears : money >= OutstandingOn(Arrears) /\ Outstanding(schedule[n]) > 0
               => n \in DOMAIN arrears /\ arrears[n] = Outstanding(schedule[n])
  BY <1>2, FilledFacts
<1>4. SumFunction(arrears) \in Int
  <2>1. IsFiniteSet(DOMAIN arrears)
    BY <1>2, <1>3, OutstandingIsNat, FS_Subset
  <2>2. SumFunctionOnSet(arrears, DOMAIN arrears) \in Int
    <3> HIDE DEF arrears
    <3>1. QED
      BY <1>3, <2>1, SumIsInt DEF AllInts
  <2>3. QED
    BY <2>2 DEF SumFunction
<1> HIDE DEF arrears
<1>5. /\ charges.left \in Int
      /\ charges.paid \in SUBSET DOMAIN penalties
      /\ \A k \in charges.paid : ~penalties[k].isPaid
  <2>1. money - SumFunction(arrears) \in Int
    BY <1>4
  <2>2. QED
    BY <2>1, CoveredCharges
<1> HIDE DEF charges
<1>6. /\ DOMAIN ahead \in SUBSET DOMAIN schedule
      /\ \A n \in DOMAIN ahead : ahead[n] \in Nat /\ ahead[n] <= Outstanding(schedule[n])
  <2>1. DOMAIN schedule \ Arrears \in SUBSET DOMAIN schedule
    OBVIOUS
  <2> DEFINE rest == DOMAIN schedule \ Arrears
  <2> HIDE DEF rest
  <2>2. /\ DOMAIN Filled(rest, charges.left) \in SUBSET rest
        /\ \A n \in DOMAIN Filled(rest, charges.left) :
              /\ Filled(rest, charges.left)[n] \in Nat
              /\ Filled(rest, charges.left)[n] <= Outstanding(schedule[n])
    BY <1>5, <2>1, FilledFacts DEF rest
  <2>3. QED
    BY <2>2 DEF rest
<1> HIDE DEF ahead
<1>7. i \in [D -> Nat] /\ D \in SUBSET DOMAIN schedule
  BY <1>2, <1>3, <1>6
<1>8. i \in PartialOn(DOMAIN schedule)
  <2> HIDE DEF i, D
  <2>1. QED
    BY <1>7, PartialIs
<1>9. p \in [charges.paid -> Nat]
  <2>1. \A k \in DOMAIN penalties : penalties[k] \in Charges
    OBVIOUS
  <2>2. \A k \in DOMAIN penalties : penalties[k].amount \in Nat
    BY <2>1 DEF Charges
  <2>3. QED
    BY <1>5, <2>2
<1>10. p \in PartialOn(DOMAIN penalties)
  <2> HIDE DEF p
  <2>1. QED
    BY <1>5, <1>9, PartialIs
<1>11. \A n \in D : i[n] <= Outstanding(schedule[n])
  BY <1>3, <1>6
<1>12. \A n \in Arrears : money >= OutstandingOn(Arrears) /\ Outstanding(schedule[n]) > 0
          => n \in D /\ i[n] = Outstanding(schedule[n])
  BY <1>3
<1>13. DOMAIN i = D /\ DOMAIN p = charges.paid
  OBVIOUS
<1> HIDE DEF i, p, D
<1>14. QED
  BY <1>1, <1>5, <1>8, <1>10, <1>11, <1>12, <1>13

\* What a payment adds to the ledger.
LEMMA NewPaymentFacts ==
  ASSUME ScheduleOK, penalties \in Seq(Charges), NEW a \in Amounts,
         deal \in Deals, totalPaid \in Int
  PROVE  /\ NewPayment(a) \in Rows(DOMAIN schedule, DOMAIN penalties)
         /\ ~NewPayment(a).reversed
         /\ \A n \in DOMAIN NewPayment(a).toInstalments :
               NewPayment(a).toInstalments[n] <= Outstanding(schedule[n])
         /\ \A k \in DOMAIN NewPayment(a).toPenalties : ~penalties[k].isPaid
         /\ \A n \in Arrears : status # "PENDING_DEPOSIT" /\ a >= OutstandingOn(Arrears)
                                  /\ Outstanding(schedule[n]) > 0
               => /\ n \in DOMAIN NewPayment(a).toInstalments
                  /\ NewPayment(a).toInstalments[n] = Outstanding(schedule[n])
<1> DEFINE allocated == AllocatePayment(ScheduleShare(a))
<1>1. a \in Nat /\ deal.deposit \in Nat
  BY AmountsAssumption, DealsAssumption
<1>2. ScheduleShare(a) \in Int /\ (status # "PENDING_DEPOSIT" => ScheduleShare(a) = a)
  BY <1>1 DEF ScheduleShare, AtLeastZero
<1>3. /\ allocated.toInstalments \in PartialOn(DOMAIN schedule)
      /\ allocated.toPenalties \in PartialOn(DOMAIN penalties)
      /\ \A n \in DOMAIN allocated.toInstalments :
            allocated.toInstalments[n] <= Outstanding(schedule[n])
      /\ \A k \in DOMAIN allocated.toPenalties : ~penalties[k].isPaid
      /\ \A n \in Arrears : ScheduleShare(a) >= OutstandingOn(Arrears)
                               /\ Outstanding(schedule[n]) > 0
            => /\ n \in DOMAIN allocated.toInstalments
               /\ allocated.toInstalments[n] = Outstanding(schedule[n])
  BY <1>2, AllocationFacts
<1>4. NewPayment(a) =
         [entryType     |-> IF status = "PENDING_DEPOSIT" THEN "DEPOSIT" ELSE "INSTALMENT_PAYMENT",
          amount        |-> a,
          reversed      |-> FALSE,
          toInstalments |-> allocated.toInstalments,
          toPenalties   |-> allocated.toPenalties]
  BY DEF NewPayment
<1> HIDE DEF allocated
<1>5. NewPayment(a) \in Rows(DOMAIN schedule, DOMAIN penalties)
  BY <1>1, <1>3, <1>4 DEF Rows
<1>6. QED
  BY <1>2, <1>3, <1>4, <1>5

-----------------------------------------------------------------------------
(* Schedules. *)

DueOn(sched) == SumFunction([n \in DOMAIN sched |-> sched[n].amountDue])

\* A new plan is for what it was made for, whatever the rounding.
LEMMA StraightLineFacts ==
  ASSUME NEW amount \in Int, NEW count \in Nat \ {0}, NEW first \in Nat, NEW start \in Int
  PROVE  /\ DOMAIN StraightLine(amount, count, first, start) = first..(first + count - 1)
         /\ \A n \in first..(first + count - 1) :
               /\ StraightLine(amount, count, first, start)[n] \in Instalments
               /\ StraightLine(amount, count, first, start)[n].amountPaid = 0
         /\ DueOn(StraightLine(amount, count, first, start)) = amount
<1> DEFINE per == (amount + count - 1) \div count
           last == first + count - 1
           line == StraightLine(amount, count, first, start)
           due == [n \in DOMAIN line |-> line[n].amountDue]
<1>1. per \in Int /\ last \in Int /\ PeriodDays \in Nat
  BY ScheduleAssumption
<1>2. line = [n \in first..last |->
                 [dueDate    |-> start + (n - first + 1) * PeriodDays,
                  amountDue  |-> IF n = last THEN amount - per * (count - 1) ELSE per,
                  amountPaid |-> 0,
                  status     |-> "PENDING"]]
  BY DEF StraightLine
<1> HIDE DEF per, line
<1>3. \A n \in first..last :
         /\ line[n] = [dueDate    |-> start + (n - first + 1) * PeriodDays,
                       amountDue  |-> IF n = last THEN amount - per * (count - 1) ELSE per,
                       amountPaid |-> 0,
                       status     |-> "PENDING"]
  BY <1>2
<1>4. per * (count - 1) \in Int
  BY <1>1
<1>5. \A n \in first..last : (n - first + 1) * PeriodDays \in Int
  BY <1>1
<1>6. ASSUME NEW n \in first..last
      PROVE  line[n] \in Instalments /\ line[n].amountPaid = 0
  <2>1. start + (n - first + 1) * PeriodDays \in Int
    BY <1>5
  <2>2. (IF n = last THEN amount - per * (count - 1) ELSE per) \in Int
    BY <1>1, <1>4
  <2>3. \A d, m \in Int :
           [dueDate |-> d, amountDue |-> m, amountPaid |-> 0, status |-> "PENDING"] \in Instalments
    BY DEF Instalments, InstalmentStatuses
  <2> DEFINE d == start + (n - first + 1) * PeriodDays
             m == IF n = last THEN amount - per * (count - 1) ELSE per
  <2>4. line[n] = [dueDate |-> d, amountDue |-> m, amountPaid |-> 0, status |-> "PENDING"]
    BY <1>3
  <2>5. d \in Int /\ m \in Int
    BY <2>1, <2>2
  <2> HIDE DEF d, m
  <2>6. QED
    BY <2>3, <2>4, <2>5
<1>7. DueOn(line) = amount
  <2> DEFINE k == count - 1
             body == first..(first + k - 1)
  <2>1. k \in Nat
    OBVIOUS
  <2>2. first..last = body \cup {last} /\ last \notin body
    BY <2>1
  <2>3. IsFiniteSet(body)
    BY <2>1, FS_Interval
  <2>4. \A n \in body : due[n] = per
    BY <1>2, <1>3, <2>2
  <2>5. DOMAIN line = first..last /\ last \in first..last
    BY <1>2, <2>2
  <2>6. due[last] = amount - per * k
    BY <1>3, <2>5
  <2>7. DueOn(line) = SumFunctionOnSet(due, first..last)
    BY <2>5 DEF DueOn, SumFunction
  <2> HIDE DEF due, last, k
  <2>8. SumFunctionOnSet(due, body) = k * per
    <3>1. first \in Int /\ per \in Int
      BY <1>1
    <3>2. \A x \in first..(first + k - 1) : due[x] = per
      BY <2>4
    <3>3. SumFunctionOnSet(due, first..(first + k - 1)) = k * per
      BY <2>1, <3>1, <3>2, SumOfSame, Zenon
    <3>4. QED
      BY <3>3
  <2> DEFINE m == per * k
  <2>9. m \in Int /\ m = k * per
    BY <1>1, <2>1
  <2>10. AllInts(due, body \cup {last})
    BY <1>1, <2>4, <2>6, <2>9 DEF AllInts
  <2> HIDE DEF body
  <2>11. SumFunctionOnSet(due, body \cup {last}) = due[last] + SumFunctionOnSet(due, body)
    BY <2>2, <2>3, <2>10, SumAdds
  <2>12. due[last] = amount - m /\ SumFunctionOnSet(due, body) = m
    BY <2>6, <2>8, <2>9
  <2>13. m \in Int
    BY <2>9
  <2>14. DueOn(line) = SumFunctionOnSet(due, body \cup {last})
    BY <2>2, <2>7
  <2> HIDE DEF m
  <2>15. QED
    BY <2>11, <2>12, <2>13, <2>14
<1>8. QED
  BY <1>2, <1>6, <1>7 DEF line

\* Where advanceContractStatus can take a contract.
LEMMA AdvancedStatuses ==
  ASSUME NEW paid, NEW owed, NEW sched, NEW pens, status \in Statuses
  PROVE  /\ AdvancedStatus(paid, owed, sched, pens) \in {status, "ACTIVE", "COMPLETED"}
         /\ status \in PreApproval \cup Terminal
               => AdvancedStatus(paid, owed, sched, pens) = status
         /\ status \in {"ACTIVE", "DEFAULTED"}
               => AdvancedStatus(paid, owed, sched, pens) # "PENDING_DEPOSIT"
  BY DEF AdvancedStatus, Statuses, PreApproval, Terminal

-----------------------------------------------------------------------------
(* What a recompute makes of a ledger, a schedule and charges that fit.     *)

IsSchedule(sched) ==
    /\ DOMAIN sched \subseteq 1..MaxInstalmentNo
    /\ \A n \in DOMAIN sched : sched[n] \in Instalments

ChargedOneInstalmentOnce(pens) ==
    \A k, l \in DOMAIN pens :
        k # l /\ pens[k].instalment # NoInstalment => pens[k].instalment # pens[l].instalment

\* The rows allocate to what is there, no instalment gets more than it is for, no charge is
\* paid twice or made twice, and the schedule is for what was financed.
Fits(pays, sched, pens) ==
    /\ pays \in Seq(Rows(DOMAIN sched, DOMAIN pens)) /\ Len(pays) <= MaxPayments
    /\ IsSchedule(sched)
    /\ pens \in Seq(Charges)
    /\ \A n \in DOMAIN sched : PaidOnInstalment(pays, n) <= AtLeastZero(sched[n].amountDue)
    /\ \A k \in DOMAIN pens : \A i, j \in PaysCharge(pays, k) : i = j
    /\ ChargedOneInstalmentOnce(pens)
    /\ DueOn(sched) = deal.price - deal.deposit

StatusTells(sched, day) ==
    \A n \in DOMAIN sched :
        /\ sched[n].status = "PAID" <=> sched[n].amountPaid >= sched[n].amountDue
        /\ sched[n].status = "OVERDUE" => sched[n].dueDate < day

\* A charge that a payment standing in the ledger pays is paid.
PaidChargesAreMarked == \A k \in DOMAIN penalties : PaysCharge(payments, k) # {} => penalties[k].isPaid

AccountInv ==
    /\ now \in 0..Horizon
    /\ totalPaid \in Int /\ balance \in Nat
    /\ refundDue \in Nat /\ refunded \in BOOLEAN
    /\ Fits(payments, schedule, penalties)
    /\ \A n \in DOMAIN schedule : schedule[n].amountPaid = PaidOnInstalment(payments, n)
    /\ PaidChargesAreMarked
    /\ status \in {"ACTIVE", "DEFAULTED"} => StatusTells(schedule, now)
    /\ status = "DEFAULTED" => HasOverdue(schedule)

LEMMA InstalmentStatusIs ==
  ASSUME NEW r \in Instalments, NEW paid \in Int, now \in Int
  PROVE  /\ InstalmentStatus(r, paid) \in InstalmentStatuses
         /\ InstalmentStatus(r, paid) = "PAID" <=> paid >= r.amountDue
         /\ InstalmentStatus(r, paid) = "OVERDUE" <=> paid < r.amountDue /\ r.dueDate < now
<1>1. r.amountDue \in Int /\ r.dueDate \in Int
  BY DEF Instalments
<1>2. QED
  BY <1>1 DEF InstalmentStatus, InstalmentStatuses

LEMMA RecomputedInstalment ==
  ASSUME NEW pays, NEW sched, NEW pens, Fits(pays, sched, pens), now \in Int,
         NEW n \in DOMAIN sched
  PROVE  /\ RecomputedSchedule(pays, sched)[n] \in Instalments
         /\ RecomputedSchedule(pays, sched)[n].amountDue = sched[n].amountDue
         /\ RecomputedSchedule(pays, sched)[n].dueDate = sched[n].dueDate
         /\ RecomputedSchedule(pays, sched)[n].amountPaid = PaidOnInstalment(pays, n)
         /\ RecomputedSchedule(pays, sched)[n].status
               = InstalmentStatus(sched[n], PaidOnInstalment(pays, n))
<1>1. sched[n] \in Instalments
  BY DEF Fits, IsSchedule
<1>2. PaidOnInstalment(pays, n) \in Int
  BY PaidIsNat DEF Fits
<1>3. InstalmentStatus(sched[n], PaidOnInstalment(pays, n)) \in InstalmentStatuses
  BY <1>1, <1>2, InstalmentStatusIs
<1>4. RecomputedSchedule(pays, sched)[n] =
         [sched[n] EXCEPT !.amountPaid = PaidOnInstalment(pays, n),
                          !.status = InstalmentStatus(sched[n], PaidOnInstalment(pays, n))]
  BY DEF RecomputedSchedule
<1>5. QED
  BY <1>1, <1>2, <1>3, <1>4 DEF Instalments

LEMMA RecomputedCharges ==
  ASSUME NEW pays, NEW pens \in Seq(Charges)
  PROVE  /\ RecomputedPenalties(pays, pens) \in Seq(Charges)
         /\ DOMAIN RecomputedPenalties(pays, pens) = DOMAIN pens
         /\ \A k \in DOMAIN pens :
               /\ RecomputedPenalties(pays, pens)[k].instalment = pens[k].instalment
               /\ RecomputedPenalties(pays, pens)[k].isPaid
                     <=> pens[k].isPaid \/ PaysCharge(pays, k) # {}
<1> DEFINE new == RecomputedPenalties(pays, pens)
<1>1. DOMAIN pens = 1..Len(pens) /\ Len(pens) \in Nat
  OBVIOUS
<1>2. \A k \in DOMAIN pens :
         /\ new[k] \in Charges
         /\ new[k].instalment = pens[k].instalment
         /\ new[k].isPaid <=> pens[k].isPaid \/ PaysCharge(pays, k) # {}
  <2> TAKE k \in DOMAIN pens
  <2>1. pens[k] \in Charges
    OBVIOUS
  <2>2. new[k] = [pens[k] EXCEPT !.isPaid = @ \/ PaysCharge(pays, k) # {}]
    BY DEF RecomputedPenalties
  <2>3. QED
    BY <2>1, <2>2 DEF Charges
<1>3. new = [k \in 1..Len(pens) |-> new[k]]
  BY <1>1 DEF RecomputedPenalties
<1>4. QED
  BY <1>1, <1>2, <1>3

LEMMA RecomputeFits ==
  ASSUME NEW pays, NEW sched, NEW pens, Fits(pays, sched, pens),
         RecomputeContract(pays, sched, pens), now \in Int, deal \in Deals,
         UNCHANGED <<now, deal>>
  PROVE  /\ totalPaid' \in Int /\ balance' \in Nat
         /\ Fits(payments, schedule, penalties)'
         /\ (\A n \in DOMAIN schedule : schedule[n].amountPaid = PaidOnInstalment(payments, n))'
         /\ PaidChargesAreMarked'
         /\ StatusTells(schedule, now)'
         /\ DOMAIN schedule' = DOMAIN sched
         /\ \A n \in DOMAIN sched :
               schedule'[n].status = "OVERDUE"
                  <=> PaidOnInstalment(pays, n) < sched[n].amountDue /\ sched[n].dueDate < now
<1>1. /\ payments' = pays
      /\ schedule' = RecomputedSchedule(pays, sched)
      /\ penalties' = RecomputedPenalties(pays, pens)
      /\ totalPaid' = LedgerTotal(pays)
      /\ balance' = AtLeastZero(deal.price - totalPaid')
  BY DEF RecomputeContract
<1>2. pens \in Seq(Charges) /\ pays \in Seq(Rows(DOMAIN sched, DOMAIN pens))
  BY DEF Fits
<1>3. totalPaid' \in Int
  BY <1>1, <1>2, SeqDomain, TotalIsInt DEF IsSeq
<1>4. balance' \in Nat
  BY <1>1, <1>3, DealsAssumption DEF AtLeastZero
<1>5. DOMAIN schedule' = DOMAIN sched
  BY <1>1 DEF RecomputedSchedule
<1>6. \A n \in DOMAIN sched :
         /\ schedule'[n] \in Instalments
         /\ schedule'[n].amountDue = sched[n].amountDue
         /\ schedule'[n].dueDate = sched[n].dueDate
         /\ schedule'[n].amountPaid = PaidOnInstalment(pays, n)
         /\ schedule'[n].status = InstalmentStatus(sched[n], PaidOnInstalment(pays, n))
  BY <1>1, RecomputedInstalment
<1>7. \A n \in DOMAIN sched :
         /\ schedule'[n].status = "PAID" <=> PaidOnInstalment(pays, n) >= sched[n].amountDue
         /\ schedule'[n].status = "OVERDUE"
               <=> PaidOnInstalment(pays, n) < sched[n].amountDue /\ sched[n].dueDate < now
  <2> TAKE n \in DOMAIN sched
  <2>1. sched[n] \in Instalments /\ PaidOnInstalment(pays, n) \in Int
    BY PaidIsNat DEF Fits, IsSchedule
  <2>2. QED
    BY <1>6, <2>1, InstalmentStatusIs
<1>8. /\ penalties' \in Seq(Charges)
      /\ DOMAIN penalties' = DOMAIN pens
      /\ \A k \in DOMAIN pens :
            /\ penalties'[k].instalment = pens[k].instalment
            /\ penalties'[k].isPaid <=> pens[k].isPaid \/ PaysCharge(pays, k) # {}
  BY <1>1, <1>2, RecomputedCharges
<1>9. DueOn(schedule') = DueOn(sched)
  BY <1>5, <1>6 DEF DueOn
<1>10. Fits(payments', schedule', penalties')
  <2>1. IsSchedule(schedule')
    BY <1>5, <1>6 DEF Fits, IsSchedule
  <2>2. \A n \in DOMAIN schedule' :
           PaidOnInstalment(payments', n) <= AtLeastZero(schedule'[n].amountDue)
    BY <1>1, <1>5, <1>6 DEF Fits
  <2>3. \A k \in DOMAIN penalties' : \A i, j \in PaysCharge(payments', k) : i = j
    BY <1>1, <1>8 DEF Fits
  <2>4. ChargedOneInstalmentOnce(penalties')
    BY <1>8 DEF Fits, ChargedOneInstalmentOnce
  <2>5. payments' \in Seq(Rows(DOMAIN schedule', DOMAIN penalties')) /\ Len(payments') <= MaxPayments
    BY <1>1, <1>5, <1>8 DEF Fits
  <2>6. QED
    BY <1>8, <1>9, <2>1, <2>2, <2>3, <2>4, <2>5 DEF Fits
<1>11. Fits(payments, schedule, penalties)'
  BY <1>10 DEF Fits
<1>12. PaidChargesAreMarked'
  BY <1>1, <1>8 DEF PaidChargesAreMarked
<1>13. StatusTells(schedule, now)'
  BY <1>5, <1>6, <1>7 DEF StatusTells
<1>14. QED
  BY <1>1, <1>3, <1>4, <1>5, <1>6, <1>7, <1>11, <1>12, <1>13

-----------------------------------------------------------------------------
(* Steps. *)

LEMMA RecomputedTotals ==
  ASSUME NEW pays, NEW sched, NEW pens, RecomputeContract(pays, sched, pens), UNCHANGED deal
  PROVE  payments' = pays /\ TotalsMatchLedger'
  BY DEF RecomputeContract, TotalsMatchLedger

LEMMA AdvanceKeepsPhone ==
  ASSUME LedgerInv, status \in {"PENDING_DEPOSIT", "ACTIVE", "DEFAULTED"}, AdvanceContractStatus
  PROVE  /\ status' \in Statuses \ PreApproval
         /\ item' \in {"AVAILABLE", "RESERVED", "ISSUED"}
         /\ PhoneFollowsStatus'
<1>1. /\ status' \in {status, "ACTIVE", "COMPLETED"}
      /\ status \in {"ACTIVE", "DEFAULTED"} => status' # "PENDING_DEPOSIT"
  BY AdvancedStatuses DEF AdvanceContractStatus, LedgerInv
<1>2. item' = IF status = "PENDING_DEPOSIT" /\ status' # status THEN "ISSUED" ELSE item
  BY DEF AdvanceContractStatus
<1>3. QED
  BY <1>1, <1>2 DEF LedgerInv, PhoneFollowsStatus, PreApproval, Statuses, Terminal

LEMMA PostPaymentInv ==
  ASSUME LedgerInv, NEW a \in Amounts, PostPayment(a)
  PROVE  LedgerInv'
<1>1. /\ status \in {"PENDING_DEPOSIT", "ACTIVE", "DEFAULTED"}
      /\ UNCHANGED deal
  BY DEF PostPayment, LedgerInv, Statuses, Terminal, PreApproval
<1>2. payments' = Append(payments, NewPayment(a)) /\ TotalsMatchLedger'
  BY <1>1, RecomputedTotals DEF PostPayment
<1>3. IsSeq(payments')
  BY <1>2, AppendIsSeq DEF LedgerInv
<1>4. AdvanceContractStatus
  BY DEF PostPayment
<1>5. QED
  BY <1>1, <1>2, <1>3, <1>4, AdvanceKeepsPhone DEF LedgerInv

\* Nothing is refunded before approval: with nothing paid there is no credit.
LEMMA PostCreditRefundInv ==
  ASSUME LedgerInv, NEW a \in Amounts, PostCreditRefund(a)
  PROVE  LedgerInv'
<1>1. UNCHANGED <<status, deal, item>>
  BY DEF PostCreditRefund
<1>2. PICK p : payments' = Append(payments, p) /\ TotalsMatchLedger'
  BY <1>1, RecomputedTotals DEF PostCreditRefund
<1>3. IsSeq(payments')
  BY <1>2, AppendIsSeq DEF LedgerInv
<1>4. status \notin PreApproval
  <2> SUFFICES ASSUME status \in PreApproval
               PROVE  FALSE
    OBVIOUS
  <2>1. totalPaid = 0
    BY EmptyLedger DEF LedgerInv, TotalsMatchLedger
  <2>2. deal.price \in Nat
    BY DealsAssumption DEF LedgerInv
  <2>3. Credit = 0
    BY <2>1, <2>2 DEF Credit, AtLeastZero
  <2>4. a \in Nat \ {0} /\ a <= Credit
    BY AmountsAssumption DEF PostCreditRefund
  <2>5. QED
    BY <2>3, <2>4
<1>5. QED
  BY <1>1, <1>2, <1>3, <1>4 DEF LedgerInv, PhoneFollowsStatus

LEMMA ReversePaymentInv ==
  ASSUME LedgerInv, NEW i \in DOMAIN payments, ReversePayment(i)
  PROVE  LedgerInv'
<1>1. UNCHANGED <<status, deal, item>>
  BY DEF ReversePayment
<1>2. payments' = Reversed(payments, {i}) /\ TotalsMatchLedger'
  BY <1>1, RecomputedTotals DEF ReversePayment
<1>3. IsSeq(payments')
  BY <1>2, ReversedIsSeq DEF LedgerInv
<1>4. status \notin PreApproval
  BY DEF LedgerInv
<1>5. QED
  BY <1>1, <1>2, <1>3, <1>4 DEF LedgerInv, PhoneFollowsStatus

LEMMA CancelContractInv ==
  ASSUME LedgerInv, CancelContract
  PROVE  LedgerInv'
<1>1. UNCHANGED deal /\ status' = "CANCELLED"
  BY DEF CancelContract
<1>2. IsSeq(payments') /\ TotalsMatchLedger'
  <2>1. CASE RecomputeContract(Reversed(payments, DOMAIN payments), schedule, penalties)
    BY <1>1, <2>1, RecomputedTotals, ReversedIsSeq DEF LedgerInv
  <2>2. CASE UNCHANGED <<payments, schedule, penalties, totalPaid, balance>>
    BY <1>1, <2>2 DEF LedgerInv, TotalsMatchLedger
  <2>3. QED
    BY <2>1, <2>2 DEF CancelContract
<1>3. item' \in {"AVAILABLE", "ISSUED"}
  BY DEF CancelContract, LedgerInv
<1>4. QED
  BY <1>1, <1>2, <1>3 DEF LedgerInv, PhoneFollowsStatus, PreApproval, Statuses, Terminal

LEMMA RescheduleContractInv ==
  ASSUME LedgerInv, NEW c, NEW start, RescheduleContract(c, start)
  PROVE  LedgerInv'
<1>1. /\ status \in {"PENDING_DEPOSIT", "ACTIVE", "DEFAULTED"}
      /\ UNCHANGED deal
      /\ AdvanceContractStatus
  BY DEF RescheduleContract
<1>2. PICK sched, pens :
         RecomputeContract([i \in DOMAIN payments |->
               [payments[i] EXCEPT !.toInstalments = Restrict(@, DOMAIN @ \ Untouched)]], sched, pens)
  BY DEF RescheduleContract
<1>3. /\ payments' = [i \in DOMAIN payments |->
               [payments[i] EXCEPT !.toInstalments = Restrict(@, DOMAIN @ \ Untouched)]]
      /\ TotalsMatchLedger'
  BY <1>1, <1>2, RecomputedTotals
<1>4. IsSeq(payments')
  BY <1>3, RewrittenIsSeq DEF LedgerInv
<1>5. QED
  BY <1>1, <1>3, <1>4, AdvanceKeepsPhone DEF LedgerInv

\* New terms: the balance is their price because nothing was paid under the old ones.
LEMMA ResubmitContractInv ==
  ASSUME LedgerInv, NEW d \in Deals, NEW start, ResubmitContract(d, start)
  PROVE  LedgerInv'
<1>1. /\ status \in PreApproval
      /\ UNCHANGED <<totalPaid, item, payments>>
      /\ status' = "PENDING_APPROVAL" /\ deal' = d /\ balance' = d.price
  BY DEF ResubmitContract, PreApproval
<1>2. totalPaid = 0
  BY <1>1, EmptyLedger DEF LedgerInv, TotalsMatchLedger
<1>3. d.price \in Nat
  BY DealsAssumption
<1>4. AtLeastZero(d.price - 0) = d.price
  BY <1>3 DEF AtLeastZero
<1>5. TotalsMatchLedger'
  BY <1>1, <1>2, <1>4 DEF TotalsMatchLedger, LedgerInv
<1>6. QED
  BY <1>1, <1>5 DEF LedgerInv, PhoneFollowsStatus, PreApproval, Statuses

\* The rest moves neither money nor the phone, and the status not past where the phone is.
LEMMA OtherStepsInv ==
  ASSUME LedgerInv,
         \/ ApproveContract \/ RequestContractRevision \/ RecordRefund \/ Tick
         \/ MarkOverdueInstalments \/ MarkDefaultedContracts
         \/ \E order \in SetToSeqs(Chargeable) : ApplyLatePenalties(order)
         \/ UNCHANGED vars
  PROVE  LedgerInv'
<1>1. UNCHANGED <<deal, totalPaid, balance, item, payments>>
  BY DEF ApproveContract, RequestContractRevision, RecordRefund, Tick, MarkOverdueInstalments,
         MarkDefaultedContracts, ApplyLatePenalties, vars, contractVars
<1>2. \/ status' = status
      \/ status \in PreApproval /\ status' \in PreApproval \cup {"PENDING_DEPOSIT"}
      \/ status = "ACTIVE" /\ status' = "DEFAULTED"
  BY DEF ApproveContract, RequestContractRevision, RecordRefund, Tick, MarkOverdueInstalments,
         MarkDefaultedContracts, ApplyLatePenalties, vars, contractVars, PreApproval
<1>3. TotalsMatchLedger'
  BY <1>1 DEF LedgerInv, TotalsMatchLedger
<1>4. QED
  BY <1>1, <1>2, <1>3 DEF LedgerInv, PhoneFollowsStatus, PreApproval, Statuses

-----------------------------------------------------------------------------
(* The accounts, step by step. *)

LEMMA DefaultedOnlyWhenOverdue ==
  ASSUME status \in Statuses, NEW paid, NEW owed, NEW sched, NEW pens
  PROVE  /\ AdvancedStatus(paid, owed, sched, pens) = "DEFAULTED" => HasOverdue(sched)
         /\ status \in {"ACTIVE", "DEFAULTED"} /\ ~HasOverdue(sched)
               => AdvancedStatus(paid, owed, sched, pens) \in {"ACTIVE", "COMPLETED"}
  BY DEF AdvancedStatus, Statuses, PreApproval, Terminal

\* What is overdue stays so while no more is paid on it.
LEMMA StaysOverdue ==
  ASSUME AccountInv, HasOverdue(schedule), StatusTells(schedule, now),
         NEW pays, NEW pens, Fits(pays, schedule, pens), RecomputeContract(pays, schedule, pens),
         deal \in Deals, UNCHANGED <<now, deal>>,
         \A n \in DOMAIN schedule : PaidOnInstalment(pays, n) <= PaidOnInstalment(payments, n)
  PROVE  HasOverdue(schedule')
<1>1. PICK n \in DOMAIN schedule : schedule[n].status = "OVERDUE"
  BY DEF HasOverdue
<1>2. schedule[n] \in Instalments /\ PaidOnInstalment(pays, n) \in Int
  BY PaidIsNat DEF Fits, IsSchedule
<1>3. schedule[n].amountPaid < schedule[n].amountDue /\ schedule[n].dueDate < now
  BY <1>1, <1>2 DEF StatusTells, Instalments
<1>4. schedule[n].amountPaid = PaidOnInstalment(payments, n)
  BY DEF AccountInv
<1>5. PaidOnInstalment(pays, n) < schedule[n].amountDue
  BY <1>2, <1>3, <1>4 DEF Instalments
<1>6. now \in Int
  BY BoundsAssumption DEF AccountInv
<1>7. /\ DOMAIN schedule' = DOMAIN schedule
      /\ \A m \in DOMAIN schedule :
            schedule'[m].status = "OVERDUE"
               <=> PaidOnInstalment(pays, m) < schedule[m].amountDue /\ schedule[m].dueDate < now
  BY <1>6, RecomputeFits
<1>8. n \in DOMAIN schedule' /\ schedule'[n].status = "OVERDUE"
  BY <1>3, <1>5, <1>7
<1>9. QED
  BY <1>8 DEF HasOverdue

LEMMA PaymentFits ==
  ASSUME AccountInv, deal \in Deals, NEW a \in Amounts, Len(payments) < MaxPayments
  PROVE  /\ Fits(Append(payments, NewPayment(a)), schedule, penalties)
         /\ \A n \in DOMAIN schedule :
               PaidOnInstalment(Append(payments, NewPayment(a)), n) =
                  PaidOnInstalment(payments, n)
                     + IF n \in DOMAIN NewPayment(a).toInstalments
                       THEN NewPayment(a).toInstalments[n] ELSE 0
<1> DEFINE p == NewPayment(a)
           I == DOMAIN schedule
           K == DOMAIN penalties
<1>1. Fits(payments, schedule, penalties)
  BY DEF AccountInv
<1>2. ScheduleOK /\ penalties \in Seq(Charges) /\ totalPaid \in Int
  BY <1>1 DEF AccountInv, ScheduleOK, Fits, IsSchedule
<1>3. /\ p \in Rows(I, K)
      /\ ~p.reversed
      /\ \A n \in DOMAIN p.toInstalments : p.toInstalments[n] <= Outstanding(schedule[n])
      /\ \A k \in DOMAIN p.toPenalties : ~penalties[k].isPaid
  BY <1>2, NewPaymentFacts
<1> HIDE DEF p
<1>4. payments \in Seq(Rows(I, K))
  BY <1>1 DEF Fits
<1>5. \A n \in I : PaidOnInstalment(Append(payments, p), n) =
                      PaidOnInstalment(payments, n)
                         + IF n \in DOMAIN p.toInstalments THEN p.toInstalments[n] ELSE 0
  BY <1>3, <1>4, PaidWithAppended
<1>6. ASSUME NEW n \in I
      PROVE  PaidOnInstalment(Append(payments, p), n) <= AtLeastZero(schedule[n].amountDue)
  <2>1. /\ schedule[n].amountDue \in Int
        /\ schedule[n].amountPaid = PaidOnInstalment(payments, n)
        /\ PaidOnInstalment(payments, n) \in Nat
        /\ PaidOnInstalment(payments, n) <= AtLeastZero(schedule[n].amountDue)
    BY <1>1, <1>4, PaidIsNat DEF AccountInv, Fits, IsSchedule, Instalments
  <2>2. CASE n \in DOMAIN p.toInstalments
    <3> DEFINE more == p.toInstalments[n]
    <3>1. /\ more \in Nat
          /\ more <= AtLeastZero(schedule[n].amountDue - PaidOnInstalment(payments, n))
      BY <1>3, <2>1, <2>2, RowFacts DEF Outstanding
    <3>2. PaidOnInstalment(Append(payments, p), n) = PaidOnInstalment(payments, n) + more
      BY <1>5, <2>2
    <3> HIDE DEF more
    <3>3. QED
      BY <2>1, <3>1, <3>2 DEF AtLeastZero
  <2>3. CASE n \notin DOMAIN p.toInstalments
    BY <1>5, <2>1, <2>3
  <2>4. QED
    BY <2>2, <2>3
<1>7. ASSUME NEW k \in K, NEW i \in PaysCharge(Append(payments, p), k),
             NEW j \in PaysCharge(Append(payments, p), k)
      PROVE  i = j
  <2>1. /\ PaysCharge(Append(payments, p), k) \subseteq PaysCharge(payments, k) \cup {Len(payments) + 1}
        /\ Len(payments) + 1 \in PaysCharge(Append(payments, p), k) => k \in DOMAIN p.toPenalties
    BY <1>3, <1>4, ChargeWithAppended
  <2>2. \A x, y \in PaysCharge(payments, k) : x = y
    BY <1>1 DEF Fits
  <2>3. k \in DOMAIN p.toPenalties => PaysCharge(payments, k) = {}
    BY <1>3 DEF AccountInv, PaidChargesAreMarked
  <2>4. QED
    BY <2>1, <2>2, <2>3
<1>8. Append(payments, p) \in Seq(Rows(I, K)) /\ Len(Append(payments, p)) <= MaxPayments
  BY <1>3, <1>4, BoundsAssumption
<1>9. Fits(Append(payments, p), schedule, penalties)
  BY <1>1, <1>6, <1>7, <1>8 DEF Fits
<1>10. QED
  BY <1>5, <1>9 DEF p

LEMMA PostPaymentAccounts ==
  ASSUME LedgerInv, AccountInv, NEW a \in Amounts, PostPayment(a)
  PROVE  AccountInv'
<1>1. /\ Len(payments) < MaxPayments
      /\ RecomputeContract(Append(payments, NewPayment(a)), schedule, penalties)
      /\ status' = AdvancedStatus(totalPaid', balance', schedule', penalties')
      /\ UNCHANGED <<now, deal, refundDue, refunded>>
  BY DEF PostPayment, AdvanceContractStatus
<1>2. deal \in Deals /\ status \in Statuses /\ now \in Int
  BY BoundsAssumption DEF LedgerInv, AccountInv
<1>3. Fits(Append(payments, NewPayment(a)), schedule, penalties)
  BY <1>1, <1>2, PaymentFits
<1>4. /\ totalPaid' \in Int /\ balance' \in Nat
      /\ Fits(payments, schedule, penalties)'
      /\ (\A n \in DOMAIN schedule : schedule[n].amountPaid = PaidOnInstalment(payments, n))'
      /\ PaidChargesAreMarked'
      /\ StatusTells(schedule, now)'
  BY <1>1, <1>2, <1>3, RecomputeFits
<1>5. status' = "DEFAULTED" => HasOverdue(schedule')
  BY <1>1, <1>2, DefaultedOnlyWhenOverdue
<1>6. QED
  BY <1>1, <1>4, <1>5 DEF AccountInv, HasOverdue

LEMMA EmptyAllocation ==
  ASSUME NEW S
  PROVE  <<>> \in PartialOn(S) /\ DOMAIN <<>> = {}
<1>1. {} \in SUBSET S /\ DOMAIN <<>> = {}
  OBVIOUS
<1>2. <<>> = [x \in {} |-> 0]
  OBVIOUS
<1>3. <<>> \in [{} -> Nat]
  BY <1>2
<1>4. QED
  BY <1>1, <1>3, PartialIs

\* A ledger that pays each instalment and each charge no more than now still fits.
LEMMA FewerPaymentsFit ==
  ASSUME AccountInv,
         NEW pays \in Seq(Rows(DOMAIN schedule, DOMAIN penalties)), Len(pays) <= MaxPayments,
         \A n \in DOMAIN schedule : PaidOnInstalment(pays, n) <= PaidOnInstalment(payments, n),
         \A k \in DOMAIN penalties : PaysCharge(pays, k) \subseteq PaysCharge(payments, k)
  PROVE  Fits(pays, schedule, penalties)
<1>1. \A n \in DOMAIN schedule : /\ PaidOnInstalment(pays, n) \in Nat
                                 /\ PaidOnInstalment(payments, n) \in Nat
                                 /\ schedule[n].amountDue \in Int
  BY PaidIsNat DEF AccountInv, Fits, IsSchedule, Instalments
<1>2. \A n \in DOMAIN schedule : PaidOnInstalment(pays, n) <= AtLeastZero(schedule[n].amountDue)
  BY <1>1 DEF AccountInv, Fits, AtLeastZero
<1>3. QED
  BY <1>2 DEF AccountInv, Fits

\* Taking money back, or handing credit back, leaves the status; so the arrears must stay.
LEMMA FewerPaymentsAccounts ==
  ASSUME LedgerInv, AccountInv, NEW pays, RecomputeContract(pays, schedule, penalties),
         pays \in Seq(Rows(DOMAIN schedule, DOMAIN penalties)), Len(pays) <= MaxPayments,
         \A n \in DOMAIN schedule : PaidOnInstalment(pays, n) <= PaidOnInstalment(payments, n),
         \A k \in DOMAIN penalties : PaysCharge(pays, k) \subseteq PaysCharge(payments, k),
         status' \in {status, "CANCELLED"}, refundDue' \in Nat, refunded' \in BOOLEAN,
         UNCHANGED <<now, deal>>
  PROVE  AccountInv'
<1>1. deal \in Deals /\ now \in Int
  BY BoundsAssumption DEF LedgerInv, AccountInv
<1>2. Fits(pays, schedule, penalties)
  BY FewerPaymentsFit
<1>3. /\ totalPaid' \in Int /\ balance' \in Nat
      /\ Fits(payments, schedule, penalties)'
      /\ (\A n \in DOMAIN schedule : schedule[n].amountPaid = PaidOnInstalment(payments, n))'
      /\ PaidChargesAreMarked'
      /\ StatusTells(schedule, now)'
  BY <1>1, <1>2, RecomputeFits
<1>4. status' = "DEFAULTED" => HasOverdue(schedule')
  <2>1. CASE status = "DEFAULTED"
    <3>1. HasOverdue(schedule) /\ StatusTells(schedule, now)
      BY <2>1 DEF AccountInv
    <3>2. QED
      BY <1>1, <1>2, <3>1, StaysOverdue
  <2>2. QED
    BY <2>1
<1>5. QED
  BY <1>3, <1>4 DEF AccountInv, HasOverdue

LEMMA PostCreditRefundAccounts ==
  ASSUME LedgerInv, AccountInv, NEW a \in Amounts, PostCreditRefund(a)
  PROVE  AccountInv'
<1> DEFINE p == [entryType |-> "CREDIT_REFUND", amount |-> a, reversed |-> FALSE,
                 toInstalments |-> <<>>, toPenalties |-> <<>>]
           I == DOMAIN schedule
           K == DOMAIN penalties
<1>1. /\ Len(payments) < MaxPayments
      /\ RecomputeContract(Append(payments, p), schedule, penalties)
      /\ UNCHANGED <<now, status, deal, refundDue, refunded, item>>
  BY DEF PostCreditRefund
<1>2. /\ p \in Rows(I, K) /\ ~p.reversed
      /\ DOMAIN p.toInstalments = {} /\ DOMAIN p.toPenalties = {}
  BY EmptyAllocation, AmountsAssumption DEF Rows
<1> HIDE DEF p
<1>3. payments \in Seq(Rows(I, K))
  BY DEF AccountInv, Fits
<1>4. Append(payments, p) \in Seq(Rows(I, K)) /\ Len(Append(payments, p)) <= MaxPayments
  BY <1>1, <1>2, <1>3, BoundsAssumption
<1>5. \A n \in I : PaidOnInstalment(Append(payments, p), n) <= PaidOnInstalment(payments, n)
  <2> TAKE n \in I
  <2>1. PaidOnInstalment(payments, n) \in Nat
    BY <1>3, PaidIsNat
  <2>2. PaidOnInstalment(Append(payments, p), n) = PaidOnInstalment(payments, n) + 0
    BY <1>2, <1>3, PaidWithAppended
  <2>3. QED
    BY <2>1, <2>2
<1>6. \A k \in K : PaysCharge(Append(payments, p), k) \subseteq PaysCharge(payments, k)
  <2> TAKE k \in K
  <2>1. /\ PaysCharge(Append(payments, p), k) \subseteq PaysCharge(payments, k) \cup {Len(payments) + 1}
        /\ Len(payments) + 1 \in PaysCharge(Append(payments, p), k) => k \in DOMAIN p.toPenalties
    BY <1>2, <1>3, ChargeWithAppended
  <2>2. QED
    BY <1>2, <2>1
<1>7. refundDue' \in Nat /\ refunded' \in BOOLEAN
  BY <1>1 DEF AccountInv
<1>8. QED
  BY <1>1, <1>4, <1>5, <1>6, <1>7, FewerPaymentsAccounts

LEMMA ReversedFewer ==
  ASSUME AccountInv, NEW S
  PROVE  /\ Reversed(payments, S) \in Seq(Rows(DOMAIN schedule, DOMAIN penalties))
         /\ Len(Reversed(payments, S)) <= MaxPayments
         /\ \A n \in DOMAIN schedule :
               PaidOnInstalment(Reversed(payments, S), n) <= PaidOnInstalment(payments, n)
         /\ \A k \in DOMAIN penalties : PaysCharge(Reversed(payments, S), k) \subseteq PaysCharge(payments, k)
<1>1. payments \in Seq(Rows(DOMAIN schedule, DOMAIN penalties)) /\ Len(payments) <= MaxPayments
  BY DEF AccountInv, Fits
<1>2. /\ Reversed(payments, S) \in Seq(Rows(DOMAIN schedule, DOMAIN penalties))
      /\ DOMAIN Reversed(payments, S) = DOMAIN payments
  BY <1>1, ReversedRows
<1>3. Len(Reversed(payments, S)) = Len(payments)
  BY <1>1, <1>2
<1>4. \A n \in DOMAIN schedule :
         PaidOnInstalment(Reversed(payments, S), n) <= PaidOnInstalment(payments, n)
  BY <1>1, PaidWhenReversed
<1>5. \A k \in DOMAIN penalties : PaysCharge(Reversed(payments, S), k) \subseteq PaysCharge(payments, k)
  BY <1>1, ChargeWhenReversed
<1>6. QED
  BY <1>1, <1>2, <1>3, <1>4, <1>5

LEMMA ReversePaymentAccounts ==
  ASSUME LedgerInv, AccountInv, NEW i \in DOMAIN payments, ReversePayment(i)
  PROVE  AccountInv'
<1>1. /\ RecomputeContract(Reversed(payments, {i}), schedule, penalties)
      /\ UNCHANGED <<now, status, deal, refundDue, refunded, item>>
  BY DEF ReversePayment
<1>2. refundDue' \in Nat /\ refunded' \in BOOLEAN
  BY <1>1 DEF AccountInv
<1>3. QED
  BY <1>1, <1>2, ReversedFewer, FewerPaymentsAccounts

LEMMA CancelContractAccounts ==
  ASSUME LedgerInv, AccountInv, CancelContract
  PROVE  AccountInv'
<1>1. /\ status' = "CANCELLED"
      /\ refundDue' = AtLeastZero(totalPaid)
      /\ UNCHANGED <<now, deal, refunded>>
  BY DEF CancelContract
<1>2. refundDue' \in Nat /\ refunded' \in BOOLEAN
  BY <1>1 DEF AccountInv, AtLeastZero
<1>3. CASE RecomputeContract(Reversed(payments, DOMAIN payments), schedule, penalties)
  BY <1>1, <1>2, <1>3, ReversedFewer, FewerPaymentsAccounts
<1>4. CASE UNCHANGED <<payments, schedule, penalties, totalPaid, balance>>
  BY <1>1, <1>2, <1>4 DEF AccountInv, Fits, PaidChargesAreMarked
<1>5. QED
  BY <1>3, <1>4 DEF CancelContract

\* The schedule a sale is entered with.
LEMMA FirstScheduleFits ==
  ASSUME NEW d \in Deals, NEW start \in Int, NEW pens \in Seq(Charges), ChargedOneInstalmentOnce(pens)
  PROVE  /\ <<>> \in Seq(Rows(DOMAIN ScheduleOf(d, start), DOMAIN pens))
         /\ Len(<<>>) <= MaxPayments
         /\ IsSchedule(ScheduleOf(d, start))
         /\ \A n \in DOMAIN ScheduleOf(d, start) :
               /\ ScheduleOf(d, start)[n].amountPaid = 0
               /\ PaidOnInstalment(<<>>, n) = 0
               /\ 0 <= AtLeastZero(ScheduleOf(d, start)[n].amountDue)
         /\ \A k : PaysCharge(<<>>, k) = {}
         /\ DueOn(ScheduleOf(d, start)) = d.price - d.deposit
<1> DEFINE amount == d.price - d.deposit
           line == StraightLine(amount, d.count, 1, start)
<1>1. /\ amount \in Int /\ d.count \in Nat \ {0} /\ 1 \in Nat
      /\ d.count <= MaxInstalmentNo /\ MaxInstalmentNo \in Nat /\ MaxPayments \in Nat
  BY DealsAssumption, BoundsAssumption
<1>2. ScheduleOf(d, start) = line
  BY DEF ScheduleOf
<1> HIDE DEF amount
<1>3. /\ DOMAIN line = 1..(1 + d.count - 1)
      /\ \A n \in 1..(1 + d.count - 1) : line[n] \in Instalments /\ line[n].amountPaid = 0
      /\ DueOn(line) = amount
  BY <1>1, StraightLineFacts
<1> HIDE DEF line
<1>4. IsSchedule(line)
  BY <1>1, <1>3 DEF IsSchedule
<1>5. \A n \in DOMAIN line : 0 <= AtLeastZero(line[n].amountDue)
  BY <1>3 DEF Instalments, AtLeastZero
<1>6. \A k : PaysCharge(<<>>, k) = {}
  BY DEF PaysCharge, EffectivePayments
<1>7. QED
  BY <1>1, <1>2, <1>3, <1>4, <1>5, <1>6, EmptyPays DEF amount

LEMMA InitAccounts == Init => AccountInv
<1> SUFFICES ASSUME Init
             PROVE  AccountInv
  OBVIOUS
<1>1. deal \in Deals /\ schedule = ScheduleOf(deal, 0) /\ payments = <<>> /\ penalties = <<>>
  BY DEF Init
<1>2. <<>> \in Seq(Charges) /\ ChargedOneInstalmentOnce(<<>>)
  BY DEF ChargedOneInstalmentOnce
<1>3. /\ <<>> \in Seq(Rows(DOMAIN schedule, DOMAIN penalties))
      /\ Len(<<>>) <= MaxPayments
      /\ IsSchedule(schedule)
      /\ \A n \in DOMAIN schedule :
            /\ schedule[n].amountPaid = 0
            /\ PaidOnInstalment(<<>>, n) = 0
            /\ 0 <= AtLeastZero(schedule[n].amountDue)
      /\ \A k : PaysCharge(<<>>, k) = {}
      /\ DueOn(schedule) = deal.price - deal.deposit
  <2> DEFINE line == ScheduleOf(deal, 0)
  <2>1. /\ <<>> \in Seq(Rows(DOMAIN line, DOMAIN <<>>))
        /\ Len(<<>>) <= MaxPayments
        /\ IsSchedule(line)
        /\ \A n \in DOMAIN line :
              /\ line[n].amountPaid = 0
              /\ PaidOnInstalment(<<>>, n) = 0
              /\ 0 <= AtLeastZero(line[n].amountDue)
        /\ \A k : PaysCharge(<<>>, k) = {}
        /\ DueOn(line) = deal.price - deal.deposit
    BY <1>1, <1>2, FirstScheduleFits, 0 \in Int
  <2> HIDE DEF line
  <2>2. schedule = line /\ penalties = <<>>
    BY <1>1 DEF line
  <2>3. QED
    BY <2>1, <2>2
<1>4. Fits(payments, schedule, penalties)
  BY <1>1, <1>2, <1>3 DEF Fits
<1>5. PaidChargesAreMarked
  BY <1>1 DEF PaidChargesAreMarked
<1>6. now \in 0..Horizon /\ totalPaid \in Int /\ balance \in Nat
  BY BoundsAssumption, DealsAssumption DEF Init
<1>7. status \notin {"ACTIVE", "DEFAULTED"} /\ refundDue \in Nat /\ refunded \in BOOLEAN
  BY DEF Init
<1>8. QED
  BY <1>1, <1>3, <1>4, <1>5, <1>6, <1>7 DEF AccountInv

\* The charges of "pens", each on the instalment "to" gives it.
Moved(new, pens, to) == new = [k \in DOMAIN pens |-> [pens[k] EXCEPT !.instalment = to[k]]]

LEMMA ChargesMoved ==
  ASSUME NEW pens \in Seq(Charges), NEW to, \A k \in DOMAIN pens : to[k] \in 0..MaxInstalmentNo,
         NEW new, Moved(new, pens, to)
  PROVE  /\ new \in Seq(Charges) /\ DOMAIN new = DOMAIN pens
         /\ \A k \in DOMAIN pens : new[k].instalment = to[k] /\ new[k].isPaid = pens[k].isPaid
<1>1. DOMAIN pens = 1..Len(pens) /\ Len(pens) \in Nat
  OBVIOUS
<1>2. \A k \in DOMAIN pens :
         new[k] \in Charges /\ new[k].instalment = to[k] /\ new[k].isPaid = pens[k].isPaid
  <2> TAKE k \in DOMAIN pens
  <2>1. pens[k] \in Charges /\ to[k] \in 0..MaxInstalmentNo
    OBVIOUS
  <2>2. new[k] = [pens[k] EXCEPT !.instalment = to[k]]
    BY DEF Moved
  <2>3. QED
    BY <2>1, <2>2 DEF Charges
<1>3. new = [k \in 1..Len(pens) |-> new[k]]
  BY <1>1 DEF Moved
<1>4. QED
  BY <1>1, <1>2, <1>3

LEMMA ResubmitContractAccounts ==
  ASSUME LedgerInv, AccountInv, NEW d \in Deals, NEW o \in StartOffsets,
         ResubmitContract(d, now + o)
  PROVE  AccountInv'
<1> DEFINE pens == [k \in DOMAIN penalties |-> [penalties[k] EXCEPT !.instalment = NoInstalment]]
<1>1. /\ status \in PreApproval
      /\ status' = "PENDING_APPROVAL"
      /\ deal' = d /\ balance' = d.price
      /\ schedule' = ScheduleOf(d, now + o)
      /\ penalties' = pens
      /\ UNCHANGED <<now, totalPaid, refundDue, refunded, item, payments>>
  BY DEF ResubmitContract, PreApproval
<1>2. payments = <<>>
  BY <1>1 DEF LedgerInv
<1>3. pens \in Seq(Charges) /\ DOMAIN pens = DOMAIN penalties
      /\ \A k \in DOMAIN pens : pens[k].instalment = NoInstalment
  <2> DEFINE to == [k \in DOMAIN penalties |-> NoInstalment]
  <2>1. penalties \in Seq(Charges)
    BY DEF AccountInv, Fits
  <2>2. Moved(pens, penalties, to)
    BY DEF Moved
  <2>3. \A k \in DOMAIN penalties : to[k] \in 0..MaxInstalmentNo /\ to[k] = NoInstalment
    BY BoundsAssumption DEF NoInstalment
  <2> HIDE DEF pens, to
  <2>4. QED
    BY <2>1, <2>2, <2>3, ChargesMoved
<1> HIDE DEF pens
<1>4. ChargedOneInstalmentOnce(pens)
  BY <1>3 DEF ChargedOneInstalmentOnce
<1>5. now + o \in Int
  BY ScheduleAssumption, BoundsAssumption DEF AccountInv
<1>6. /\ <<>> \in Seq(Rows(DOMAIN schedule', DOMAIN pens))
      /\ Len(<<>>) <= MaxPayments
      /\ IsSchedule(schedule')
      /\ \A n \in DOMAIN schedule' :
            /\ schedule'[n].amountPaid = 0
            /\ PaidOnInstalment(<<>>, n) = 0
            /\ 0 <= AtLeastZero(schedule'[n].amountDue)
      /\ \A k : PaysCharge(<<>>, k) = {}
      /\ DueOn(schedule') = deal'.price - deal'.deposit
  BY <1>1, <1>3, <1>4, <1>5, FirstScheduleFits
<1>7. payments' = <<>>
  BY <1>1, <1>2
<1>8. Fits(payments, schedule, penalties)'
  BY <1>1, <1>3, <1>4, <1>6, <1>7 DEF Fits
<1>9. PaidChargesAreMarked'
  BY <1>6, <1>7 DEF PaidChargesAreMarked
<1>10. balance' \in Nat
  BY <1>1, DealsAssumption
<1>11. QED
  BY <1>1, <1>6, <1>7, <1>8, <1>9, <1>10 DEF AccountInv

LEMMA MarkOverdueAccounts ==
  ASSUME LedgerInv, AccountInv, MarkOverdueInstalments
  PROVE  AccountInv'
<1>1. /\ schedule' = [n \in DOMAIN schedule |->
                        IF n \in LateInstalments THEN [schedule[n] EXCEPT !.status = "OVERDUE"]
                        ELSE schedule[n]]
      /\ UNCHANGED <<now, status, deal, totalPaid, balance, refundDue, refunded, penalties, payments>>
  BY DEF MarkOverdueInstalments, contractVars
<1>2. Fits(payments, schedule, penalties)
  BY DEF AccountInv
<1>3. DOMAIN schedule' = DOMAIN schedule
  BY <1>1
<1>4. ASSUME NEW n \in DOMAIN schedule
      PROVE  /\ schedule'[n] \in Instalments
             /\ schedule'[n].amountDue = schedule[n].amountDue
             /\ schedule'[n].dueDate = schedule[n].dueDate
             /\ schedule'[n].amountPaid = schedule[n].amountPaid
             /\ schedule'[n].status = IF n \in LateInstalments THEN "OVERDUE" ELSE schedule[n].status
  BY <1>1, <1>2 DEF Fits, IsSchedule, Instalments, InstalmentStatuses
<1>5. DueOn(schedule') = DueOn(schedule)
  BY <1>3, <1>4 DEF DueOn
<1>6. IsSchedule(schedule')
  BY <1>2, <1>3, <1>4 DEF Fits, IsSchedule
<1>7. Fits(payments, schedule, penalties)'
  BY <1>1, <1>2, <1>3, <1>4, <1>5, <1>6 DEF Fits
<1>8. StatusTells(schedule, now) => StatusTells(schedule, now)'
  BY <1>1, <1>3, <1>4 DEF StatusTells, LateInstalments
<1>9. HasOverdue(schedule) => HasOverdue(schedule')
  BY <1>3, <1>4 DEF HasOverdue
<1>10. \A n \in DOMAIN schedule' : schedule'[n].amountPaid = PaidOnInstalment(payments', n)
  BY <1>1, <1>3, <1>4 DEF AccountInv
<1>11. QED
  BY <1>1, <1>7, <1>8, <1>9, <1>10 DEF AccountInv, PaidChargesAreMarked, HasOverdue

\* A day goes by, or the contract's status moves with what justifies it.
LEMMA QuietStepsAccounts ==
  ASSUME LedgerInv, AccountInv,
         \/ ApproveContract \/ RequestContractRevision \/ RecordRefund \/ Tick
         \/ MarkDefaultedContracts \/ UNCHANGED vars
  PROVE  AccountInv'
<1>1. UNCHANGED <<deal, totalPaid, balance, refundDue, schedule, penalties, payments>>
  BY DEF ApproveContract, RequestContractRevision, RecordRefund, Tick, MarkDefaultedContracts,
         vars, contractVars
<1>2. refunded' \in BOOLEAN
  BY DEF ApproveContract, RequestContractRevision, RecordRefund, Tick, MarkDefaultedContracts,
         vars, contractVars, AccountInv
<1>3. now' \in 0..Horizon /\ now' >= now
  BY BoundsAssumption
     DEF ApproveContract, RequestContractRevision, RecordRefund, Tick, MarkDefaultedContracts,
         vars, contractVars, AccountInv
<1>4. \/ status' = status
      \/ status' \notin {"ACTIVE", "DEFAULTED"}
      \/ status = "ACTIVE" /\ status' = "DEFAULTED" /\ HasOverdue(schedule)
  BY DEF ApproveContract, RequestContractRevision, RecordRefund, Tick, MarkDefaultedContracts,
         vars, contractVars, HasOverdue
<1>5. StatusTells(schedule, now) => StatusTells(schedule, now)'
  <2>1. \A n \in DOMAIN schedule : schedule[n].dueDate \in Int
    BY DEF AccountInv, Fits, IsSchedule, Instalments
  <2>2. now \in Int /\ now' \in Int
    BY <1>3, BoundsAssumption DEF AccountInv
  <2>3. QED
    BY <1>1, <1>3, <2>1, <2>2 DEF StatusTells
<1>6. Fits(payments, schedule, penalties)'
  BY <1>1 DEF AccountInv, Fits
<1>7. QED
  BY <1>1, <1>2, <1>3, <1>4, <1>5, <1>6 DEF AccountInv, PaidChargesAreMarked, HasOverdue

LEMMA Ordered ==
  ASSUME NEW S, IsFiniteSet(S), NEW order \in SetToSeqs(S)
  PROVE  \E m \in Nat : /\ DOMAIN order = 1..m
                        /\ \A k \in 1..m : order[k] \in S
                        /\ \A k, l \in 1..m : k # l => order[k] # order[l]
<1>1. Cardinality(S) \in Nat
  BY FS_CardinalityType
<1>2. /\ order \in [1..Cardinality(S) -> S]
      /\ \A k, l \in 1..Cardinality(S) : k # l => order[k] # order[l]
  BY DEF SetToSeqs
<1>3. QED
  BY <1>1, <1>2

\* New charges are for instalments that had none, in whatever order they are made.
LEMMA ApplyLatePenaltiesAccounts ==
  ASSUME LedgerInv, AccountInv, NEW order \in SetToSeqs(Chargeable), ApplyLatePenalties(order)
  PROVE  AccountInv'
<1> DEFINE new == [k \in DOMAIN order |->
                      [instalment |-> order[k], amount |-> LateCharge(order[k]), isPaid |-> FALSE]]
           n0 == Len(penalties)
<1>1. /\ penalties' = penalties \o new
      /\ UNCHANGED <<now, status, deal, totalPaid, balance, refundDue, refunded, schedule, payments>>
  BY DEF ApplyLatePenalties, contractVars
<1>2. Fits(payments, schedule, penalties)
  BY DEF AccountInv
<1>3. penalties \in Seq(Charges) /\ n0 \in Nat /\ DOMAIN penalties = 1..n0
  BY <1>2 DEF Fits
<1>4. IsFiniteSet(Chargeable)
  <2>1. ScheduleOK
    BY <1>2 DEF Fits, IsSchedule, ScheduleOK
  <2>2. QED
    BY <2>1, OutstandingIsNat, FS_Subset DEF Chargeable
<1>5. PICK m \in Nat : /\ DOMAIN order = 1..m
                       /\ \A k \in 1..m : order[k] \in Chargeable
                       /\ \A k, l \in 1..m : k # l => order[k] # order[l]
  BY <1>4, Ordered
<1>6. ASSUME NEW n \in Chargeable
      PROVE  /\ n \in 0..MaxInstalmentNo /\ n # NoInstalment
             /\ LateCharge(n) \in Nat \ {0}
             /\ \A k \in DOMAIN penalties : penalties[k].instalment # n
  <2>1. schedule[n].amountDue \in Int /\ n \in 1..MaxInstalmentNo
    BY <1>2 DEF Chargeable, Fits, IsSchedule, Instalments
  <2>2. LateCharge(n) \in Int
    BY <2>1, PolicyAssumption DEF LateCharge
  <2>3. QED
    BY <2>1, <2>2, BoundsAssumption DEF Chargeable, NoInstalment
<1>7. \A k \in 1..m : /\ new[k] \in Charges
                      /\ new[k].instalment = order[k]
                      /\ order[k] # NoInstalment
                      /\ \A l \in DOMAIN penalties : penalties[l].instalment # order[k]
  BY <1>5, <1>6 DEF Charges
<1>8. DOMAIN new = 1..m /\ new = [k \in 1..m |-> new[k]]
  BY <1>5
<1> HIDE DEF new
<1>9. new \in Seq(Charges) /\ Len(new) = m
  BY <1>7, <1>8
<1> HIDE DEF n0
<1>10. /\ penalties' \in Seq(Charges)
       /\ DOMAIN penalties' = 1..(n0 + m)
       /\ \A k \in 1..n0 : penalties'[k] = penalties[k]
       /\ \A k \in (n0 + 1)..(n0 + m) : k - n0 \in 1..m /\ penalties'[k] = new[k - n0]
  BY <1>1, <1>3, <1>9 DEF n0
<1>11. ChargedOneInstalmentOnce(penalties')
  <2> SUFFICES ASSUME NEW k \in DOMAIN penalties', NEW l \in DOMAIN penalties', k # l,
                      penalties'[k].instalment # NoInstalment
               PROVE  penalties'[k].instalment # penalties'[l].instalment
    BY DEF ChargedOneInstalmentOnce
  <2>1. k \in 1..n0 \/ k \in (n0 + 1)..(n0 + m)
    BY <1>3, <1>10
  <2>2. l \in 1..n0 \/ l \in (n0 + 1)..(n0 + m)
    BY <1>3, <1>10
  <2>3. CASE k \in 1..n0 /\ l \in 1..n0
    BY <1>2, <1>3, <1>10, <2>3 DEF Fits, ChargedOneInstalmentOnce
  <2>4. CASE k \in 1..n0 /\ l \in (n0 + 1)..(n0 + m)
    BY <1>3, <1>7, <1>10, <2>4
  <2>5. CASE k \in (n0 + 1)..(n0 + m) /\ l \in 1..n0
    BY <1>3, <1>7, <1>10, <2>5
  <2>6. CASE k \in (n0 + 1)..(n0 + m) /\ l \in (n0 + 1)..(n0 + m)
    <3>1. k - n0 \in 1..m /\ l - n0 \in 1..m /\ k - n0 # l - n0
      BY <1>3, <1>10, <2>6
    <3>2. /\ penalties'[k].instalment = order[k - n0]
          /\ penalties'[l].instalment = order[l - n0]
      BY <1>7, <1>10, <2>6, <3>1
    <3>3. QED
      BY <1>5, <3>1, <3>2
  <2>7. QED
    BY <2>1, <2>2, <2>3, <2>4, <2>5, <2>6
<1>12. payments \in Seq(Rows(DOMAIN schedule, DOMAIN penalties))
  BY <1>2 DEF Fits
<1>13. \A k \in DOMAIN penalties' \ DOMAIN penalties : PaysCharge(payments, k) = {}
  <2>1. \A i \in DOMAIN payments : DOMAIN payments[i].toPenalties \in SUBSET DOMAIN penalties
    BY <1>12, RowsOfSeq, RowFacts
  <2>2. QED
    BY <2>1 DEF PaysCharge, EffectivePayments
<1>14. DOMAIN penalties \subseteq DOMAIN penalties'
  BY <1>3, <1>10
<1>15. payments \in Seq(Rows(DOMAIN schedule, DOMAIN penalties'))
  BY <1>12, <1>14, MoreRows
<1>16. \A k \in DOMAIN penalties' : \A i, j \in PaysCharge(payments, k) : i = j
  BY <1>2, <1>13 DEF Fits
<1>17. Fits(payments, schedule, penalties)'
  BY <1>1, <1>2, <1>10, <1>11, <1>15, <1>16 DEF Fits
<1>18. PaidChargesAreMarked'
  <2>1. \A k \in DOMAIN penalties : penalties'[k] = penalties[k]
    BY <1>3, <1>10
  <2>2. QED
    BY <1>1, <1>13, <2>1 DEF AccountInv, PaidChargesAreMarked
<1>19. QED
  BY <1>1, <1>17, <1>18 DEF AccountInv, HasOverdue

-----------------------------------------------------------------------------
(* A reschedule. *)

LastKept == Max(DOMAIN KeptInstalments \cup {0})

Plan(count, start) ==
    LET added == StraightLine(OutstandingOnSchedule, count, LastKept + 1, start)
    IN  [n \in DOMAIN KeptInstalments \cup DOMAIN added |->
            IF n \in DOMAIN KeptInstalments THEN KeptInstalments[n] ELSE added[n]]

\* Part-paid instalments closed at what was paid, and the rest as new ones, add up to the same.
LEMMA KeptAndOwed ==
  ASSUME AccountInv
  PROVE  DueOn(KeptInstalments) + OutstandingOnSchedule = DueOn(schedule)
<1> DEFINE D == DOMAIN schedule
           K == DOMAIN schedule \ Untouched
           kept == [n \in K |-> KeptInstalments[n].amountDue]
           due == [n \in D |-> schedule[n].amountDue]
           owed == [n \in Unpaid |-> Outstanding(schedule[n])]
           f == [n \in D |-> IF n \in K THEN kept[n] ELSE 0]
           g == [n \in D |-> IF n \in Unpaid THEN owed[n] ELSE 0]
<1>1. ScheduleOK
  BY DEF AccountInv, Fits, IsSchedule, ScheduleOK
<1>2. IsFiniteSet(D) /\ Unpaid \in SUBSET D /\ Untouched \in SUBSET Unpaid /\ K \in SUBSET D
  BY <1>1, OutstandingIsNat DEF Unpaid, Untouched
<1>3. \A n \in D : schedule[n].amountDue \in Int /\ schedule[n].amountPaid \in Int
  BY <1>1 DEF ScheduleOK, Instalments
<1>4. \A n \in Unpaid : owed[n] = schedule[n].amountDue - schedule[n].amountPaid
  <2> TAKE n \in Unpaid
  <2>1. /\ schedule[n].amountDue \in Int /\ schedule[n].amountPaid \in Int
        /\ schedule[n].amountPaid < schedule[n].amountDue
    BY <1>2, <1>3 DEF Unpaid
  <2>2. QED
    BY <2>1 DEF Outstanding, AtLeastZero
<1>5. \A n \in K : kept[n] = IF n \in Unpaid THEN schedule[n].amountPaid ELSE schedule[n].amountDue
  <2> TAKE n \in K
  <2>1. schedule[n] \in Instalments
    BY <1>1, <1>2 DEF ScheduleOK
  <2>2. KeptInstalments[n] =
           IF n \in Unpaid
           THEN [schedule[n] EXCEPT !.amountDue = schedule[n].amountPaid, !.status = "PAID"]
           ELSE schedule[n]
    BY DEF KeptInstalments
  <2>3. QED
    BY <2>1, <2>2 DEF Instalments
<1>6. \A n \in Untouched : schedule[n].amountPaid = 0
  BY DEF Untouched
<1>7. \A n \in D : due[n] = f[n] + g[n]
  <2> TAKE n \in D
  <2>1. CASE n \in Untouched
    BY <1>2, <1>3, <1>4, <1>6, <2>1
  <2>2. CASE n \in Unpaid \ Untouched
    BY <1>2, <1>3, <1>4, <1>5, <2>2
  <2>3. CASE n \notin Unpaid
    BY <1>2, <1>3, <1>5, <2>3
  <2>4. QED
    BY <2>1, <2>2, <2>3
<1>8. AllInts(f, D) /\ AllInts(g, D)
  BY <1>2, <1>3, <1>4, <1>5 DEF AllInts
<1>9. /\ DueOn(schedule) = SumFunctionOnSet(due, D)
      /\ OutstandingOnSchedule = SumFunctionOnSet(owed, Unpaid)
  BY DEF DueOn, OutstandingOnSchedule, OutstandingOn, SumFunction
<1>10. DueOn(KeptInstalments) = SumFunctionOnSet(kept, K)
  <2>1. DOMAIN KeptInstalments = K
    BY DEF KeptInstalments
  <2>2. QED
    BY <2>1 DEF DueOn, SumFunction
<1>11. /\ \A n \in D \ K : f[n] = 0
       /\ \A n \in K : f[n] = kept[n]
       /\ \A n \in D \ Unpaid : g[n] = 0
       /\ \A n \in Unpaid : g[n] = owed[n]
  BY <1>2
<1>12. \A n \in K : kept[n] \in Int
  BY <1>2, <1>3, <1>5
<1>13. \A n \in Unpaid : owed[n] \in Int
  BY <1>2, <1>3, <1>4
<1> HIDE DEF D, K, kept, due, owed, f, g
<1>14. SumFunctionOnSet(due, D) = SumFunctionOnSet(f, D) + SumFunctionOnSet(g, D)
  BY <1>2, <1>7, <1>8, SumPlus
<1>15. SumFunctionOnSet(f, D) = SumFunctionOnSet(kept, K)
  <2>1. AllInts(f, K) /\ AllInts(kept, K) /\ IsFiniteSet(K)
    BY <1>2, <1>8, <1>12, FS_Subset DEF AllInts
  <2>2. SumFunctionOnSet(f, D) = SumFunctionOnSet(f, K)
    BY <1>2, <1>11, <2>1, SumOfPart
  <2>3. SumFunctionOnSet(f, K) = SumFunctionOnSet(kept, K)
    BY <1>11, <2>1, SumSame
  <2>4. QED
    BY <2>2, <2>3
<1>16. SumFunctionOnSet(g, D) = SumFunctionOnSet(owed, Unpaid)
  <2>1. AllInts(g, Unpaid) /\ AllInts(owed, Unpaid) /\ IsFiniteSet(Unpaid)
    BY <1>2, <1>8, <1>13, FS_Subset DEF AllInts
  <2>2. SumFunctionOnSet(g, D) = SumFunctionOnSet(g, Unpaid)
    BY <1>2, <1>11, <2>1, SumOfPart
  <2>3. SumFunctionOnSet(g, Unpaid) = SumFunctionOnSet(owed, Unpaid)
    BY <1>11, <2>1, SumSame
  <2>4. QED
    BY <2>2, <2>3
<1>17. QED
  BY <1>9, <1>10, <1>14, <1>15, <1>16

LEMMA KeptFacts ==
  ASSUME AccountInv
  PROVE  /\ DOMAIN KeptInstalments = DOMAIN schedule \ Untouched
         /\ DOMAIN KeptInstalments \subseteq 1..MaxInstalmentNo
         /\ IsFiniteSet(DOMAIN KeptInstalments)
         /\ \A n \in DOMAIN KeptInstalments :
               /\ KeptInstalments[n] \in Instalments
               /\ PaidOnInstalment(payments, n) <= AtLeastZero(KeptInstalments[n].amountDue)
         /\ OutstandingOnSchedule \in Int
         /\ LastKept \in Nat /\ \A n \in DOMAIN KeptInstalments : n <= LastKept
<1>1. ScheduleOK /\ payments \in Seq(Rows(DOMAIN schedule, DOMAIN penalties))
  BY DEF AccountInv, Fits, IsSchedule, ScheduleOK
<1>2. DOMAIN KeptInstalments = DOMAIN schedule \ Untouched
  BY DEF KeptInstalments
<1>3. DOMAIN KeptInstalments \subseteq 1..MaxInstalmentNo /\ IsFiniteSet(DOMAIN KeptInstalments)
  BY <1>1, <1>2, OutstandingIsNat, FS_Subset DEF ScheduleOK
<1>4. ASSUME NEW n \in DOMAIN KeptInstalments
      PROVE  /\ KeptInstalments[n] \in Instalments
             /\ PaidOnInstalment(payments, n) <= AtLeastZero(KeptInstalments[n].amountDue)
  <2>1. /\ schedule[n] \in Instalments
        /\ schedule[n].amountPaid = PaidOnInstalment(payments, n)
        /\ PaidOnInstalment(payments, n) \in Nat
        /\ PaidOnInstalment(payments, n) <= AtLeastZero(schedule[n].amountDue)
    BY <1>1, <1>2, PaidIsNat DEF AccountInv, Fits, IsSchedule
  <2>2. KeptInstalments[n] =
           IF n \in Unpaid
           THEN [schedule[n] EXCEPT !.amountDue = schedule[n].amountPaid, !.status = "PAID"]
           ELSE schedule[n]
    BY <1>2 DEF KeptInstalments
  <2>3. CASE n \in Unpaid
    <3>1. KeptInstalments[n] \in Instalments /\ KeptInstalments[n].amountDue = schedule[n].amountPaid
      BY <2>1, <2>2, <2>3 DEF Instalments, InstalmentStatuses
    <3>2. QED
      BY <2>1, <3>1 DEF AtLeastZero
  <2>4. CASE n \notin Unpaid
    BY <2>1, <2>2, <2>4
  <2>5. QED
    BY <2>3, <2>4
<1>5. OutstandingOnSchedule \in Int
  BY <1>1, OutstandingOnIsNat DEF OutstandingOnSchedule, Unpaid
<1>6. LastKept \in Nat /\ \A n \in DOMAIN KeptInstalments : n <= LastKept
  <2> DEFINE S == DOMAIN KeptInstalments \cup {0}
  <2>1. IsFiniteSet(S) /\ S \subseteq Nat /\ S \subseteq Int /\ S # {}
        /\ DOMAIN KeptInstalments \subseteq S
    BY <1>3, BoundsAssumption, FS_AddElement
  <2> HIDE DEF S
  <2>2. Max(S) \in S /\ \A n \in S : Max(S) >= n
    BY <2>1, MaxOfSome
  <2>3. LastKept = Max(S)
    BY DEF LastKept, S
  <2>4. QED
    BY <2>1, <2>2, <2>3
<1>7. QED
  BY <1>2, <1>3, <1>4, <1>5, <1>6

\* The plan keeps what was touched and numbers the rest after it, for the same total.
LEMMA PlanFacts ==
  ASSUME AccountInv, NEW count \in TermCounts, NEW start \in Int,
         LastKept + count <= MaxInstalmentNo
  PROVE  /\ IsSchedule(Plan(count, start))
         /\ DOMAIN KeptInstalments \subseteq DOMAIN Plan(count, start)
         /\ \A n \in DOMAIN KeptInstalments : Plan(count, start)[n] = KeptInstalments[n]
         /\ DueOn(Plan(count, start)) = DueOn(schedule)
<1> DEFINE owed == OutstandingOnSchedule
           first == LastKept + 1
           added == StraightLine(owed, count, first, start)
           K == DOMAIN KeptInstalments
           N == first..(first + count - 1)
           plan == Plan(count, start)
<1>1. /\ K \subseteq 1..MaxInstalmentNo /\ IsFiniteSet(K)
      /\ \A n \in K : KeptInstalments[n] \in Instalments
      /\ owed \in Int
      /\ LastKept \in Nat /\ \A n \in K : n <= LastKept
  BY KeptFacts
<1>2. count \in Nat \ {0} /\ first \in Nat /\ MaxInstalmentNo \in Nat
  BY <1>1, ScheduleAssumption, BoundsAssumption
<1>3. plan = [n \in K \cup DOMAIN added |-> IF n \in K THEN KeptInstalments[n] ELSE added[n]]
  BY DEF Plan
<1>4. DueOn(KeptInstalments) + owed = DueOn(schedule)
  BY KeptAndOwed
<1> HIDE DEF plan, owed
<1>5. DOMAIN added = N /\ (\A n \in N : added[n] \in Instalments) /\ DueOn(added) = owed
  <2> HIDE DEF first
  <2>1. QED
    BY <1>1, <1>2, StraightLineFacts
<1>6. N \subseteq 1..MaxInstalmentNo /\ IsFiniteSet(N) /\ K \cap N = {}
  <2>1. N \subseteq 1..MaxInstalmentNo /\ K \cap N = {}
    BY <1>1, <1>2
  <2>2. IsFiniteSet(N)
    <3> DEFINE end == first + count - 1
    <3>1. first \in Int /\ end \in Int
      BY <1>2
    <3> HIDE DEF first, end
    <3>2. IsFiniteSet(first..end)
      BY <3>1, FS_Interval
    <3>3. QED
      BY <3>2 DEF end
  <2>3. QED
    BY <2>1, <2>2
<1> HIDE DEF first, added, N, K
<1>7. /\ DOMAIN plan = K \cup N
      /\ \A n \in K : plan[n] = KeptInstalments[n]
      /\ \A n \in N : plan[n] = added[n]
  BY <1>3, <1>5, <1>6
<1>8. IsSchedule(plan)
  BY <1>1, <1>5, <1>6, <1>7 DEF IsSchedule
<1>9. DueOn(plan) = DueOn(KeptInstalments) + owed
  <2> DEFINE due == [n \in DOMAIN plan |-> plan[n].amountDue]
             kept == [n \in K |-> KeptInstalments[n].amountDue]
             more == [n \in N |-> added[n].amountDue]
  <2>1. /\ DueOn(plan) = SumFunctionOnSet(due, K \cup N)
        /\ DueOn(KeptInstalments) = SumFunctionOnSet(kept, K)
        /\ DueOn(added) = SumFunctionOnSet(more, N)
    BY <1>5, <1>7 DEF DueOn, SumFunction, K
  <2>2. /\ \A n \in K : due[n] = kept[n] /\ kept[n] \in Int
        /\ \A n \in N : due[n] = more[n] /\ more[n] \in Int
    BY <1>1, <1>5, <1>7 DEF Instalments
  <2> HIDE DEF due, kept, more
  <2>3. AllInts(due, K \cup N) /\ AllInts(kept, K) /\ AllInts(more, N)
    BY <2>2 DEF AllInts
  <2>4. SumFunctionOnSet(due, K \cup N) = SumFunctionOnSet(due, K) + SumFunctionOnSet(due, N)
    BY <1>1, <1>6, <2>3, SumUnion
  <2>5. SumFunctionOnSet(due, K) = SumFunctionOnSet(kept, K)
    BY <1>1, <2>2, <2>3, SumSame
  <2>6. SumFunctionOnSet(due, N) = SumFunctionOnSet(more, N)
    BY <1>6, <2>2, <2>3, SumSame
  <2>7. QED
    BY <1>5, <2>1, <2>4, <2>5, <2>6
<1>10. QED
  BY <1>4, <1>7, <1>8, <1>9 DEF K, plan

LEMMA RescheduleContractAccounts ==
  ASSUME LedgerInv, AccountInv, NEW c \in TermCounts, NEW o \in StartOffsets,
         RescheduleContract(c, now + o)
  PROVE  AccountInv'
<1> DEFINE U == Untouched
           pays == WithoutAllocations(payments, U)
           plan == Plan(c, now + o)
           to == [k \in DOMAIN penalties |->
                     IF penalties[k].instalment \in U THEN NoInstalment ELSE penalties[k].instalment]
           pens == [k \in DOMAIN penalties |->
                       [penalties[k] EXCEPT !.instalment = IF @ \in U THEN NoInstalment ELSE @]]
           I == DOMAIN schedule
           K == DOMAIN penalties
<1>1. /\ RecomputeContract(pays, plan, pens)
      /\ LastKept + c <= MaxInstalmentNo
      /\ status' = AdvancedStatus(totalPaid', balance', schedule', penalties')
      /\ UNCHANGED <<now, deal, refundDue, refunded>>
  BY DEF RescheduleContract, AdvanceContractStatus, WithoutAllocations, Plan, LastKept
<1>2. Moved(pens, penalties, to)
  BY DEF Moved
<1> HIDE DEF pens, plan
<1>3. /\ payments \in Seq(Rows(I, K)) /\ Len(payments) <= MaxPayments
      /\ penalties \in Seq(Charges)
      /\ now \in Int
  BY BoundsAssumption DEF AccountInv, Fits
<1>4. now + o \in Int
  BY <1>3, ScheduleAssumption
<1>5. /\ IsSchedule(plan)
      /\ DOMAIN KeptInstalments \subseteq DOMAIN plan
      /\ \A n \in DOMAIN KeptInstalments : plan[n] = KeptInstalments[n]
      /\ DueOn(plan) = DueOn(schedule)
  BY <1>1, <1>4, PlanFacts DEF plan
<1>6. /\ DOMAIN KeptInstalments = I \ U
      /\ \A n \in DOMAIN KeptInstalments :
            PaidOnInstalment(payments, n) <= AtLeastZero(KeptInstalments[n].amountDue)
  BY KeptFacts
<1>7. /\ pens \in Seq(Charges) /\ DOMAIN pens = K
      /\ \A k \in K : pens[k].instalment = to[k]
  <2>1. \A k \in K : to[k] \in 0..MaxInstalmentNo
    <3> TAKE k \in K
    <3>1. penalties[k] \in Charges
      BY <1>3
    <3>2. QED
      BY <3>1, BoundsAssumption DEF Charges, NoInstalment
  <2> HIDE DEF to
  <2>2. QED
    BY <1>2, <1>3, <2>1, ChargesMoved
<1>8. ChargedOneInstalmentOnce(pens)
  <2>1. ChargedOneInstalmentOnce(penalties)
    BY DEF AccountInv, Fits
  <2>2. QED
    BY <1>7, <2>1 DEF ChargedOneInstalmentOnce
<1> HIDE DEF to
<1>9. pays \in Seq(Rows(I \ U, K)) /\ SameWithout(pays, payments, U)
  <2> HIDE DEF U, I, K
  <2>1. QED
    BY <1>3, RowsWithout
<1>10. pays \in Seq(Rows(DOMAIN plan, DOMAIN pens))
  <2>1. I \ U \subseteq DOMAIN plan /\ K \subseteq DOMAIN pens
    BY <1>5, <1>6, <1>7
  <2> HIDE DEF pays
  <2>2. QED
    BY <1>9, <2>1, MoreRows
<1>11. Len(pays) <= MaxPayments
  BY <1>3, <1>9, <1>10 DEF SameWithout
<1>12. ASSUME NEW n \in DOMAIN plan
       PROVE  PaidOnInstalment(pays, n) <= AtLeastZero(plan[n].amountDue)
  <2>1. CASE n \in I \ U
    <3>1. PaidOnInstalment(pays, n) = PaidOnInstalment(payments, n)
      BY <1>3, <2>1, PaidWithout
    <3>2. QED
      BY <1>5, <1>6, <2>1, <3>1
  <2>2. CASE n \notin I \ U
    <3> HIDE DEF pays
    <3>1. \A i \in DOMAIN pays : DOMAIN pays[i].toInstalments \in SUBSET (I \ U)
      BY <1>9, RowsOfSeq, RowFacts
    <3>2. PaysInstalment(pays, n) = {}
      BY <2>2, <3>1 DEF PaysInstalment, EffectivePayments
    <3>3. PaidOnInstalment(pays, n) = 0
      BY <3>2, NothingPaid
    <3>4. plan[n] \in Instalments
      BY <1>5 DEF IsSchedule
    <3>5. QED
      BY <3>3, <3>4 DEF Instalments, AtLeastZero
  <2>3. QED
    BY <2>1, <2>2
<1>13. \A k \in DOMAIN pens : \A i, j \in PaysCharge(pays, k) : i = j
  <2>1. \A k \in K : PaysCharge(pays, k) = PaysCharge(payments, k)
    BY <1>3, ChargeWithout
  <2>2. QED
    BY <1>7, <2>1 DEF AccountInv, Fits
<1>14. DueOn(plan) = deal.price - deal.deposit
  BY <1>5 DEF AccountInv, Fits
<1> HIDE DEF pays
<1>15. Fits(pays, plan, pens)
  BY <1>5, <1>7, <1>8, <1>10, <1>11, <1>12, <1>13, <1>14 DEF Fits
<1>16. deal \in Deals /\ status \in Statuses
  BY DEF LedgerInv
<1>17. /\ totalPaid' \in Int /\ balance' \in Nat
       /\ Fits(payments, schedule, penalties)'
       /\ (\A n \in DOMAIN schedule : schedule[n].amountPaid = PaidOnInstalment(payments, n))'
       /\ PaidChargesAreMarked'
       /\ StatusTells(schedule, now)'
  BY <1>1, <1>3, <1>15, <1>16, RecomputeFits
<1>18. status' = "DEFAULTED" => HasOverdue(schedule')
  BY <1>1, <1>16, DefaultedOnlyWhenOverdue
<1>19. QED
  BY <1>1, <1>17, <1>18 DEF AccountInv, HasOverdue

-----------------------------------------------------------------------------
LEMMA InitLedgerInv == Init => LedgerInv
<1> SUFFICES ASSUME Init
             PROVE  LedgerInv
  OBVIOUS
<1>1. deal.price \in Nat /\ totalPaid = 0 /\ balance = deal.price
  BY DealsAssumption DEF Init
<1>2. TotalsMatchLedger
  BY <1>1, EmptyLedger DEF Init, TotalsMatchLedger, AtLeastZero
<1>3. IsSeq(payments)
  BY DEF Init, IsSeq
<1>4. QED
  BY <1>2, <1>3 DEF Init, LedgerInv, PhoneFollowsStatus, PreApproval, Statuses

LEMMA NextLedgerInv == LedgerInv /\ [Next]_vars => LedgerInv'
  BY PostPaymentInv, PostCreditRefundInv, ReversePaymentInv, CancelContractInv,
     RescheduleContractInv, ResubmitContractInv, OtherStepsInv DEF Next

LEMMA LedgerInvHolds == Spec => []LedgerInv
  BY InitLedgerInv, NextLedgerInv, PTL DEF Spec

\* Zero drift, for a contract whose transactions do not overlap: whatever is posted, handed
\* back, reversed, cancelled or rescheduled, the stored totals are the ledger's.
THEOREM TotalsAreTheLedgers == Spec => []TotalsMatchLedger
<1>1. LedgerInv => TotalsMatchLedger
  BY DEF LedgerInv
<1>2. QED
  BY <1>1, LedgerInvHolds, PTL

\* The phone is where the contract's status says it is.
THEOREM PhoneIsWhereStatusSays == Spec => []PhoneFollowsStatus
<1>1. LedgerInv => PhoneFollowsStatus
  BY DEF LedgerInv
<1>2. QED
  BY <1>1, LedgerInvHolds, PTL

\* A contract ends once, and then takes no more money from its customer.
THEOREM EndedStaysEnded == Spec => TerminalIsFinal
<1>1. ASSUME LedgerInv, Next, status \in Terminal
      PROVE  status' = status /\ ~PostsMoney
  <2>1. CASE \E a \in Amounts : PostCreditRefund(a)
    <3>1. UNCHANGED status
      BY <2>1 DEF PostCreditRefund
    <3>2. PICK p : payments' = Append(payments, p) /\ p.entryType = "CREDIT_REFUND"
      BY <2>1 DEF PostCreditRefund, RecomputeContract
    <3>3. payments'[Len(payments')] = p
      BY <3>2, AppendIsSeq DEF LedgerInv
    <3>4. QED
      BY <3>1, <3>2, <3>3 DEF PostsMoney
  <2>2. CASE \E i \in DOMAIN payments : ReversePayment(i)
    <3>1. Len(payments') = Len(payments) /\ UNCHANGED status
      <4>1. PICK i \in DOMAIN payments :
               payments' = Reversed(payments, {i}) /\ UNCHANGED status
        BY <2>2 DEF ReversePayment, RecomputeContract
      <4>2. Len(Reversed(payments, {i})) = Len(payments)
        BY <1>1, ReversedIsSeq DEF LedgerInv
      <4>3. QED
        BY <4>1, <4>2
    <3>2. Len(payments) \in Nat
      BY DEF LedgerInv, IsSeq
    <3>3. QED
      BY <3>1, <3>2 DEF PostsMoney
  <2>3. CASE \/ RecordRefund \/ Tick \/ MarkOverdueInstalments
             \/ \E order \in SetToSeqs(Chargeable) : ApplyLatePenalties(order)
    <3>1. UNCHANGED <<status, payments>>
      BY <2>3 DEF RecordRefund, Tick, MarkOverdueInstalments, ApplyLatePenalties, contractVars
    <3>2. Len(payments) \in Nat
      BY DEF LedgerInv, IsSeq
    <3>3. QED
      BY <3>1, <3>2 DEF PostsMoney
  <2>4. QED
    BY <1>1, <2>1, <2>2, <2>3 DEF Next, Terminal, PreApproval, ApproveContract,
       RequestContractRevision, ResubmitContract, PostPayment, CancelContract,
       RescheduleContract, MarkDefaultedContracts
<1>2. QED
  BY <1>1, LedgerInvHolds, PTL DEF Spec, TerminalIsFinal

-----------------------------------------------------------------------------
LEMMA NextAccounts == LedgerInv /\ AccountInv /\ [Next]_vars => AccountInv'
  BY PostPaymentAccounts, PostCreditRefundAccounts, ReversePaymentAccounts, CancelContractAccounts,
     RescheduleContractAccounts, ResubmitContractAccounts, MarkOverdueAccounts,
     ApplyLatePenaltiesAccounts, QuietStepsAccounts DEF Next

LEMMA AccountsHold == Spec => [](LedgerInv /\ AccountInv)
<1>1. Init => LedgerInv /\ AccountInv
  BY InitLedgerInv, InitAccounts
<1>2. LedgerInv /\ AccountInv /\ [Next]_vars => LedgerInv' /\ AccountInv'
  BY NextLedgerInv, NextAccounts
<1>3. QED
  BY <1>1, <1>2, PTL DEF Spec

\* Every variable stays within its type, the schedule's numbers and the ledger's length within
\* their bounds, and every charge is for more than nothing.
THEOREM TypeCorrect == Spec => []TypeOK
<1>1. LedgerInv /\ AccountInv => TypeOK
  BY DEF LedgerInv, AccountInv, TypeOK, Fits, IsSchedule, Charges
<1>2. QED
  BY <1>1, AccountsHold, PTL

\* What is stored on an instalment is what the ledger's payments put there, and never more
\* than the instalment is for.
THEOREM InstalmentsAreTheLedgers == Spec => []InstalmentsMatchLedger
<1>1. AccountInv => InstalmentsMatchLedger
  BY DEF AccountInv, Fits, InstalmentsMatchLedger
<1>2. QED
  BY <1>1, AccountsHold, PTL

\* However often it is rescheduled, a contract's instalments add up to what was financed.
THEOREM ScheduleIsForWhatWasFinanced == Spec => []ScheduleSumsToFinance
<1>1. AccountInv => ScheduleSumsToFinance
  BY DEF AccountInv, Fits, DueOn, ScheduleSumsToFinance
<1>2. QED
  BY <1>1, AccountsHold, PTL

\* A late charge is made once for an instalment, and paid by one payment at a time.
THEOREM ChargesAreMadeAndPaidOnce == Spec => []ChargedOnce
<1>1. AccountInv => ChargedOnce
  BY DEF AccountInv, Fits, ChargedOneInstalmentOnce, ChargedOnce
<1>2. QED
  BY <1>1, AccountsHold, PTL

-----------------------------------------------------------------------------
(* Out of arrears, out of default. *)

\* Only a payment adds a row that is not a credit refund.
LEMMA MoneyIsPosted ==
  ASSUME LedgerInv, Next, PostsMoney
  PROVE  \E a \in Amounts : PostPayment(a)
<1>1. Len(payments) \in Nat /\ Len(payments') > Len(payments)
      /\ payments'[Len(payments')].entryType # "CREDIT_REFUND"
  BY DEF LedgerInv, IsSeq, PostsMoney
<1>2. ASSUME NEW a \in Amounts, PostCreditRefund(a)
      PROVE  FALSE
  <2>1. PICK p : payments' = Append(payments, p) /\ p.entryType = "CREDIT_REFUND"
    BY <1>2 DEF PostCreditRefund, RecomputeContract
  <2>2. payments'[Len(payments')] = p
    BY <2>1, AppendIsSeq DEF LedgerInv
  <2>3. QED
    BY <1>1, <2>1, <2>2
<1>3. ASSUME NEW i \in DOMAIN payments, ReversePayment(i)
      PROVE  FALSE
  <2>1. payments' = Reversed(payments, {i})
    BY <1>3 DEF ReversePayment, RecomputeContract
  <2>2. QED
    BY <1>1, <2>1, ReversedIsSeq DEF LedgerInv
<1>4. ASSUME CancelContract
      PROVE  FALSE
  <2>1. payments' = Reversed(payments, DOMAIN payments) \/ payments' = payments
    BY <1>4 DEF CancelContract, RecomputeContract
  <2>2. QED
    BY <1>1, <2>1, ReversedIsSeq DEF LedgerInv
<1>5. ASSUME NEW c, NEW start, RescheduleContract(c, start)
      PROVE  FALSE
  <2>1. payments' = WithoutAllocations(payments, Untouched)
    BY <1>5 DEF RescheduleContract, RecomputeContract, WithoutAllocations
  <2>2. Len(payments') = Len(payments)
    BY <2>1, RewrittenIsSeq DEF LedgerInv, WithoutAllocations
  <2>3. QED
    BY <1>1, <2>2
<1>6. payments' # payments
  BY <1>1
<1>7. QED
  BY <1>2, <1>3, <1>4, <1>5, <1>6 DEF Next, ApproveContract, RequestContractRevision,
     ResubmitContract, RecordRefund, Tick, MarkOverdueInstalments, MarkDefaultedContracts,
     ApplyLatePenalties

\* A payment of the arrears leaves nothing overdue: it goes to them before anything else.
LEMMA PayingTheArrears ==
  ASSUME LedgerInv, AccountInv, NEW a \in Amounts, PostPayment(a),
         status \in {"ACTIVE", "DEFAULTED"}, a >= OutstandingOn(Arrears)
  PROVE  status' \in {"ACTIVE", "COMPLETED"} /\ ~HasOverdue(schedule')
<1> DEFINE p == NewPayment(a)
           pays == Append(payments, p)
<1>1. /\ Len(payments) < MaxPayments
      /\ RecomputeContract(pays, schedule, penalties)
      /\ status' = AdvancedStatus(totalPaid', balance', schedule', penalties')
      /\ UNCHANGED <<now, deal, refundDue, refunded>>
  BY DEF PostPayment, AdvanceContractStatus
<1>2. /\ deal \in Deals /\ status \in Statuses /\ now \in Int
      /\ totalPaid \in Int /\ penalties \in Seq(Charges)
      /\ payments \in Seq(Rows(DOMAIN schedule, DOMAIN penalties))
      /\ IsSchedule(schedule) /\ ScheduleOK
  BY BoundsAssumption DEF LedgerInv, AccountInv, Fits, IsSchedule, ScheduleOK
<1>3. /\ Fits(pays, schedule, penalties)
      /\ \A n \in DOMAIN schedule :
            PaidOnInstalment(pays, n) =
               PaidOnInstalment(payments, n)
                  + IF n \in DOMAIN p.toInstalments THEN p.toInstalments[n] ELSE 0
  BY <1>1, <1>2, PaymentFits
<1>4. \A n \in Arrears : Outstanding(schedule[n]) > 0
         => n \in DOMAIN p.toInstalments /\ p.toInstalments[n] = Outstanding(schedule[n])
  BY <1>2, NewPaymentFacts
<1> HIDE DEF p, pays
<1>5. \A n \in Arrears : PaidOnInstalment(pays, n) >= schedule[n].amountDue
  <2> TAKE n \in Arrears
  <2>1. /\ n \in DOMAIN schedule
        /\ schedule[n].amountDue \in Int
        /\ PaidOnInstalment(payments, n) \in Nat
        /\ PaidOnInstalment(pays, n) \in Nat
        /\ schedule[n].amountPaid = PaidOnInstalment(payments, n)
    BY <1>2, <1>3, PaidIsNat DEF Arrears, AccountInv, Fits, IsSchedule, Instalments
  <2>2. CASE Outstanding(schedule[n]) > 0
    <3>1. PaidOnInstalment(pays, n) = PaidOnInstalment(payments, n) + Outstanding(schedule[n])
      BY <1>3, <1>4, <2>1, <2>2
    <3>2. QED
      BY <2>1, <3>1 DEF Outstanding, AtLeastZero
  <2>3. CASE ~(Outstanding(schedule[n]) > 0)
    <3>1. PaidOnInstalment(payments, n) >= schedule[n].amountDue
      BY <2>1, <2>3 DEF Outstanding, AtLeastZero
    <3>2. n \in DOMAIN p.toInstalments => p.toInstalments[n] \in Nat
      BY <1>2, NewPaymentFacts, RowFacts DEF p
    <3>3. QED
      BY <1>3, <2>1, <3>1, <3>2
  <2>4. QED
    BY <2>2, <2>3
<1>6. /\ DOMAIN schedule' = DOMAIN schedule
      /\ \A n \in DOMAIN schedule :
            schedule'[n].status = "OVERDUE"
               <=> PaidOnInstalment(pays, n) < schedule[n].amountDue /\ schedule[n].dueDate < now
  BY <1>1, <1>2, <1>3, RecomputeFits
<1>7. ~HasOverdue(schedule')
  <2> SUFFICES ASSUME NEW n \in DOMAIN schedule', schedule'[n].status = "OVERDUE"
               PROVE  FALSE
    BY DEF HasOverdue
  <2>1. /\ n \in DOMAIN schedule /\ schedule[n].dueDate < now
        /\ PaidOnInstalment(pays, n) < schedule[n].amountDue
    BY <1>6
  <2>2. schedule[n].amountDue \in Int /\ PaidOnInstalment(pays, n) \in Nat
    BY <1>2, <1>3, <2>1, PaidIsNat DEF Fits, IsSchedule, Instalments
  <2>3. n \in Arrears
    BY <2>1 DEF Arrears
  <2>4. QED
    BY <1>5, <2>1, <2>2, <2>3
<1>8. QED
  BY <1>1, <1>2, <1>7, DefaultedOnlyWhenOverdue

\* Whoever pays what is overdue is out of arrears and out of default, whatever charges they owe
\* too, and no contract is in default without arrears.
THEOREM PayingArrearsIsEnough == Spec => PayingArrearsCures
<1>1. ASSUME LedgerInv, AccountInv, Next, PostsMoney, status \in {"ACTIVE", "DEFAULTED"},
             payments'[Len(payments')].amount >= OutstandingOn(Arrears)
      PROVE  status' \in {"ACTIVE", "COMPLETED"} /\ ~HasOverdue(schedule')
  <2>1. PICK a \in Amounts : PostPayment(a)
    BY <1>1, MoneyIsPosted
  <2>2. payments' = Append(payments, NewPayment(a))
    BY <2>1 DEF PostPayment, RecomputeContract
  <2>3. payments'[Len(payments')] = NewPayment(a)
    BY <2>2, AppendIsSeq DEF LedgerInv
  <2>4. payments'[Len(payments')].amount = a
    BY <2>3 DEF NewPayment
  <2>5. QED
    BY <1>1, <2>1, <2>4, PayingTheArrears
<1>2. AccountInv' => (status' = "DEFAULTED" => HasOverdue(schedule'))
  BY DEF AccountInv, HasOverdue
<1>3. LedgerInv /\ AccountInv /\ AccountInv' /\ [Next]_vars
         => [/\ status' = "DEFAULTED" => HasOverdue(schedule')
             /\ PostsMoney /\ status \in {"ACTIVE", "DEFAULTED"}
                   /\ payments'[Len(payments')].amount >= OutstandingOn(Arrears)
                   => status' \in {"ACTIVE", "COMPLETED"} /\ ~HasOverdue(schedule')]_vars
  BY <1>1, <1>2
<1>4. QED
  BY <1>3, AccountsHold, PTL DEF Spec, PayingArrearsCures
=============================================================================

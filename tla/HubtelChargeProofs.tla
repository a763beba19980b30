------------------------- MODULE HubtelChargeProofs -------------------------
(***************************************************************************)
(* For any charges and any number of webhooks, sweeps, staff and crashes:  *)
(* the types of HubtelCharge, and that the ledger holds only what          *)
(* customers paid.  The inductive invariant adds to the rows what the      *)
(* handlers carry: between two awaits a handler acts on what it read, so   *)
(* what it read has to be something that stays true.  It does: money       *)
(* taken from a wallet is not untaken, and a ledger row is not deleted     *)
(* (NothingUndone).  WorkInv adds who is at work on a charge that was      *)
(* never shared, from which follow WorkedAloneIsSafe and that every step   *)
(* is one of Collection's or none.                                         *)
(***************************************************************************)
EXTENDS HubtelCharge, TLAPS

IInv == TypeOK /\ LedgerHoldsWhatWasPaid /\ HandlersActOnPaid

-----------------------------------------------------------------------------
(* The parts a step can disturb. *)

HandlerTypes ==
    /\ pc \in [Handlers -> PCs]
    /\ on \in [Handlers -> Charges \cup {NoCharge}]
    /\ outcome \in [Handlers -> {"PENDING", "SUCCESS", "FAILED"}]

RowTypes ==
    /\ status \in [Charges -> {"none", "PENDING", "SUCCESS", "FAILED", "NEEDS_REVIEW"}]
    /\ linked \in [Charges -> BOOLEAN]
    /\ resolved \in [Charges -> BOOLEAN]
    /\ age \in [Charges -> {"fresh", "stale", "given up", "overdue"}]
    /\ quiet \in [Charges -> BOOLEAN]

OutsideTypes ==
    /\ wallet \in [Charges -> {"none", "requesting", "prompted", "paid", "declined"}]
    /\ posted \in [Charges -> {0, 1}]
    /\ contract \in {"open", "mismatch", "closed"}
    /\ crashes \in 0..MaxCrashes
    /\ alerted \in SUBSET Charges
    /\ shared \in SUBSET Charges

AskedFirst == \A c \in Charges : status[c] = "none" => wallet[c] = "none"

NothingUndone ==
    \A c \in Charges : /\ wallet[c] = "paid" => wallet'[c] = "paid"
                       /\ posted[c] = 1 => posted'[c] = 1

LEMMA Reassemble ==
  ASSUME HandlerTypes', RowTypes', OutsideTypes', LedgerHoldsWhatWasPaid', AskedFirst',
         \A h \in Handlers : ActsOnPaid(h)'
  PROVE  IInv'
  BY DEF IInv, TypeOK, HandlerTypes, RowTypes, OutsideTypes, HandlersActOnPaid, AskedFirst

LEMMA ActingOnPaid ==
  ASSUME HandlersActOnPaid, NEW h \in Handlers
  PROVE  ActsOnPaid(h)
  BY DEF HandlersActOnPaid

-----------------------------------------------------------------------------
(* What a handler's moves and a write to the row leave in their types. *)

LEMMA GoToTypes ==
  ASSUME TypeOK, NEW h \in Handlers, NEW at \in PCs, GoTo(h, at)
  PROVE  HandlerTypes'
  BY DEF TypeOK, HandlerTypes, GoTo

LEMMA FinishTypes ==
  ASSUME TypeOK, NEW h \in Handlers, Finish(h)
  PROVE  HandlerTypes'
  BY DEF TypeOK, HandlerTypes, Finish, PCs

LEMMA TakeUpTypes ==
  ASSUME TypeOK, NEW h \in Handlers, NEW c \in Charges, NEW at \in PCs,
         NEW result \in {"PENDING", "SUCCESS", "FAILED"}, TakeUp(h, c, at, result)
  PROVE  HandlerTypes'
  BY DEF TypeOK, HandlerTypes, TakeUp

LEMMA SetStatusTypes ==
  ASSUME TypeOK, NEW c \in Charges, 
         NEW s \in {"PENDING", "SUCCESS", "FAILED", "NEEDS_REVIEW"}, SetStatus(c, s),
         UNCHANGED <<linked, resolved, age>>
  PROVE  RowTypes'
  BY DEF TypeOK, RowTypes, SetStatus

\* A status that says the money was collected is only written to a charge that was paid.
LEMMA SetStatusCollected ==
  ASSUME TypeOK, LedgerHoldsWhatWasPaid, AskedFirst,
         NEW c \in Charges, NEW s \in {"PENDING", "SUCCESS", "FAILED", "NEEDS_REVIEW"},
         SetStatus(c, s), UNCHANGED <<wallet, linked, posted>>,
         s \in {"SUCCESS", "NEEDS_REVIEW"} => wallet[c] = "paid"
  PROVE  LedgerHoldsWhatWasPaid' /\ AskedFirst'
  BY DEF TypeOK, LedgerHoldsWhatWasPaid, AskedFirst, SetStatus

LEMMA RowsUntouched ==
  ASSUME LedgerHoldsWhatWasPaid, AskedFirst, UNCHANGED <<wallet, status, linked, posted>>
  PROVE  LedgerHoldsWhatWasPaid' /\ AskedFirst'
  BY DEF LedgerHoldsWhatWasPaid, AskedFirst

-----------------------------------------------------------------------------
(* What each of a handler's moves leaves it acting on. *)

LEMMA OthersActOnPaid ==
  ASSUME HandlersActOnPaid, NothingUndone, NEW h,
         NEW k \in Handlers, k # h,
         pc'[k] = pc[k], on'[k] = on[k], outcome'[k] = outcome[k]
  PROVE  ActsOnPaid(k)'
  <1>1. ActsOnPaid(k)
    BY DEF HandlersActOnPaid
  <1>2. QED
    BY <1>1 DEF ActsOnPaid, NothingUndone, Recording

LEMMA GoToActs ==
  ASSUME TypeOK, HandlersActOnPaid, NothingUndone,
         NEW h \in Handlers, NEW at \in PCs \ {"claim"}, GoTo(h, at), on[h] \in Charges,
         at \in Recording \cup {"reapply", "resolve"} => wallet[on[h]] = "paid",
         at = "link" => posted'[on[h]] = 1
  PROVE  \A k \in Handlers : ActsOnPaid(k)'
<1> SUFFICES ASSUME NEW k \in Handlers
             PROVE  ActsOnPaid(k)'
  OBVIOUS
<1>1. CASE k = h
  BY <1>1 DEF TypeOK, HandlerTypes, GoTo, ActsOnPaid, NothingUndone, Recording
<1>2. CASE k # h
  BY <1>2, OthersActOnPaid DEF TypeOK, HandlerTypes, GoTo
<1>3. QED
  BY <1>1, <1>2

LEMMA FinishActs ==
  ASSUME TypeOK, HandlersActOnPaid, NothingUndone,
         NEW h \in Handlers, Finish(h)
  PROVE  \A k \in Handlers : ActsOnPaid(k)'
<1> SUFFICES ASSUME NEW k \in Handlers
             PROVE  ActsOnPaid(k)'
  OBVIOUS
<1>1. CASE k = h
  BY <1>1 DEF TypeOK, HandlerTypes, Finish, ActsOnPaid, Recording
<1>2. CASE k # h
  BY <1>2, OthersActOnPaid DEF TypeOK, HandlerTypes, Finish
<1>3. QED
  BY <1>1, <1>2

LEMMA TakeUpActs ==
  ASSUME TypeOK, HandlersActOnPaid, NothingUndone,
         NEW h \in Handlers, NEW c \in Charges, NEW at \in PCs \ {"link"}, 
         NEW result \in {"PENDING", "SUCCESS", "FAILED"}, TakeUp(h, c, at, result),
         (at = "claim" /\ result = "SUCCESS") \/ at \in Recording \cup {"reapply", "resolve"}
            => wallet[c] = "paid"
  PROVE  \A k \in Handlers : ActsOnPaid(k)'
<1> SUFFICES ASSUME NEW k \in Handlers
             PROVE  ActsOnPaid(k)'
  OBVIOUS
<1>1. CASE k = h
  BY <1>1 DEF TypeOK, HandlerTypes, TakeUp, ActsOnPaid, NothingUndone, Recording
<1>2. CASE k # h
  BY <1>2, OthersActOnPaid DEF TypeOK, HandlerTypes, TakeUp
<1>3. QED
  BY <1>1, <1>2
LEMMA HandlersUntouched ==
  ASSUME HandlersActOnPaid, NothingUndone, UNCHANGED handlerVars
  PROVE  \A k \in Handlers : ActsOnPaid(k)'
  BY DEF HandlersActOnPaid, NothingUndone, ActsOnPaid, handlerVars, Recording

-----------------------------------------------------------------------------
(* The steps of a handler. *)

LEMMA ClaimIInv ==
  ASSUME IInv, NEW h \in Handlers, Claim(h)
  PROVE  IInv'
<1> USE DEF IInv
<1>1. ActsOnPaid(h) /\ on[h] \in Charges /\ NothingUndone /\ AskedFirst
  BY ActingOnPaid DEF Claim, ActsOnPaid, NothingUndone, AskedFirst, HandlersActOnPaid, TypeOK
<1>2. HandlerTypes'
  BY GoToTypes, FinishTypes DEF Claim, PCs, Recording
<1>3. RowTypes' /\ OutsideTypes'
  BY <1>1, SetStatusTypes DEF Claim, TypeOK, RowTypes, OutsideTypes, rowVars, ClaimableStatuses
<1>4. LedgerHoldsWhatWasPaid' /\ AskedFirst'
  <2>1. CASE status[on[h]] \in ClaimableStatuses(outcome[h])
    <3>1. SetStatus(on[h], outcome[h]) /\ UNCHANGED <<wallet, linked, posted>>
      BY <2>1 DEF Claim
    <3>2. outcome[h] = "SUCCESS" => wallet[on[h]] = "paid"
      BY <1>1 DEF ActsOnPaid, Claim
    <3>3. outcome[h] \in {"PENDING", "SUCCESS", "FAILED"}
      BY DEF TypeOK
    <3>4. QED
      BY <1>1, <3>1, <3>2, <3>3, SetStatusCollected
  <2>2. CASE status[on[h]] \notin ClaimableStatuses(outcome[h])
    BY <1>1, <2>2, RowsUntouched DEF Claim
  <2>3. QED
    BY <2>1, <2>2
<1>5. \A k \in Handlers : ActsOnPaid(k)'
  BY <1>1, GoToActs, FinishActs
     DEF Claim, PCs, Recording, TypeOK, ActsOnPaid
<1>6. QED
  BY <1>2, <1>3, <1>4, <1>5, Reassemble

LEMMA ReadChargeIInv ==
  ASSUME IInv, NEW h \in Handlers, ReadCharge(h)
  PROVE  IInv'
<1> USE DEF IInv
<1>1. ActsOnPaid(h) /\ on[h] \in Charges /\ NothingUndone /\ AskedFirst
  BY ActingOnPaid DEF ReadCharge, ActsOnPaid, NothingUndone, AskedFirst, HandlersActOnPaid, TypeOK
<1>2. HandlerTypes'
  BY GoToTypes, FinishTypes DEF ReadCharge, PCs, Recording
<1>3. RowTypes' /\ OutsideTypes'
  BY <1>1, SetStatusTypes DEF ReadCharge, TypeOK, RowTypes, OutsideTypes, rowVars
<1>4. LedgerHoldsWhatWasPaid' /\ AskedFirst'
  BY <1>1, RowsUntouched DEF ReadCharge, rowVars
<1>5. \A k \in Handlers : ActsOnPaid(k)'
  BY <1>1, GoToActs, FinishActs
     DEF ReadCharge, PCs, Recording, TypeOK, ActsOnPaid
<1>6. QED
  BY <1>2, <1>3, <1>4, <1>5, Reassemble

LEMMA LookupPaymentIInv ==
  ASSUME IInv, NEW h \in Handlers, LookupPayment(h)
  PROVE  IInv'
<1> USE DEF IInv
<1>1. ActsOnPaid(h) /\ on[h] \in Charges /\ NothingUndone /\ AskedFirst
  BY ActingOnPaid DEF LookupPayment, ActsOnPaid, NothingUndone, AskedFirst, HandlersActOnPaid, TypeOK
<1>2. HandlerTypes'
  BY GoToTypes, FinishTypes DEF LookupPayment, PCs, Recording
<1>3. RowTypes' /\ OutsideTypes'
  BY <1>1, SetStatusTypes DEF LookupPayment, TypeOK, RowTypes, OutsideTypes, rowVars
<1>4. LedgerHoldsWhatWasPaid' /\ AskedFirst'
  BY <1>1, RowsUntouched DEF LookupPayment, rowVars
<1>5. \A k \in Handlers : ActsOnPaid(k)'
  <2>1. posted[on[h]] \in {0, 1} /\ UNCHANGED posted
    BY <1>1 DEF LookupPayment, TypeOK
  <2>2. wallet[on[h]] = "paid"
    BY <1>1 DEF ActsOnPaid, Recording, LookupPayment
  <2>3. QED
    BY <1>1, <2>1, <2>2, GoToActs DEF LookupPayment, PCs, Recording
<1>6. QED
  BY <1>2, <1>3, <1>4, <1>5, Reassemble

LEMMA BeginPostingIInv ==
  ASSUME IInv, NEW h \in Handlers, BeginPosting(h)
  PROVE  IInv'
<1> USE DEF IInv
<1>1. ActsOnPaid(h) /\ on[h] \in Charges /\ NothingUndone /\ AskedFirst
  BY ActingOnPaid DEF BeginPosting, ActsOnPaid, NothingUndone, AskedFirst, HandlersActOnPaid, TypeOK
<1>2. HandlerTypes'
  BY GoToTypes, FinishTypes DEF BeginPosting, PCs, Recording
<1>3. RowTypes' /\ OutsideTypes'
  BY <1>1, SetStatusTypes DEF BeginPosting, TypeOK, RowTypes, OutsideTypes, rowVars
<1>4. LedgerHoldsWhatWasPaid' /\ AskedFirst'
  BY <1>1, RowsUntouched DEF BeginPosting, rowVars
<1>5. \A k \in Handlers : ActsOnPaid(k)'
  BY <1>1, GoToActs, FinishActs
     DEF BeginPosting, PCs, Recording, TypeOK, ActsOnPaid
<1>6. QED
  BY <1>2, <1>3, <1>4, <1>5, Reassemble

LEMMA InsertPaymentIInv ==
  ASSUME IInv, NEW h \in Handlers, InsertPayment(h)
  PROVE  IInv'
<1> USE DEF IInv
<1>1. ActsOnPaid(h) /\ on[h] \in Charges /\ NothingUndone /\ AskedFirst
  BY ActingOnPaid DEF InsertPayment, ActsOnPaid, NothingUndone, AskedFirst, HandlersActOnPaid, TypeOK
<1>2. HandlerTypes'
  BY GoToTypes, FinishTypes DEF InsertPayment, PCs, Recording
<1>3. RowTypes' /\ OutsideTypes'
  BY <1>1, SetStatusTypes DEF InsertPayment, TypeOK, RowTypes, OutsideTypes, rowVars
<1>4. LedgerHoldsWhatWasPaid' /\ AskedFirst'
  <2>1. wallet[on[h]] = "paid"
    BY <1>1 DEF ActsOnPaid, Recording, InsertPayment
  <2>2. ASSUME NEW c \in Charges
        PROVE  /\ posted'[c] = posted[c] \/ (c = on[h] /\ posted'[c] = 1)
               /\ posted[c] = 1 => posted'[c] = 1
    <3>1. posted \in [Charges -> {0, 1}]
      BY DEF TypeOK
    <3>2. posted' = posted \/ posted' = [posted EXCEPT ![on[h]] = 1]
      BY DEF InsertPayment
    <3>3. QED
      BY <3>1, <3>2
  <2>3. UNCHANGED <<wallet, status, linked>>
    BY DEF InsertPayment, rowVars
  <2>4. QED
    BY <1>1, <2>1, <2>2, <2>3 DEF LedgerHoldsWhatWasPaid, AskedFirst
<1>5. \A k \in Handlers : ActsOnPaid(k)'
  BY <1>1, GoToActs, FinishActs
     DEF InsertPayment, PCs, Recording, TypeOK, ActsOnPaid
<1>6. QED
  BY <1>2, <1>3, <1>4, <1>5, Reassemble

LEMMA LinkPaymentIInv ==
  ASSUME IInv, NEW h \in Handlers, LinkPayment(h)
  PROVE  IInv'
<1> USE DEF IInv
<1>1. ActsOnPaid(h) /\ on[h] \in Charges /\ NothingUndone /\ AskedFirst
  BY ActingOnPaid DEF LinkPayment, ActsOnPaid, NothingUndone, AskedFirst, HandlersActOnPaid, TypeOK
<1>2. HandlerTypes'
  BY GoToTypes, FinishTypes DEF LinkPayment, PCs, Recording
<1>3. RowTypes' /\ OutsideTypes'
  BY <1>1, SetStatusTypes DEF LinkPayment, TypeOK, RowTypes, OutsideTypes, rowVars
<1>4. LedgerHoldsWhatWasPaid' /\ AskedFirst'
  BY <1>1 DEF LinkPayment, TypeOK, LedgerHoldsWhatWasPaid, AskedFirst, ActsOnPaid, Recording
<1>5. \A k \in Handlers : ActsOnPaid(k)'
  BY <1>1, GoToActs, FinishActs
     DEF LinkPayment, PCs, Recording, TypeOK, ActsOnPaid
<1>6. QED
  BY <1>2, <1>3, <1>4, <1>5, Reassemble

LEMMA SendToReviewIInv ==
  ASSUME IInv, NEW h \in Handlers, SendToReview(h)
  PROVE  IInv'
<1> USE DEF IInv
<1>1. ActsOnPaid(h) /\ on[h] \in Charges /\ NothingUndone /\ AskedFirst
  BY ActingOnPaid DEF SendToReview, ActsOnPaid, NothingUndone, AskedFirst, HandlersActOnPaid, TypeOK
<1>2. HandlerTypes'
  BY GoToTypes, FinishTypes DEF SendToReview, PCs, Recording
<1>3. RowTypes' /\ OutsideTypes'
  BY <1>1, SetStatusTypes DEF SendToReview, TypeOK, RowTypes, OutsideTypes, rowVars
<1>4. LedgerHoldsWhatWasPaid' /\ AskedFirst'
  BY <1>1, SetStatusCollected DEF SendToReview, ActsOnPaid, Recording
<1>5. \A k \in Handlers : ActsOnPaid(k)'
  BY <1>1, GoToActs, FinishActs
     DEF SendToReview, PCs, Recording, TypeOK, ActsOnPaid
<1>6. QED
  BY <1>2, <1>3, <1>4, <1>5, Reassemble

LEMMA CheckStatusIInv ==
  ASSUME IInv, NEW h \in Handlers, CheckStatus(h)
  PROVE  IInv'
<1> USE DEF IInv
<1>1. ActsOnPaid(h) /\ on[h] \in Charges /\ NothingUndone /\ AskedFirst
  BY ActingOnPaid DEF CheckStatus, ActsOnPaid, NothingUndone, AskedFirst, HandlersActOnPaid, TypeOK
<1>2. HandlerTypes'
  BY FinishTypes DEF CheckStatus, PCs, Reported, TypeOK, HandlerTypes
<1>3. RowTypes' /\ OutsideTypes'
  BY <1>1, SetStatusTypes DEF CheckStatus, TypeOK, RowTypes, OutsideTypes, rowVars
<1>4. LedgerHoldsWhatWasPaid' /\ AskedFirst'
  BY <1>1, RowsUntouched DEF CheckStatus, rowVars
<1>5. \A k \in Handlers : ActsOnPaid(k)'
  <2>1. CASE Finish(h)
    BY <1>1, <2>1, FinishActs
  <2>2. CASE /\ pc' = [pc EXCEPT ![h] = "claim"]
             /\ outcome' = [outcome EXCEPT ![h] = Reported(on[h])]
             /\ UNCHANGED on
    <3> SUFFICES ASSUME NEW k \in Handlers
                 PROVE  ActsOnPaid(k)'
      OBVIOUS
    <3>1. CASE k = h
      BY <1>1, <2>2, <3>1 DEF CheckStatus, TypeOK, ActsOnPaid, Reported, Recording
    <3>2. CASE k # h
      BY <1>1, <2>2, <3>2, OthersActOnPaid DEF TypeOK
    <3>3. QED
      BY <3>1, <3>2
  <2>3. QED
    BY <2>1, <2>2 DEF CheckStatus
<1>6. QED
  BY <1>2, <1>3, <1>4, <1>5, Reassemble

LEMMA CheckFailsIInv ==
  ASSUME IInv, NEW h \in Handlers, CheckFails(h) \/ RaiseAlert(h)
  PROVE  IInv'
<1> USE DEF IInv
<1>1. ActsOnPaid(h) /\ on[h] \in Charges /\ NothingUndone /\ AskedFirst
  BY ActingOnPaid DEF CheckFails, RaiseAlert, ActsOnPaid, NothingUndone, AskedFirst, HandlersActOnPaid, TypeOK
<1>2. HandlerTypes'
  BY GoToTypes, FinishTypes DEF CheckFails, RaiseAlert, PCs, Recording
<1>3. RowTypes' /\ OutsideTypes'
  BY <1>1 DEF CheckFails, RaiseAlert, TypeOK, RowTypes, OutsideTypes, rowVars
<1>4. LedgerHoldsWhatWasPaid' /\ AskedFirst'
  BY <1>1, RowsUntouched DEF CheckFails, RaiseAlert, rowVars
<1>5. \A k \in Handlers : ActsOnPaid(k)'
  BY <1>1, GoToActs, FinishActs DEF CheckFails, RaiseAlert, PCs, Recording
<1>6. QED
  BY <1>2, <1>3, <1>4, <1>5, Reassemble

LEMMA ReapplyCollectedChargeIInv ==
  ASSUME IInv, NEW h \in Handlers, ReapplyCollectedCharge(h)
  PROVE  IInv'
<1> USE DEF IInv
<1>1. ActsOnPaid(h) /\ on[h] \in Charges /\ NothingUndone /\ AskedFirst
  BY ActingOnPaid DEF ReapplyCollectedCharge, ActsOnPaid, NothingUndone, AskedFirst, HandlersActOnPaid, TypeOK
<1>2. HandlerTypes'
  BY GoToTypes, FinishTypes DEF ReapplyCollectedCharge, PCs, Recording
<1>3. RowTypes' /\ OutsideTypes'
  BY <1>1, SetStatusTypes DEF ReapplyCollectedCharge, TypeOK, RowTypes, OutsideTypes, rowVars
<1>4. LedgerHoldsWhatWasPaid' /\ AskedFirst'
  BY <1>1, SetStatusCollected DEF ReapplyCollectedCharge, ActsOnPaid, Recording
<1>5. \A k \in Handlers : ActsOnPaid(k)'
  BY <1>1, GoToActs, FinishActs
     DEF ReapplyCollectedCharge, PCs, Recording, TypeOK, ActsOnPaid
<1>6. QED
  BY <1>2, <1>3, <1>4, <1>5, Reassemble

LEMMA ResolveCollectedChargeIInv ==
  ASSUME IInv, NEW h \in Handlers, ResolveCollectedCharge(h)
  PROVE  IInv'
<1> USE DEF IInv
<1>1. ActsOnPaid(h) /\ on[h] \in Charges /\ NothingUndone /\ AskedFirst
  BY ActingOnPaid DEF ResolveCollectedCharge, ActsOnPaid, NothingUndone, AskedFirst, HandlersActOnPaid, TypeOK
<1>2. HandlerTypes'
  BY GoToTypes, FinishTypes DEF ResolveCollectedCharge, PCs, Recording
<1>3. RowTypes' /\ OutsideTypes'
  BY <1>1, SetStatusTypes DEF ResolveCollectedCharge, TypeOK, RowTypes, OutsideTypes, rowVars
<1>4. LedgerHoldsWhatWasPaid' /\ AskedFirst'
  BY <1>1, RowsUntouched DEF ResolveCollectedCharge, rowVars
<1>5. \A k \in Handlers : ActsOnPaid(k)'
  BY <1>1, GoToActs, FinishActs
     DEF ResolveCollectedCharge, PCs, Recording, TypeOK, ActsOnPaid
<1>6. QED
  BY <1>2, <1>3, <1>4, <1>5, Reassemble

LEMMA CrashIInv ==
  ASSUME IInv, NEW h \in Handlers, Crash(h)
  PROVE  IInv'
<1> USE DEF IInv
<1>1. ActsOnPaid(h) /\ on[h] \in Charges /\ NothingUndone /\ AskedFirst
  BY ActingOnPaid DEF Crash, ActsOnPaid, NothingUndone, AskedFirst, HandlersActOnPaid, TypeOK
<1>2. HandlerTypes'
  BY GoToTypes, FinishTypes DEF Crash, PCs, Recording
<1>3. RowTypes' /\ OutsideTypes'
  <2>1. crashes' \in 0..MaxCrashes
    <3>1. crashes \in 0..MaxCrashes /\ crashes < MaxCrashes /\ crashes' = crashes + 1
      BY DEF Crash, TypeOK
    <3>2. QED
      BY <3>1, MaxCrashesAssumption
  <2>2. QED
    BY <2>1 DEF Crash, TypeOK, RowTypes, OutsideTypes, rowVars
<1>4. LedgerHoldsWhatWasPaid' /\ AskedFirst'
  BY <1>1, RowsUntouched DEF Crash, rowVars
<1>5. \A k \in Handlers : ActsOnPaid(k)'
  BY <1>1, GoToActs, FinishActs
     DEF Crash, PCs, Recording, TypeOK, ActsOnPaid
<1>6. QED
  BY <1>2, <1>3, <1>4, <1>5, Reassemble

-----------------------------------------------------------------------------
(* A handler that takes a charge up has just read that it was paid, or claims nothing. *)

LEMMA TakeUpIInv ==
  ASSUME IInv, NEW h \in Handlers, NEW c \in Charges,
         NEW at \in {"check", "claim", "read", "reapply", "resolve"},
         NEW result \in {"PENDING", "SUCCESS", "FAILED"}, TakeUp(h, c, at, result),
         at = "check" \/ (at = "claim" /\ result # "SUCCESS") \/ wallet[c] = "paid",
         UNCHANGED wallet \/ (wallet[c] = "requesting" /\ wallet' = [wallet EXCEPT ![c] = "declined"]),
         UNCHANGED <<rowVars, posted, contract, crashes, alerted>>,
         UNCHANGED shared \/ NoteShared(c)
  PROVE  IInv'
<1> USE DEF IInv
<1>1. NothingUndone
  BY DEF NothingUndone, TypeOK
<1>2. HandlerTypes'
  BY TakeUpTypes DEF PCs, Recording
<1>3. RowTypes' /\ OutsideTypes'
  BY DEF TypeOK, RowTypes, OutsideTypes, rowVars, NoteShared
<1>4. LedgerHoldsWhatWasPaid' /\ AskedFirst'
  BY DEF rowVars, TypeOK, LedgerHoldsWhatWasPaid, AskedFirst, HandlersActOnPaid
<1>5. \A k \in Handlers : ActsOnPaid(k)'
  BY <1>1, TakeUpActs DEF PCs, Recording
<1>6. QED
  BY <1>2, <1>3, <1>4, <1>5, Reassemble

LEMMA TakingUpIInv ==
  ASSUME IInv, NEW h \in Handlers, NEW c \in Charges,
         \/ RefuseHubtelPayment(h, c)
         \/ ReceiveCallback(h, c)
         \/ ListStale(h, c)
         \/ RetryUnrecorded(h, c)
         \/ \E intent \in {"reapply", "resolve"} : OpenForReview(h, c, intent)
  PROVE  IInv'
<1> USE TakeUpIInv
<1>1. CASE RefuseHubtelPayment(h, c)
  BY <1>1 DEF RefuseHubtelPayment
<1>2. CASE ReceiveCallback(h, c)
  BY <1>2 DEF ReceiveCallback, Reported
<1>3. CASE ListStale(h, c)
  <2>1. PICK result \in {"PENDING", "FAILED"} : TakeUp(h, c, "check", result)
    BY <1>3 DEF ListStale
  <2>2. UNCHANGED wallet
    BY <1>3 DEF ListStale
  <2>3. UNCHANGED <<rowVars, posted, contract, crashes, alerted, shared>>
    BY <1>3 DEF ListStale
  <2>4. QED
    BY <2>1, <2>2, <2>3
<1>4. CASE RetryUnrecorded(h, c)
  BY <1>4 DEF RetryUnrecorded, IInv, LedgerHoldsWhatWasPaid
<1>5. CASE \E intent \in {"reapply", "resolve"} : OpenForReview(h, c, intent)
  BY <1>5 DEF OpenForReview, IInv, LedgerHoldsWhatWasPaid
<1>6. QED
  BY <1>1, <1>2, <1>3, <1>4, <1>5

-----------------------------------------------------------------------------
(* Gateway, customer, time and contract. *)

LEMMA OutsideIInv ==
  ASSUME IInv, NEW c \in Charges, NEW from, NEW to, Outside(c, from, to),
         \/ from = "requesting" /\ to \in {"prompted", "declined"}
         \/ from = "prompted" /\ to \in {"paid", "declined"}
  PROVE  IInv'
<1> USE DEF IInv, Outside
<1>1. NothingUndone
  BY DEF NothingUndone, TypeOK
<1>2. HandlerTypes' /\ RowTypes' /\ OutsideTypes'
  BY DEF TypeOK, HandlerTypes, RowTypes, OutsideTypes, rowVars, handlerVars
<1>3. LedgerHoldsWhatWasPaid' /\ AskedFirst'
  BY DEF rowVars, TypeOK, LedgerHoldsWhatWasPaid, AskedFirst, HandlersActOnPaid
<1>4. QED
  BY <1>1, <1>2, <1>3, HandlersUntouched, Reassemble

LEMMA InitiateIInv ==
  ASSUME IInv, NEW c \in Charges, InitiateHubtelPayment(c)
  PROVE  IInv'
<1> USE DEF IInv, InitiateHubtelPayment
<1>1. wallet[c] = "none" /\ NothingUndone
  BY DEF NothingUndone, TypeOK, HandlersActOnPaid
<1>2. HandlerTypes' /\ RowTypes' /\ OutsideTypes'
  BY DEF TypeOK, HandlerTypes, RowTypes, OutsideTypes, SetStatus, handlerVars
<1>3. LedgerHoldsWhatWasPaid' /\ AskedFirst'
  BY <1>1 DEF SetStatus, TypeOK, LedgerHoldsWhatWasPaid, AskedFirst, HandlersActOnPaid
<1>4. QED
  BY <1>1, <1>2, <1>3, HandlersUntouched, Reassemble

LEMMA TimeIInv ==
  ASSUME IInv, ContractChanges \/ \E c \in Charges : GrowOld(c) \/ GrowQuiet(c)
  PROVE  IInv'
<1> USE DEF IInv, GrowOld, GrowQuiet, ContractChanges
<1>1. NothingUndone /\ UNCHANGED <<wallet, status, linked, posted>> /\ AskedFirst
  BY DEF NothingUndone, rowVars, AskedFirst, HandlersActOnPaid
<1>2. HandlerTypes' /\ RowTypes' /\ OutsideTypes'
  BY DEF TypeOK, HandlerTypes, RowTypes, OutsideTypes, rowVars, handlerVars
<1>3. QED
  BY <1>1, <1>2, RowsUntouched, HandlersUntouched, Reassemble

-----------------------------------------------------------------------------
(* The invariant is inductive. *)

LEMMA InitIInv == Init => IInv
  BY NoChargeAssumption, MaxCrashesAssumption
     DEF Init, IInv, TypeOK, LedgerHoldsWhatWasPaid, HandlersActOnPaid, ActsOnPaid, PCs, Recording

LEMMA NextIInv == IInv /\ [Next]_vars => IInv'
<1> SUFFICES ASSUME IInv, [Next]_vars
             PROVE  IInv'
  OBVIOUS
<1>1. CASE UNCHANGED vars
  BY <1>1 DEF IInv, TypeOK, LedgerHoldsWhatWasPaid, HandlersActOnPaid, ActsOnPaid, vars,
              rowVars, handlerVars
<1>2. CASE ContractChanges
  BY <1>2, TimeIInv
<1>3. ASSUME NEW c \in Charges,
             \/ InitiateHubtelPayment(c)
             \/ RequestTaken(c)
             \/ RequestLost(c)
             \/ CustomerApproves(c)
             \/ CustomerDeclines(c)
             \/ GrowOld(c)
             \/ GrowQuiet(c)
      PROVE  IInv'
  BY <1>3, InitiateIInv, OutsideIInv, TimeIInv
     DEF RequestTaken, RequestLost, CustomerApproves, CustomerDeclines
<1>4. ASSUME NEW h \in Handlers, Step(h) \/ Crash(h)
      PROVE  IInv'
  BY <1>4, ClaimIInv, ReadChargeIInv, LookupPaymentIInv, BeginPostingIInv, InsertPaymentIInv,
     LinkPaymentIInv, SendToReviewIInv, CheckStatusIInv, CheckFailsIInv, ReapplyCollectedChargeIInv,
     ResolveCollectedChargeIInv, CrashIInv DEF Step
<1>5. QED
  BY <1>1, <1>2, <1>3, <1>4, TakingUpIInv DEF Next

\* The state has the types it was given, whatever overlaps and dies; among them, that the
\* ledger never holds two rows of one charge.
THEOREM TypeCorrect == Spec => []TypeOK
<1>1. IInv => TypeOK
  BY DEF IInv
<1>2. QED
  BY <1>1, InitIInv, NextIInv, PTL DEF Spec

\* However callbacks, sweeps, staff and crashes interleave, only money taken from a wallet
\* is in the ledger or reads as collected.
THEOREM LedgerHoldsOnlyWhatWasPaid == Spec => []LedgerHoldsWhatWasPaid
<1>1. IInv => LedgerHoldsWhatWasPaid
  BY DEF IInv
<1>2. QED
  BY <1>1, InitIInv, NextIInv, PTL DEF Spec

\* No handler ever acts on a charge as if it were paid when it was not.
THEOREM NoHandlerActsOnUnpaid == Spec => []HandlersActOnPaid
<1>1. IInv => HandlersActOnPaid
  BY DEF IInv
<1>2. QED
  BY <1>1, InitIInv, NextIInv, PTL DEF Spec

-----------------------------------------------------------------------------
(* A charge that was never shared is worked by one handler at a time: a claim is won once,   *)
(* and a sweep or a person that finds another at work marks it shared.  So its worker finds  *)
(* the row as it left it, and sends nothing to the queue once it is in the ledger.           *)

OneWorker ==
    \A h, k \in Handlers : Works(h) /\ Works(k) /\ on[h] = on[k] /\ on[h] \notin shared => h = k

\* The row is as its worker found it.
WorksAlone(h) ==
    on[h] \notin shared =>
        /\ pc[h] \in Recording => status[on[h]] = "SUCCESS"
        /\ pc[h] \in {"reapply", "resolve"} =>
              status[on[h]] = "NEEDS_REVIEW" /\ ~resolved[on[h]]
        /\ pc[h] \in {"begin", "insert", "review"} => posted[on[h]] = 0

RowIsRight(c) ==
    c \notin shared =>
        /\ resolved[c] => status[c] = "NEEDS_REVIEW"
        /\ status[c] = "NEEDS_REVIEW" => posted[c] = 0

WorkInv ==
    /\ IInv
    /\ OneWorker
    /\ \A h \in Handlers : WorksAlone(h)
    /\ \A c \in Charges : RowIsRight(c)

LEMMA InitWorkInv == Init => WorkInv
  BY InitIInv DEF Init, WorkInv, OneWorker, Works, WorksAlone, RowIsRight, Recording

\* Nobody else works the charge of a worker, unless it is shared; one that is pending or
\* failed has no worker.
LEMMA NobodyElse ==
  ASSUME WorkInv, NEW h \in Handlers, Works(h), on[h] \notin shared,
         NEW k \in Handlers \ {h}, Works(k)
  PROVE  on[k] # on[h]
  BY DEF WorkInv, OneWorker

LEMMA NobodyOn ==
  ASSUME WorkInv, NEW c \in Charges \ shared, status[c] \notin {"SUCCESS", "NEEDS_REVIEW"},
         NEW k \in Handlers, Works(k)
  PROVE  on[k] # c
  BY DEF WorkInv, WorksAlone, Works

LEMMA WorkerIsOnACharge ==
  ASSUME WorkInv, NEW h \in Handlers, pc[h] # "idle"
  PROVE  on[h] \in Charges
  BY DEF WorkInv, IInv, HandlersActOnPaid, ActsOnPaid

\* A handler goes on with the charge it works, or works none, and writes no row.
LEMMA GoesOn ==
  ASSUME WorkInv, IInv', NEW h \in Handlers,
         \A k \in Handlers \ {h} : pc'[k] = pc[k] /\ on'[k] = on[k],
         Works(h)' => Works(h) /\ on'[h] = on[h],
         WorksAlone(h)',
         UNCHANGED <<status, resolved, posted, shared>>
  PROVE  WorkInv'
<1>1. OneWorker'
  <2>1. ASSUME NEW a \in Handlers, NEW b \in Handlers, Works(a)', Works(b)', on'[a] = on'[b],
               on'[a] \notin shared'
        PROVE  a = b
    <3>1. Works(a) /\ on'[a] = on[a]
      BY <2>1 DEF Works
    <3>2. Works(b) /\ on'[b] = on[b]
      BY <2>1 DEF Works
    <3>3. QED
      BY <2>1, <3>1, <3>2 DEF WorkInv, OneWorker
  <2>2. QED
    BY <2>1 DEF OneWorker
<1>2. ASSUME NEW k \in Handlers \ {h}
      PROVE  WorksAlone(k)'
  BY DEF WorkInv, WorksAlone, Works
<1>3. QED
  BY <1>1, <1>2 DEF WorkInv, RowIsRight

\* A handler writes the row of a charge that nobody else works, or takes such a charge up;
\* or the charge is shared, and nothing is said of it.
LEMMA WritesAlone ==
  ASSUME WorkInv, IInv', NEW h \in Handlers, NEW c \in Charges,
         \A k \in Handlers \ {h} : pc'[k] = pc[k] /\ on'[k] = on[k],
         \A d \in Charges \ {c} :
             /\ status'[d] = status[d] /\ resolved'[d] = resolved[d] /\ posted'[d] = posted[d]
             /\ d \in shared' <=> d \in shared,
         c \in shared => c \in shared',
         c \notin shared' => \A k \in Handlers \ {h} : Works(k) => on[k] # c,
         Works(h)' => on'[h] = c,
         WorksAlone(h)', RowIsRight(c)'
  PROVE  WorkInv'
<1>1. ASSUME NEW k \in Handlers \ {h}
      PROVE  /\ Works(k)' = Works(k) /\ pc'[k] = pc[k] /\ on'[k] = on[k]
             /\ Works(k) => on[k] \in Charges
             /\ Works(k) /\ on[k] \notin shared' => on[k] # c /\ on[k] \notin shared
  <2>1. Works(k) => pc[k] # "idle"
    BY DEF Works, Recording
  <2>2. QED
    BY <2>1, WorkerIsOnACharge DEF Works
<1>2. OneWorker'
  <2>1. ASSUME NEW a \in Handlers, NEW b \in Handlers, Works(a)', Works(b)', on'[a] = on'[b],
               on'[a] \notin shared'
        PROVE  a = b
    <3>1. CASE a = h \/ b = h
      BY <1>1, <2>1, <3>1
    <3>2. CASE a # h /\ b # h
      BY <1>1, <2>1, <3>2 DEF WorkInv, OneWorker
    <3>3. QED
      BY <3>1, <3>2
  <2>2. QED
    BY <2>1 DEF OneWorker
<1>3. ASSUME NEW k \in Handlers \ {h}
      PROVE  WorksAlone(k)'
  <2>1. WorksAlone(k)
    BY DEF WorkInv
  <2>2. CASE Works(k)
    BY <1>1, <2>1, <2>2 DEF WorksAlone
  <2>3. CASE ~ Works(k)
    BY <1>1, <2>3 DEF WorksAlone, Works, Recording
  <2>4. QED
    BY <2>2, <2>3
<1>4. ASSUME NEW d \in Charges \ {c}
      PROVE  RowIsRight(d)'
  BY DEF WorkInv, RowIsRight
<1>5. QED
  BY <1>2, <1>3, <1>4 DEF WorkInv

LEMMA GoToMoves ==
  ASSUME TypeOK, NEW h \in Handlers, NEW at, GoTo(h, at)
  PROVE  /\ pc'[h] = at /\ on'[h] = on[h]
         /\ \A k \in Handlers \ {h} : pc'[k] = pc[k] /\ on'[k] = on[k]
  BY DEF GoTo, TypeOK

LEMMA FinishMoves ==
  ASSUME TypeOK, NEW h \in Handlers, Finish(h)
  PROVE  /\ pc'[h] = "idle"
         /\ \A k \in Handlers \ {h} : pc'[k] = pc[k] /\ on'[k] = on[k]
  BY DEF Finish, TypeOK

LEMMA SetStatusMoves ==
  ASSUME TypeOK, NEW c \in Charges, NEW s, SetStatus(c, s)
  PROVE  /\ status'[c] = s /\ ~ quiet'[c]
         /\ \A d \in Charges \ {c} : status'[d] = status[d] /\ quiet'[d] = quiet[d]
  BY DEF SetStatus, TypeOK

\* Whatever a handler does, the others are where they were.
LEMMA OthersStay ==
  ASSUME TypeOK, NEW h \in Handlers, Step(h) \/ Crash(h)
  PROVE  \A k \in Handlers \ {h} : pc'[k] = pc[k] /\ on'[k] = on[k]
<1>1. (\E at : GoTo(h, at)) \/ Finish(h) \/ CheckStatus(h)
  <2>1. ASSUME Claim(h) \/ ReadCharge(h) \/ InsertPayment(h)
        PROVE  (\E at : GoTo(h, at)) \/ Finish(h)
    BY <2>1, Zenon DEF Claim, ReadCharge, InsertPayment
  <2>2. ASSUME LookupPayment(h) \/ BeginPosting(h) \/ ReapplyCollectedCharge(h) \/ CheckFails(h)
        PROVE  \E at : GoTo(h, at)
    BY <2>2, Zenon DEF LookupPayment, BeginPosting, ReapplyCollectedCharge, CheckFails
  <2>3. ASSUME LinkPayment(h) \/ SendToReview(h) \/ ResolveCollectedCharge(h) \/ Crash(h)
               \/ RaiseAlert(h)
        PROVE  Finish(h)
    BY <2>3, Zenon DEF LinkPayment, SendToReview, ResolveCollectedCharge, Crash, RaiseAlert
  <2>4. QED
    BY <2>1, <2>2, <2>3 DEF Step
<1>2. CASE CheckStatus(h)
  <2>1. CASE Finish(h)
    BY <2>1, FinishMoves
  <2>2. CASE pc' = [pc EXCEPT ![h] = "claim"] /\ UNCHANGED on
    BY <2>2 DEF TypeOK
  <2>3. QED
    BY <1>2, <2>1, <2>2, Zenon DEF CheckStatus
<1>3. QED
  BY <1>1, <1>2, GoToMoves, FinishMoves

LEMMA WorkerKeeps ==
  ASSUME WorkInv, IInv', NEW h \in Handlers,
         \/ ReadCharge(h) \/ LookupPayment(h) \/ BeginPosting(h) \/ CheckStatus(h) \/ Crash(h)
         \/ CheckFails(h) \/ RaiseAlert(h)
  PROVE  WorkInv'
<1>1. UNCHANGED <<status, linked, resolved, posted, quiet, shared>>
  BY DEF ReadCharge, LookupPayment, BeginPosting, CheckStatus, Crash, CheckFails, RaiseAlert, rowVars
<1>2. \A k \in Handlers \ {h} : pc'[k] = pc[k] /\ on'[k] = on[k]
  BY OthersStay DEF Step, WorkInv, IInv
<1>3. pc[h] # "idle" /\ on[h] \in Charges
  BY WorkerIsOnACharge DEF ReadCharge, LookupPayment, BeginPosting, CheckStatus, Crash, CheckFails, RaiseAlert
<1>4. WorksAlone(h) /\ pc \in [Handlers -> PCs] /\ posted[on[h]] \in {0, 1}
  BY <1>3 DEF WorkInv, IInv, TypeOK
<1>5. CASE pc'[h] \in {"idle", "claim", "alert"}
  BY <1>1, <1>2, <1>5, GoesOn DEF Works, WorksAlone, Recording
<1>6. CASE pc'[h] \notin {"idle", "claim", "alert"}
  <2>1. CASE ReadCharge(h)
    <3>1. pc[h] = "read" /\ pc'[h] = "lookup" /\ on'[h] = on[h]
      BY <1>2, <1>4, <1>6, <2>1 DEF ReadCharge, GoTo, Finish
    <3>2. QED
      BY <1>1, <1>2, <1>4, <3>1, GoesOn DEF Works, WorksAlone, Recording
  <2>2. CASE LookupPayment(h)
    <3>1. /\ pc[h] = "lookup" /\ on'[h] = on[h]
          /\ pc'[h] = IF posted[on[h]] > 0 THEN "link" ELSE "begin"
      BY <1>4, <2>2 DEF LookupPayment, GoTo
    <3>2. CASE posted[on[h]] > 0
      BY <1>1, <1>2, <1>4, <3>1, <3>2, GoesOn DEF Works, WorksAlone, Recording
    <3>3. CASE posted[on[h]] = 0
      BY <1>1, <1>2, <1>4, <3>1, <3>3, GoesOn DEF Works, WorksAlone, Recording
    <3>4. QED
      BY <1>4, <3>2, <3>3
  <2>3. CASE BeginPosting(h)
    <3>1. pc[h] = "begin" /\ pc'[h] \in {"insert", "review"} /\ on'[h] = on[h]
      BY <1>4, <2>3 DEF BeginPosting, GoTo
    <3>2. QED
      BY <1>1, <1>2, <1>4, <3>1, GoesOn DEF Works, WorksAlone, Recording
  <2>4. CASE CheckStatus(h)
    BY <1>4, <1>6, <2>4 DEF CheckStatus, Finish
  <2>5. CASE Crash(h)
    BY <1>4, <1>6, <2>5 DEF Crash, Finish
  <2>6. CASE CheckFails(h)
    BY <1>4, <1>6, <2>6 DEF CheckFails, GoTo
  <2>7. CASE RaiseAlert(h)
    BY <1>4, <1>6, <2>7 DEF RaiseAlert, Finish
  <2>8. QED
    BY <2>1, <2>2, <2>3, <2>4, <2>5, <2>6, <2>7
<1>7. QED
  BY <1>5, <1>6

\* A success is claimed once: from then on the row neither waits nor has failed.
LEMMA ClaimKeeps ==
  ASSUME WorkInv, IInv', NEW h \in Handlers, Claim(h), NEW c, c = on[h]
  PROVE  WorkInv'
<1>1. pc[h] = "claim" /\ c \in Charges /\ UNCHANGED <<linked, resolved, posted, shared>>
  BY WorkerIsOnACharge DEF Claim
<1>0. TypeOK
  BY DEF WorkInv, IInv
<1>2. /\ \A k \in Handlers \ {h} : pc'[k] = pc[k] /\ on'[k] = on[k]
      /\ \A d \in Charges \ {c} : status'[d] = status[d] /\ quiet'[d] = quiet[d]
  <2>1. SetStatus(c, outcome[h]) \/ UNCHANGED <<status, quiet>>
    BY Zenon DEF Claim
  <2>2. QED
    BY <1>0, <1>1, <2>1, OthersStay, SetStatusMoves DEF Step
<1>3. CASE status[c] \in ClaimableStatuses(outcome[h])
  <2>1. status[c] \in {"PENDING", "FAILED"}
    BY <1>3 DEF ClaimableStatuses
  <2>2. c \notin shared => \A k \in Handlers \ {h} : Works(k) => on[k] # c
    BY <1>1, <2>1, NobodyOn
  <2>3. /\ c \notin shared => ~ resolved[c]
        /\ status'[c] = outcome[h] /\ outcome[h] # "NEEDS_REVIEW"
    <3>1. SetStatus(c, outcome[h])
      BY <1>3, Zenon DEF Claim
    <3>2. c \notin shared => ~ resolved[c]
      BY <1>1, <2>1 DEF WorkInv, RowIsRight
    <3>3. outcome[h] # "NEEDS_REVIEW"
      BY <1>0 DEF TypeOK
    <3>4. status'[c] = outcome[h]
      BY <1>0, <1>1, <3>1, SetStatusMoves
    <3>5. QED
      BY <3>2, <3>3, <3>4
  <2>4. CASE outcome[h] = "SUCCESS"
    <3>1. pc'[h] = "read" /\ on'[h] = c
      <4>1. GoTo(h, "read")
        BY <1>3, <2>4, Zenon DEF Claim
      <4>2. QED
        BY <1>0, <4>1, GoToMoves
    <3>2. WorksAlone(h)' /\ RowIsRight(c)'
      BY <1>1, <2>3, <2>4, <3>1 DEF WorksAlone, RowIsRight, Recording, Works
    <3>3. QED
      BY <1>1, <1>2, <2>2, <3>1, <3>2, WritesAlone
  <2>5. CASE outcome[h] # "SUCCESS"
    <3>1. pc'[h] = "idle"
      <4>1. Finish(h)
        BY <1>3, <2>5, Zenon DEF Claim
      <4>2. QED
        BY <1>0, <4>1, FinishMoves
    <3>2. ~ Works(h)' /\ WorksAlone(h)' /\ RowIsRight(c)'
      BY <1>1, <2>3, <2>5, <3>1 DEF WorksAlone, RowIsRight, Recording, Works
    <3>3. QED
      BY <1>1, <1>2, <2>2, <3>2, WritesAlone
  <2>6. QED
    BY <2>4, <2>5
<1>4. CASE status[c] \notin ClaimableStatuses(outcome[h])
  <2>1. pc'[h] = "idle" /\ UNCHANGED <<status, quiet>>
    <3>1. Finish(h) /\ UNCHANGED <<status, quiet>>
      BY <1>4, Zenon DEF Claim
    <3>2. QED
      BY <1>0, <3>1, FinishMoves
  <2>2. ~ Works(h)' /\ WorksAlone(h)'
    BY <2>1 DEF WorksAlone, Recording, Works
  <2>3. QED
    BY <1>1, <1>2, <2>1, <2>2, GoesOn
<1>5. QED
  BY <1>3, <1>4

\* The worker of a charge writes its row, or its ledger row.
LEMMA WorkerWrites ==
  ASSUME WorkInv, IInv', NEW h \in Handlers, NEW c, c = on[h],
         \/ InsertPayment(h) \/ LinkPayment(h) \/ SendToReview(h)
         \/ ReapplyCollectedCharge(h) \/ ResolveCollectedCharge(h)
  PROVE  WorkInv'
<1>1. Works(h) /\ c \in Charges /\ WorksAlone(h) /\ RowIsRight(c)
  <2>1. pc[h] \in {"insert", "link", "review", "reapply", "resolve"}
    BY DEF InsertPayment, LinkPayment, SendToReview, ReapplyCollectedCharge, ResolveCollectedCharge
  <2>2. QED
    BY <2>1, WorkerIsOnACharge DEF Works, Recording, WorkInv
<1>2. c \notin shared => \A k \in Handlers \ {h} : Works(k) => on[k] # c
  BY <1>1, NobodyElse
<1>0. TypeOK
  BY DEF WorkInv, IInv
<1>3. \A k \in Handlers \ {h} : pc'[k] = pc[k] /\ on'[k] = on[k]
  BY <1>0, OthersStay DEF Step
<1>4. \A d \in Charges \ {c} :
         /\ status'[d] = status[d] /\ resolved'[d] = resolved[d] /\ posted'[d] = posted[d]
  <2>1. CASE InsertPayment(h)
    BY <1>0, <2>1 DEF InsertPayment, rowVars, TypeOK
  <2>2. CASE LinkPayment(h) \/ ResolveCollectedCharge(h)
    BY <1>0, <2>2 DEF LinkPayment, ResolveCollectedCharge, TypeOK
  <2>3. CASE SendToReview(h) \/ ReapplyCollectedCharge(h)
    BY <1>0, <1>1, <2>3, SetStatusMoves DEF SendToReview, ReapplyCollectedCharge
  <2>4. QED
    BY <2>1, <2>2, <2>3
<1>5. UNCHANGED shared
  BY DEF InsertPayment, LinkPayment, SendToReview, ReapplyCollectedCharge, ResolveCollectedCharge
<1>6. Works(h)' => on'[h] = c
  <2>1. pc'[h] = "idle" \/ on'[h] = c
    BY <1>0, GoToMoves, FinishMoves, Zenon
       DEF InsertPayment, LinkPayment, SendToReview, ReapplyCollectedCharge, ResolveCollectedCharge
  <2>2. QED
    BY <2>1 DEF Works, Recording
<1>7. CASE c \in shared
  <2>1. WorksAlone(h)' /\ RowIsRight(c)'
    BY <1>5, <1>6, <1>7 DEF Works, WorksAlone, RowIsRight, Recording
  <2>2. QED
    BY <1>1, <1>2, <1>3, <1>4, <1>5, <1>6, <2>1, WritesAlone
<1>8. CASE c \notin shared
  <2>1. CASE InsertPayment(h)
    <3>1. /\ pc[h] = "insert" /\ status[c] = "SUCCESS" /\ posted[c] = 0
          /\ UNCHANGED <<status, resolved>>
      BY <1>1, <1>8, <2>1 DEF InsertPayment, WorksAlone, Recording, rowVars
    <3>2. pc'[h] = "link" /\ on'[h] = c
      BY <1>0, <2>1, <3>1 DEF InsertPayment, GoTo, TypeOK
    <3>3. WorksAlone(h)' /\ RowIsRight(c)'
      BY <1>1, <1>8, <3>1, <3>2 DEF Works, WorksAlone, RowIsRight, Recording
    <3>4. QED
      BY <1>1, <1>2, <1>3, <1>4, <1>5, <1>6, <3>3, WritesAlone
  <2>2. CASE LinkPayment(h)
    <3>1. status[c] = "SUCCESS" /\ pc'[h] = "idle" /\ UNCHANGED <<status, resolved, posted>>
      BY <1>1, <1>0, <1>8, <2>2 DEF LinkPayment, Finish, WorksAlone, Recording, TypeOK
    <3>2. WorksAlone(h)' /\ RowIsRight(c)'
      BY <1>1, <1>8, <3>1 DEF Works, WorksAlone, RowIsRight, Recording
    <3>3. QED
      BY <1>1, <1>2, <1>3, <1>4, <1>5, <1>6, <3>2, WritesAlone
  <2>3. CASE SendToReview(h)
    <3>1. posted[c] = 0 /\ pc'[h] = "idle" /\ status'[c] = "NEEDS_REVIEW"
          /\ UNCHANGED <<resolved, posted>>
      BY <1>1, <1>0, <1>8, <2>3 DEF SendToReview, SetStatus, Finish, WorksAlone, TypeOK
    <3>2. WorksAlone(h)' /\ RowIsRight(c)'
      BY <3>1 DEF Works, WorksAlone, RowIsRight, Recording
    <3>3. QED
      BY <1>1, <1>2, <1>3, <1>4, <1>5, <1>6, <3>2, WritesAlone
  <2>4. CASE ReapplyCollectedCharge(h)
    <3>1. ~ resolved[c] /\ pc'[h] = "read" /\ on'[h] = c /\ status'[c] = "SUCCESS"
          /\ UNCHANGED <<resolved, posted>>
      BY <1>1, <1>0, <1>8, <2>4 DEF ReapplyCollectedCharge, SetStatus, GoTo, WorksAlone, TypeOK
    <3>2. WorksAlone(h)' /\ RowIsRight(c)'
      BY <3>1 DEF Works, WorksAlone, RowIsRight, Recording
    <3>3. QED
      BY <1>1, <1>2, <1>3, <1>4, <1>5, <1>6, <3>2, WritesAlone
  <2>5. CASE ResolveCollectedCharge(h)
    <3>1. status[c] = "NEEDS_REVIEW" /\ pc'[h] = "idle" /\ UNCHANGED <<status, posted>>
      BY <1>1, <1>0, <1>8, <2>5 DEF ResolveCollectedCharge, Finish, WorksAlone, TypeOK
    <3>2. WorksAlone(h)' /\ RowIsRight(c)'
      BY <1>1, <1>8, <3>1 DEF Works, WorksAlone, RowIsRight, Recording
    <3>3. QED
      BY <1>1, <1>2, <1>3, <1>4, <1>5, <1>6, <3>2, WritesAlone
  <2>6. QED
    BY <2>1, <2>2, <2>3, <2>4, <2>5
<1>9. QED
  BY <1>7, <1>8

\* Who takes a charge up finds nobody working it, or it is shared from then on.
LEMMA TakingUpKeeps ==
  ASSUME WorkInv, IInv', NEW h \in Handlers, NEW c \in Charges,
         \/ RefuseHubtelPayment(h, c)
         \/ ReceiveCallback(h, c)
         \/ ListStale(h, c)
         \/ RetryUnrecorded(h, c)
         \/ \E intent \in {"reapply", "resolve"} : OpenForReview(h, c, intent)
  PROVE  WorkInv'
<1>1. TypeOK /\ WorkInv
  BY DEF WorkInv, IInv
<1>2. PICK at, result : TakeUp(h, c, at, result)
  BY Zenon DEF RefuseHubtelPayment, ReceiveCallback, ListStale, RetryUnrecorded, OpenForReview
<1>3. /\ pc[h] = "idle" /\ pc'[h] = at /\ on'[h] = c
      /\ \A k \in Handlers \ {h} : pc'[k] = pc[k] /\ on'[k] = on[k]
  BY <1>1, <1>2 DEF TakeUp, TypeOK
<1>4. UNCHANGED <<status, linked, resolved, posted>>
  BY DEF RefuseHubtelPayment, ReceiveCallback, ListStale, RetryUnrecorded, OpenForReview, rowVars
<1>5. ~ Works(h)
  BY <1>3 DEF Works, Recording
<1>6. CASE RefuseHubtelPayment(h, c) \/ ReceiveCallback(h, c) \/ ListStale(h, c)
  <2>1. pc'[h] \in {"claim", "check"}
    BY <1>1, <1>6 DEF RefuseHubtelPayment, ReceiveCallback, ListStale, TakeUp, TypeOK
  <2>2. ~ Works(h)' /\ WorksAlone(h)'
    BY <2>1 DEF Works, WorksAlone, Recording
  <2>3. UNCHANGED shared
    BY <1>6 DEF RefuseHubtelPayment, ReceiveCallback, ListStale
  <2>4. QED
    BY <1>3, <1>4, <2>2, <2>3, GoesOn
<1>7. ASSUME NoteShared(c),
             \/ /\ status[c] = "SUCCESS"
                /\ pc'[h] = "read"
             \/ /\ status[c] = "NEEDS_REVIEW" /\ ~ resolved[c]
                /\ pc'[h] \in {"reapply", "resolve"}
      PROVE  WorkInv'
  <2>1. c \notin shared' => \A k \in Handlers \ {h} : Works(k) => on[k] # c
    BY <1>7 DEF NoteShared
  <2>2. /\ c \in shared => c \in shared'
        /\ \A d \in Charges \ {c} : d \in shared' <=> d \in shared
    BY <1>7 DEF NoteShared
  <2>3. RowIsRight(c)'
    BY <1>4, <2>2 DEF WorkInv, RowIsRight
  <2>4. WorksAlone(h)'
    BY <1>3, <1>4, <1>7 DEF WorksAlone, Recording
  <2>5. QED
    BY <1>3, <1>4, <2>1, <2>2, <2>3, <2>4, WritesAlone
<1>8. CASE RetryUnrecorded(h, c)
  <2>1. NoteShared(c) /\ status[c] = "SUCCESS" /\ TakeUp(h, c, "read", "SUCCESS")
    BY <1>8 DEF RetryUnrecorded
  <2>2. pc'[h] = "read"
    BY <1>1, <2>1 DEF TakeUp, TypeOK
  <2>3. QED
    BY <1>7, <2>1, <2>2
<1>9. ASSUME NEW intent \in {"reapply", "resolve"}, OpenForReview(h, c, intent)
      PROVE  WorkInv'
  <2>1. NoteShared(c) /\ status[c] = "NEEDS_REVIEW" /\ ~ resolved[c] /\ TakeUp(h, c, intent, "SUCCESS")
    BY <1>9 DEF OpenForReview
  <2>2. pc'[h] = intent
    BY <1>1, <2>1 DEF TakeUp, TypeOK
  <2>3. QED
    BY <1>7, <2>1, <2>2
<1>10. QED
  BY <1>6, <1>8, <1>9

\* What happens outside, and time, leaves the workers and what they go by.
LEMMA OutsideKeeps ==
  ASSUME WorkInv, IInv', UNCHANGED handlerVars,
         ContractChanges \/ \E c \in Charges :
             \/ InitiateHubtelPayment(c)
             \/ RequestTaken(c)
             \/ RequestLost(c)
             \/ CustomerApproves(c)
             \/ CustomerDeclines(c)
             \/ GrowOld(c)
             \/ GrowQuiet(c)
  PROVE  WorkInv'
<1>1. TypeOK
  BY DEF WorkInv, IInv
<1>2. pc' = pc /\ on' = on
  BY DEF handlerVars
<1>0. UNCHANGED shared
  BY DEF ContractChanges, InitiateHubtelPayment, RequestTaken, RequestLost, CustomerApproves,
         CustomerDeclines, GrowOld, GrowQuiet, Outside
<1>3. OneWorker'
  BY <1>0, <1>2 DEF WorkInv, OneWorker, Works
<1>4. CASE UNCHANGED <<status, resolved, posted>>
  BY <1>0, <1>2, <1>3, <1>4 DEF WorkInv, WorksAlone, Works, RowIsRight
<1>5. ASSUME NEW c \in Charges, InitiateHubtelPayment(c)
      PROVE  WorkInv'
  <2>1. status[c] = "none" /\ SetStatus(c, "PENDING") /\ UNCHANGED <<resolved, posted>>
    BY <1>5 DEF InitiateHubtelPayment
  <2>2. status'[c] = "PENDING" /\ \A d \in Charges \ {c} : status'[d] = status[d]
    BY <1>1, <2>1, SetStatusMoves
  <2>3. ASSUME NEW k \in Handlers
        PROVE  WorksAlone(k)'
    <3>1. Works(k) /\ on[k] \notin shared => on[k] \in Charges \ {c}
      <4>1. Works(k) => pc[k] # "idle"
        BY DEF Works, Recording
      <4>2. QED
        BY <2>1, <4>1, NobodyOn, WorkerIsOnACharge
    <3>2. WorksAlone(k)
      BY DEF WorkInv
    <3>3. CASE Works(k)
      BY <1>0, <1>2, <2>1, <2>2, <3>1, <3>2, <3>3 DEF WorksAlone
    <3>4. CASE ~ Works(k)
      BY <1>2, <3>4 DEF WorksAlone, Works, Recording
    <3>5. QED
      BY <3>3, <3>4
  <2>4. ASSUME NEW d \in Charges
        PROVE  RowIsRight(d)'
    BY <1>0, <2>1, <2>2 DEF WorkInv, RowIsRight
  <2>5. QED
    BY <1>3, <2>3, <2>4 DEF WorkInv
<1>6. ASSUME \/ ContractChanges
             \/ \E c \in Charges : \/ RequestTaken(c) \/ RequestLost(c) \/ CustomerApproves(c)
                                   \/ CustomerDeclines(c) \/ GrowOld(c) \/ GrowQuiet(c)
      PROVE  UNCHANGED <<status, resolved, posted>>
  BY <1>6 DEF ContractChanges, RequestTaken, RequestLost, CustomerApproves, CustomerDeclines,
              GrowOld, GrowQuiet, Outside, rowVars
<1>7. QED
  BY <1>4, <1>5, <1>6

LEMMA NextWorkInv == WorkInv /\ [Next]_vars => WorkInv'
<1> SUFFICES ASSUME WorkInv, [Next]_vars
             PROVE  WorkInv'
  OBVIOUS
<1>1. IInv'
  BY NextIInv DEF WorkInv
<1>2. CASE UNCHANGED vars
  BY <1>1, <1>2 DEF WorkInv, OneWorker, Works, WorksAlone, RowIsRight, vars, rowVars, handlerVars
<1>3. ASSUME ContractChanges \/ \E c \in Charges :
                 \/ InitiateHubtelPayment(c)
                 \/ RequestTaken(c)
                 \/ RequestLost(c)
                 \/ CustomerApproves(c)
                 \/ CustomerDeclines(c)
                 \/ GrowOld(c)
                 \/ GrowQuiet(c)
      PROVE  WorkInv'
  <2>1. UNCHANGED handlerVars
    BY <1>3 DEF ContractChanges, InitiateHubtelPayment, RequestTaken, RequestLost, CustomerApproves,
                CustomerDeclines, GrowOld, GrowQuiet, Outside
  <2>2. QED
    BY <1>1, <1>3, <2>1, OutsideKeeps
<1>4. ASSUME NEW h \in Handlers, Step(h) \/ Crash(h)
      PROVE  WorkInv'
  <2>1. PICK c : c = on[h]
    OBVIOUS
  <2>2. QED
    BY <1>1, <1>4, <2>1, ClaimKeeps, WorkerKeeps, WorkerWrites DEF Step
<1>5. QED
  BY <1>1, <1>2, <1>3, <1>4, TakingUpKeeps DEF Next

\* Whatever overlaps, repeats or dies: a charge that is in the ledger is never sent to the
\* queue of those that are not, if one handler at a time was at work on it.
THEOREM WorkedAloneStaysSafe == Spec => []WorkedAloneIsSafe
<1>1. WorkInv => WorkedAloneIsSafe
  BY DEF WorkInv, RowIsRight, WorkedAloneIsSafe
<1>2. QED
  BY <1>1, InitWorkInv, NextWorkInv, PTL DEF Spec

-----------------------------------------------------------------------------
(* The rows implement Collection: what a step does to a charge's stage.                      *)

\* Where a charge stands, by its ledger row, who worked it, its resolution, its status and
\* the wallet.
LEMMA Account ==
  ASSUME NEW c \in Charges, posted[c] \in {0, 1}
  PROVE  /\ posted[c] = 1 => account[c] = "recorded"
         /\ posted[c] = 0 /\ c \in shared => account[c] = "contested"
         /\ posted[c] = 0 /\ c \notin shared /\ resolved[c] => account[c] = "closed"
         /\ posted[c] = 0 /\ c \notin shared /\ ~ resolved[c] /\ status[c] = "NEEDS_REVIEW" =>
               account[c] = "held"
         /\ posted[c] = 0 /\ c \notin shared /\ ~ resolved[c] /\ status[c] # "NEEDS_REVIEW" =>
               /\ wallet[c] = "paid" => account[c] = "taken"
               /\ wallet[c] = "declined" => account[c] = "abandoned"
               /\ wallet[c] \notin {"paid", "declined"} => account[c] = "asked"
<1> DEFINE stage(d) ==
      CASE posted[d] > 0 -> "recorded"
        [] posted[d] = 0 /\ d \in shared -> "contested"
        [] posted[d] = 0 /\ d \notin shared /\ resolved[d] -> "closed"
        [] posted[d] = 0 /\ d \notin shared /\ ~resolved[d] /\ status[d] = "NEEDS_REVIEW" -> "held"
        [] posted[d] = 0 /\ d \notin shared /\ ~resolved[d] /\ status[d] # "NEEDS_REVIEW"
              /\ wallet[d] = "paid" -> "taken"
        [] posted[d] = 0 /\ d \notin shared /\ ~resolved[d] /\ status[d] # "NEEDS_REVIEW"
              /\ wallet[d] = "declined" -> "abandoned"
        [] OTHER -> "asked"
<1>1. account = [d \in Charges |-> stage(d)]
  BY DEF account
<1>2. account[c] = stage(c)
  BY <1>1
<1>3. QED
  BY <1>2

\* Its stage goes with those five, of which a step changes one charge's.
LEMMA AccountMoves ==
  ASSUME TypeOK, TypeOK', NEW c \in Charges, NEW from, NEW to,
         \A d \in Charges \ {c} : /\ posted'[d] = posted[d] /\ resolved'[d] = resolved[d]
                                  /\ status'[d] = status[d] /\ wallet'[d] = wallet[d]
                                  /\ d \in shared' <=> d \in shared,
         account[c] = from, account'[c] = to
  PROVE  account' = [account EXCEPT ![c] = to]
<1>1. account = [d \in Charges |-> account[d]] /\ account' = [d \in Charges |-> account'[d]]
  BY DEF account
<1>2. ASSUME NEW d \in Charges \ {c}
      PROVE  account'[d] = account[d]
  <2>1. account[d]' = account[d]
    BY DEF account
  <2>2. QED
    BY <2>1
<1>3. QED
  BY <1>1, <1>2

LEMMA AbstractMove ==
  ASSUME NEW c \in Charges, NEW from, NEW to, account[c] = from,
         account' = [account EXCEPT ![c] = to],
         <<from, to>> \in {<<"asked", "taken">>, <<"asked", "abandoned">>, <<"taken", "recorded">>,
                           <<"taken", "held">>, <<"held", "taken">>, <<"held", "closed">>,
                           <<"taken", "contested">>, <<"held", "contested">>,
                           <<"contested", "recorded">>}
  PROVE  Abstract!Next
<1>1. Abstract!Move(c, from, to)
  BY DEF Abstract!Move
<1>2. QED
  BY <1>1 DEF Abstract!Next, Abstract!Take, Abstract!Abandon, Abstract!Record, Abstract!Hold,
              Abstract!Reapply, Abstract!Close, Abstract!Contest

LEMMA InitIsAbstract == Init => Abstract!Init
<1> SUFFICES ASSUME Init
             PROVE  Abstract!Init
  OBVIOUS
<1>1. \A c \in Charges : account[c] = "asked"
  BY Account DEF Init
<1>2. account = [c \in Charges |-> account[c]]
  BY DEF account
<1>3. QED
  BY <1>1, <1>2 DEF Abstract!Init

LEMMA Unseen ==
  ASSUME UNCHANGED <<wallet, status, resolved, posted, shared>>
  PROVE  account' = account
  BY DEF account

\* What is written to a shared charge is not seen, unless it is entered in the ledger.
LEMMA SharedUnseen ==
  ASSUME TypeOK, TypeOK', NEW c \in shared, UNCHANGED <<posted, shared>>,
         \A d \in Charges \ {c} : /\ resolved'[d] = resolved[d]
                                  /\ status'[d] = status[d] /\ wallet'[d] = wallet[d]
  PROVE  account' = account
<1>1. ASSUME NEW d \in Charges \ {c}
      PROVE  account[d]' = account[d]
  BY DEF account
<1>2. account[c]' = account[c]
  <2>1. c \in Charges /\ posted[c] \in {0, 1}
    BY DEF TypeOK
  <2>2. account[c] = IF posted[c] = 0 THEN "contested" ELSE "recorded"
    BY <2>1, Account
  <2>3. account[c]' = IF posted'[c] = 0 THEN "contested" ELSE "recorded"
    BY <2>1 DEF account
  <2>4. QED
    BY <2>2, <2>3
<1>3. account = [d \in Charges |-> account[d]] /\ account' = [d \in Charges |-> account'[d]]
  BY DEF account
<1>4. QED
  BY <1>1, <1>2, <1>3

\* A wallet that is charged, or never will be.
LEMMA WalletStep ==
  ASSUME WorkInv, TypeOK', NEW c \in Charges, NEW to \in {"requesting", "prompted", "paid", "declined"},
         wallet[c] \in {"none", "requesting", "prompted"},
         wallet' = [wallet EXCEPT ![c] = to],
         status'[c] \in {status[c], "PENDING"}, \A d \in Charges \ {c} : status'[d] = status[d],
         UNCHANGED <<resolved, posted, shared>>
  PROVE  [Abstract!Next]_account
<1>1. TypeOK /\ LedgerHoldsWhatWasPaid /\ RowIsRight(c)
  BY DEF WorkInv, IInv
<1>0. CASE c \in shared
  <2>1. wallet' = [wallet EXCEPT ![c] = to] /\ wallet \in [Charges -> {"none", "requesting", "prompted", "paid", "declined"}]
    BY <1>1 DEF TypeOK
  <2>2. \A d \in Charges \ {c} : wallet'[d] = wallet[d]
    BY <2>1
  <2>3. QED
    BY <1>0, <1>1, <2>2, SharedUnseen
<1> SUFFICES ASSUME c \notin shared
             PROVE  [Abstract!Next]_account
  BY <1>0
<1>2. posted[c] = 0 /\ ~ resolved[c] /\ status[c] # "NEEDS_REVIEW" /\ status'[c] # "NEEDS_REVIEW"
  <2>1. posted[c] \in {0, 1}
    BY <1>1 DEF TypeOK
  <2>2. QED
    BY <1>1, <2>1 DEF LedgerHoldsWhatWasPaid, RowIsRight
<1>3. account[c] = "asked"
  BY <1>2, Account
<1>4. wallet'[c] = to /\ \A d \in Charges \ {c} : wallet'[d] = wallet[d]
  <2>1. wallet \in [Charges -> {"none", "requesting", "prompted", "paid", "declined"}]
    BY <1>1 DEF TypeOK
  <2>2. QED
    BY <2>1
<1>5. posted'[c] = 0 /\ ~ resolved'[c]
  BY <1>2
<1>6. account'[c] = IF to = "paid" THEN "taken" ELSE IF to = "declined" THEN "abandoned" ELSE "asked"
  <2>1. account[c]' = IF to = "paid" THEN "taken" ELSE IF to = "declined" THEN "abandoned" ELSE "asked"
    BY <1>2, <1>4, <1>5 DEF account
  <2>2. QED
    BY <2>1
<1>7. account' = [account EXCEPT ![c] = account'[c]]
  BY <1>1, <1>4, AccountMoves
<1>8. CASE to \in {"paid", "declined"}
  BY <1>3, <1>6, <1>7, <1>8, AbstractMove
<1>9. CASE to \notin {"paid", "declined"}
  <2>1. account = [d \in Charges |-> account[d]]
    BY DEF account
  <2>2. QED
    BY <1>3, <1>6, <1>7, <1>9, <2>1
<1>10. QED
  BY <1>8, <1>9

\* A worker records the money, puts it before a person, or that person decides.
LEMMA WorkerStep ==
  ASSUME WorkInv, WorkInv', NEW h \in Handlers, NEW c, c = on[h],
         \/ InsertPayment(h) \/ SendToReview(h)
         \/ ReapplyCollectedCharge(h) \/ ResolveCollectedCharge(h)
  PROVE  [Abstract!Next]_account
<1>1. pc[h] \in {"insert", "review", "reapply", "resolve"}
  BY DEF InsertPayment, SendToReview, ReapplyCollectedCharge, ResolveCollectedCharge
<1>2. /\ c \in Charges /\ WorksAlone(h) /\ RowIsRight(c) /\ TypeOK /\ TypeOK'
      /\ wallet[c] = "paid"
  BY <1>1, WorkerIsOnACharge DEF WorkInv, IInv, HandlersActOnPaid, ActsOnPaid, Recording
<1>0. UNCHANGED <<wallet, shared>>
  BY DEF InsertPayment, SendToReview, ReapplyCollectedCharge, ResolveCollectedCharge
<1>9. CASE c \in shared /\ ~ InsertPayment(h)
  <2>1. UNCHANGED posted
    BY <1>9 DEF SendToReview, ReapplyCollectedCharge, ResolveCollectedCharge
  <2>2. \A d \in Charges \ {c} : resolved'[d] = resolved[d] /\ status'[d] = status[d]
    <3>1. CASE ResolveCollectedCharge(h)
      BY <1>2, <3>1 DEF ResolveCollectedCharge, TypeOK
    <3>2. CASE SendToReview(h) \/ ReapplyCollectedCharge(h)
      BY <1>2, <3>2, SetStatusMoves DEF SendToReview, ReapplyCollectedCharge
    <3>3. QED
      BY <1>9, <3>1, <3>2
  <2>3. QED
    BY <1>0, <1>2, <1>9, <2>1, <2>2, SharedUnseen
<1>10. CASE c \in shared /\ InsertPayment(h)
  <2>1. UNCHANGED <<wallet, status, resolved>>
    BY <1>10 DEF InsertPayment, rowVars
  <2>2. CASE posted[c] = 0
    <3>1. posted' = [posted EXCEPT ![c] = 1] /\ posted \in [Charges -> {0, 1}]
      BY <1>2, <1>10, <2>2 DEF InsertPayment, TypeOK
    <3>2. posted'[c] = 1 /\ \A d \in Charges \ {c} : posted'[d] = posted[d]
      BY <1>2, <3>1
    <3>3. account[c] = "contested" /\ account[c]' = "recorded"
      BY <1>2, <1>10, <2>2, <3>2, Account DEF account
    <3>4. account' = [account EXCEPT ![c] = "recorded"]
      BY <1>0, <1>2, <2>1, <3>2, <3>3, AccountMoves
    <3>5. QED
      BY <1>2, <3>3, <3>4, AbstractMove
  <2>3. CASE posted[c] # 0
    BY <1>0, <1>10, <2>1, <2>3, Unseen DEF InsertPayment
  <2>4. QED
    BY <2>2, <2>3
<1> SUFFICES ASSUME c \notin shared
             PROVE  [Abstract!Next]_account
  BY <1>9, <1>10
<1>3. CASE InsertPayment(h)
  <2>1. /\ posted[c] = 0 /\ ~ resolved[c] /\ status[c] = "SUCCESS"
        /\ posted' = [posted EXCEPT ![c] = 1] /\ UNCHANGED <<wallet, status, resolved>>
    BY <1>2, <1>3 DEF InsertPayment, WorksAlone, RowIsRight, Recording, rowVars
  <2>2. account[c] = "taken"
    BY <1>2, <2>1, Account
  <2>3. posted'[c] = 1 /\ \A d \in Charges \ {c} : posted'[d] = posted[d]
    <3>1. posted \in [Charges -> {0, 1}]
      BY <1>2 DEF TypeOK
    <3>2. QED
      BY <1>2, <2>1, <3>1
  <2>4. account'[c] = "recorded"
    <3>1. account[c]' = "recorded"
      BY <1>0, <1>2, <2>3 DEF account
    <3>2. QED
      BY <3>1
  <2>5. account' = [account EXCEPT ![c] = "recorded"]
    BY <1>0, <1>2, <2>1, <2>2, <2>3, <2>4, AccountMoves
  <2>6. QED
    BY <1>2, <2>2, <2>5, AbstractMove
<1>4. CASE SendToReview(h)
  <2>1. /\ posted[c] = 0 /\ ~ resolved[c] /\ status[c] = "SUCCESS"
        /\ SetStatus(c, "NEEDS_REVIEW") /\ UNCHANGED <<wallet, posted, resolved>>
    BY <1>2, <1>4 DEF SendToReview, WorksAlone, RowIsRight, Recording
  <2>2. account[c] = "taken"
    BY <1>2, <2>1, Account
  <2>3. status'[c] = "NEEDS_REVIEW" /\ \A d \in Charges \ {c} : status'[d] = status[d]
    BY <1>2, <2>1, SetStatusMoves
  <2>4. account'[c] = "held"
    <3>1. account[c]' = "held"
      BY <1>0, <1>2, <2>1, <2>3 DEF account
    <3>2. QED
      BY <3>1
  <2>5. account' = [account EXCEPT ![c] = "held"]
    BY <1>0, <1>2, <2>1, <2>2, <2>3, <2>4, AccountMoves
  <2>6. QED
    BY <1>2, <2>2, <2>5, AbstractMove
<1>5. CASE ReapplyCollectedCharge(h)
  <2>1. /\ posted[c] = 0 /\ ~ resolved[c] /\ status[c] = "NEEDS_REVIEW"
        /\ SetStatus(c, "SUCCESS") /\ UNCHANGED <<wallet, posted, resolved>>
    BY <1>2, <1>5 DEF ReapplyCollectedCharge, WorksAlone, RowIsRight
  <2>2. account[c] = "held"
    BY <1>2, <2>1, Account
  <2>3. status'[c] = "SUCCESS" /\ \A d \in Charges \ {c} : status'[d] = status[d]
    BY <1>2, <2>1, SetStatusMoves
  <2>4. account'[c] = "taken"
    <3>1. account[c]' = "taken"
      BY <1>0, <1>2, <2>1, <2>3 DEF account
    <3>2. QED
      BY <3>1
  <2>5. account' = [account EXCEPT ![c] = "taken"]
    BY <1>0, <1>2, <2>1, <2>2, <2>3, <2>4, AccountMoves
  <2>6. QED
    BY <1>2, <2>2, <2>5, AbstractMove
<1>6. CASE ResolveCollectedCharge(h)
  <2>1. /\ posted[c] = 0 /\ ~ resolved[c] /\ status[c] = "NEEDS_REVIEW"
        /\ resolved' = [resolved EXCEPT ![c] = TRUE] /\ UNCHANGED <<wallet, posted, status>>
    BY <1>2, <1>6 DEF ResolveCollectedCharge, WorksAlone, RowIsRight
  <2>2. account[c] = "held"
    BY <1>2, <2>1, Account
  <2>3. resolved'[c] /\ \A d \in Charges \ {c} : resolved'[d] = resolved[d]
    <3>1. resolved \in [Charges -> BOOLEAN]
      BY <1>2 DEF TypeOK
    <3>2. QED
      BY <1>2, <2>1, <3>1
  <2>4. account'[c] = "closed"
    <3>1. account[c]' = "closed"
      BY <1>0, <1>2, <2>1, <2>3 DEF account
    <3>2. QED
      BY <3>1
  <2>5. account' = [account EXCEPT ![c] = "closed"]
    BY <1>0, <1>2, <2>1, <2>2, <2>3, <2>4, AccountMoves
  <2>6. QED
    BY <1>2, <2>2, <2>5, AbstractMove
<1>7. QED
  BY <1>3, <1>4, <1>5, <1>6

\* A claim settles the row of money already taken, or of money that never will be.
LEMMA ClaimStep ==
  ASSUME WorkInv, WorkInv', NEW h \in Handlers, Claim(h), NEW c, c = on[h]
  PROVE  account' = account
<1>1. c \in Charges /\ TypeOK /\ TypeOK' /\ RowIsRight(c) /\ UNCHANGED <<wallet, posted, resolved, shared>>
  BY WorkerIsOnACharge DEF Claim, WorkInv, IInv
<1>2. CASE UNCHANGED status
  BY <1>1, <1>2, Unseen
<1>3. CASE status[c] \in ClaimableStatuses(outcome[h]) /\ SetStatus(c, outcome[h])
  <2>1. status[c] # "NEEDS_REVIEW" /\ outcome[h] # "NEEDS_REVIEW"
    BY <1>1, <1>3 DEF ClaimableStatuses, TypeOK
  <2>2. status'[c] = outcome[h] /\ \A d \in Charges \ {c} : status'[d] = status[d]
    BY <1>1, <1>3, SetStatusMoves
  <2>3. \A d \in Charges : (status'[d] = "NEEDS_REVIEW") <=> (status[d] = "NEEDS_REVIEW")
    BY <2>1, <2>2
  <2>4. \A d \in Charges : account[d]' = account[d]
    BY <1>1, <2>3 DEF account
  <2>5. account = [d \in Charges |-> account[d]] /\ account' = [d \in Charges |-> account'[d]]
    BY DEF account
  <2>6. QED
    BY <2>4, <2>5
<1>4. QED
  BY <1>2, <1>3, Zenon DEF Claim

\* A charge that a second worker takes up is contested, unless it is in the ledger.
LEMMA TakenUpStep ==
  ASSUME WorkInv, TypeOK', NEW c \in Charges, NoteShared(c),
         UNCHANGED <<wallet, status, resolved, posted>>,
         status[c] = "SUCCESS" \/ (status[c] = "NEEDS_REVIEW" /\ ~ resolved[c])
  PROVE  [Abstract!Next]_account
<1>1. TypeOK /\ LedgerHoldsWhatWasPaid /\ RowIsRight(c) /\ posted[c] \in {0, 1}
  BY DEF WorkInv, IInv, TypeOK
<1>2. CASE shared' = shared
  BY <1>2, Unseen
<1>3. CASE shared' # shared
  <2>1. c \notin shared /\ shared' = shared \cup {c}
    BY <1>3 DEF NoteShared
  <2>2. wallet[c] = "paid" /\ ~ resolved[c]
    BY <1>1, <2>1 DEF LedgerHoldsWhatWasPaid, RowIsRight
  <2>3. CASE posted[c] = 0
    <3>1. account[c] \in {"taken", "held"}
      BY <1>1, <2>1, <2>2, <2>3, Account
    <3>2. account[c]' = "contested"
      BY <2>1, <2>3 DEF account
    <3>3. account' = [account EXCEPT ![c] = "contested"]
      BY <1>1, <2>1, <3>2, AccountMoves
    <3>4. QED
      BY <3>1, <3>3, AbstractMove
  <2>4. CASE posted[c] = 1
    <3>1. \A d \in Charges : account[d]' = account[d]
      BY <1>1, <2>1, <2>4 DEF account
    <3>2. account = [d \in Charges |-> account[d]] /\ account' = [d \in Charges |-> account'[d]]
      BY DEF account
    <3>3. QED
      BY <3>1, <3>2
  <2>5. QED
    BY <1>1, <2>3, <2>4
<1>4. QED
  BY <1>2, <1>3

LEMMA NextIsAbstract ==
  WorkInv /\ [Next]_vars => [Abstract!Next]_account
<1> SUFFICES ASSUME WorkInv, [Next]_vars
             PROVE  [Abstract!Next]_account
  OBVIOUS
<1>1. WorkInv' /\ TypeOK'
  BY NextWorkInv DEF WorkInv, IInv
<1>2. CASE UNCHANGED <<wallet, status, resolved, posted, shared>>
  BY <1>2, Unseen
<1>3. ASSUME NEW c \in Charges, InitiateHubtelPayment(c)
      PROVE  [Abstract!Next]_account
  <2>1. status[c] = "none" /\ wallet' = [wallet EXCEPT ![c] = "requesting"]
        /\ SetStatus(c, "PENDING") /\ UNCHANGED <<resolved, posted, shared>>
    BY <1>3 DEF InitiateHubtelPayment
  <2>2. wallet[c] = "none" /\ TypeOK
    BY <2>1 DEF WorkInv, IInv, HandlersActOnPaid
  <2>3. status'[c] = "PENDING" /\ \A d \in Charges \ {c} : status'[d] = status[d]
    BY <2>1, <2>2, SetStatusMoves
  <2>4. QED
    BY <1>1, <2>1, <2>2, <2>3, WalletStep
<1>4. ASSUME NEW c \in Charges, NEW from \in {"requesting", "prompted"},
             NEW to \in {"prompted", "paid", "declined"},
             wallet[c] = from, wallet' = [wallet EXCEPT ![c] = to], UNCHANGED <<rowVars, posted, shared>>
      PROVE  [Abstract!Next]_account
  BY <1>1, <1>4, WalletStep DEF rowVars
<1>5. ASSUME NEW h \in Handlers, Step(h)
      PROVE  [Abstract!Next]_account
  <2>1. PICK c : c = on[h]
    OBVIOUS
  <2>2. CASE Claim(h)
    BY <1>1, <2>1, <2>2, ClaimStep
  <2>3. CASE ReadCharge(h) \/ LookupPayment(h) \/ BeginPosting(h) \/ LinkPayment(h) \/ CheckStatus(h)
              \/ CheckFails(h) \/ RaiseAlert(h)
    BY <1>2, <2>3 DEF ReadCharge, LookupPayment, BeginPosting, LinkPayment, CheckStatus, CheckFails,
                      RaiseAlert, rowVars
  <2>4. QED
    BY <1>1, <1>5, <2>1, <2>2, <2>3, WorkerStep DEF Step
<1>6. ASSUME NEW h \in Handlers, Crash(h)
      PROVE  [Abstract!Next]_account
  BY <1>2, <1>6 DEF Crash, rowVars
<1>7. ASSUME NEW c \in Charges, GrowOld(c) \/ GrowQuiet(c)
      PROVE  [Abstract!Next]_account
  BY <1>2, <1>7 DEF GrowOld, GrowQuiet
<1>8. ASSUME NEW c \in Charges,
             RequestTaken(c) \/ RequestLost(c) \/ CustomerApproves(c) \/ CustomerDeclines(c)
      PROVE  [Abstract!Next]_account
  BY <1>4, <1>8 DEF RequestTaken, RequestLost, CustomerApproves, CustomerDeclines, Outside
<1>9. ASSUME NEW h \in Handlers, NEW c \in Charges, RefuseHubtelPayment(h, c)
      PROVE  [Abstract!Next]_account
  BY <1>4, <1>9 DEF RefuseHubtelPayment
<1>10. ASSUME NEW h \in Handlers, NEW c \in Charges,
             \/ ReceiveCallback(h, c) \/ ListStale(h, c) \/ RetryUnrecorded(h, c)
             \/ \E intent \in {"reapply", "resolve"} : OpenForReview(h, c, intent)
      PROVE  [Abstract!Next]_account
  <2>1. UNCHANGED <<wallet, status, resolved, posted>>
    BY <1>10 DEF ReceiveCallback, ListStale, RetryUnrecorded, OpenForReview, rowVars
  <2>2. CASE UNCHANGED shared
    BY <1>2, <2>1, <2>2
  <2>3. CASE ~ UNCHANGED shared
    <3>1. NoteShared(c) /\ (status[c] = "SUCCESS" \/ (status[c] = "NEEDS_REVIEW" /\ ~ resolved[c]))
      BY <1>10, <2>3 DEF ReceiveCallback, ListStale, RetryUnrecorded, OpenForReview
    <3>2. QED
      BY <1>1, <2>1, <3>1, TakenUpStep
  <2>4. QED
    BY <2>2, <2>3
<1>11. CASE UNCHANGED vars
  BY <1>2, <1>11 DEF vars, rowVars
<1>12. CASE ContractChanges
  BY <1>2, <1>12 DEF ContractChanges, rowVars
<1>13. QED
  BY <1>3, <1>5, <1>6, <1>7, <1>8, <1>9, <1>10, <1>11, <1>12 DEF Next

\* Any number of handlers carry out Collection: money taken is entered once, or held for a
\* person who enters it or closes it, never both unless two were at work on it at once.
THEOREM RowsImplementCollection == Spec => ImplementsCollection
<1>1. WorkInv /\ [Next]_vars => WorkInv'
  BY NextWorkInv
<1>2. WorkInv /\ [Next]_vars => [Abstract!Next]_account
  BY NextIsAbstract
<1>3. QED
  BY <1>1, <1>2, InitWorkInv, InitIsAbstract, PTL DEF Spec, ImplementsCollection, Abstract!Spec
=============================================================================

------------------------- MODULE DirectDebitProofs --------------------------
(***************************************************************************)
(* For any debits, days, deaths and charges by hand: the morning run never *)
(* waits for two answers of its own at once, and a bounced debit has one   *)
(* retry, and one more for each handler that died.  The second rests on    *)
(* who may still retry a debit: its date, the run's list, and the run      *)
(* between listing it and calling its date off.                            *)
(***************************************************************************)
EXTENDS DirectDebit, FiniteSetTheorems, TLAPS

Places == {"idle", "collect", "busy", "charge", "list", "retries", "create", "callOff", "call",
           "schedule", "record"}

\* A handler is somewhere, and has a debit in hand where it needs one.
HasDebit ==
    /\ pc \in [Handlers -> Places]
    /\ \A h \in Handlers :
          pc[h] \in {"create", "callOff", "call", "schedule", "record"} => on[h] \in Debits
    /\ deaths \in Nat

\* What the run asked for by itself waits for one answer, and none when it asks again.
AsksAlone ==
    /\ \A d, e \in Debits \ byHand : status[d] = "PENDING" /\ status[e] = "PENDING" => d = e
    /\ pc[Run] \in {"charge", "create"} => \A d \in Debits \ byHand : status[d] # "PENDING"

Kids(d) == {e \in Debits : parent[e] = d}

Scheduling(d) == \E h \in Handlers : pc[h] = "schedule" /\ on[h] = d
Creating(d) == pc[Run] = "create" /\ on[Run] = d
CallingOff(d) == pc[Run] = "callOff" /\ parent[on[Run]] = d

\* A debit not answered yet, or whose failure is being scheduled, has no retry.
Untried(d) == retryIn[d] = Never /\ d \notin queue /\ Kids(d) = {} /\ ~Creating(d)

NotYetRetried ==
    \A d \in Debits :
        /\ status[d] = "none" => wallet[d] = "untouched"
        /\ status[d] \in {"none", "PENDING"} => Untried(d) /\ ~Scheduling(d)
        /\ Scheduling(d) => Untried(d)

\* Whoever schedules a retry, or records, does so after an answer; a debit that failed is
\* scheduled by one handler.
Answered ==
    \A h \in Handlers : pc[h] \in {"schedule", "record"} => status[on[h]] \notin {"none", "PENDING"}

SchedulesAlone ==
    \A g, h \in Handlers :
        pc[g] = "schedule" /\ pc[h] = "schedule" /\ on[g] = on[h] => g = h

\* From the new row to the call the run alone has it; the debit it replaces is off the list.
RunHoldsRow ==
    /\ pc[Run] \in {"callOff", "call"} =>
          status[on[Run]] = "PENDING" /\ wallet[on[Run]] = "untouched"
    /\ pc[Run] = "create" => on[Run] \notin queue
    /\ pc[Run] = "callOff" => parent[on[Run]] \in Debits \ queue

\* A debit that may still be retried has had a retry for each death at most.
MayRetry(d) == retryIn[d] # Never \/ d \in queue \/ Creating(d)

RetriesLeft ==
    \A d \in Debits : MayRetry(d) /\ ~CallingOff(d) => Cardinality(Kids(d)) <= deaths

RetriedAtMost == \A d \in Debits : Cardinality(Kids(d)) <= 1 + deaths

IInv ==
    /\ TypeOK /\ HasDebit
    /\ AsksAlone
    /\ NotYetRetried /\ Answered /\ SchedulesAlone /\ RunHoldsRow
    /\ RetriesLeft /\ RetriedAtMost

-----------------------------------------------------------------------------
LEMMA KidsFinite ==
  ASSUME NEW d
  PROVE  IsFiniteSet(Kids(d)) /\ Cardinality(Kids(d)) \in Nat
<1>1. IsFiniteSet(Debits)
  BY BoundsAssumption, FS_Interval DEF Debits
<1>2. Kids(d) \in SUBSET Debits
  BY DEF Kids
<1>3. QED
  BY <1>1, <1>2, FS_Subset, FS_CardinalityType

LEMMA InitIInv == Init => IInv
<1> SUFFICES ASSUME Init
             PROVE  IInv
  OBVIOUS
<1>1. \A d \in Debits : Kids(d) = {}
  BY DEF Init, Kids, Debits
<1>2. TypeOK
  BY BoundsAssumption, RetryScheduleAssumption DEF Init, TypeOK, Never, Debits
<1>3. HasDebit /\ AsksAlone
  BY DEF Init, HasDebit, AsksAlone, Places, Handlers
<1>4. NotYetRetried /\ Answered /\ SchedulesAlone /\ RunHoldsRow
  BY <1>1 DEF Init, NotYetRetried, Answered, SchedulesAlone, RunHoldsRow, Untried, Scheduling, Creating, Handlers
<1>5. \A d \in Debits : ~MayRetry(d) /\ Cardinality(Kids(d)) = 0
  BY <1>1, FS_EmptySet DEF Init, MayRetry, Creating, Handlers
<1>6. RetriesLeft /\ RetriedAtMost
  BY <1>5 DEF Init, RetriesLeft, RetriedAtMost
<1>7. QED
  BY <1>2, <1>3, <1>4, <1>6 DEF IInv

\* Retries are counted where a row is created; elsewhere debits only leave the list.
LEMMA CountsKept ==
  ASSUME IInv, parent' = parent, deaths' \in Nat, deaths' >= deaths,
         \A d \in Debits : MayRetry(d)' /\ ~CallingOff(d)' =>
            (MayRetry(d) /\ ~CallingOff(d)) \/ Kids(d) = {} \/ deaths' > deaths
  PROVE  RetriesLeft' /\ RetriedAtMost'
<1>1. \A d \in Debits : Kids(d)' = Kids(d) /\ Cardinality(Kids(d)) \in Nat
  BY KidsFinite DEF Kids
<1>2. \A d \in Debits : Cardinality(Kids(d))' = Cardinality(Kids(d))
  BY <1>1
<1>3. deaths \in Nat /\ Cardinality({}) = 0
  BY FS_EmptySet DEF IInv, HasDebit
<1>4. RetriedAtMost'
  BY <1>1, <1>2, <1>3 DEF IInv, RetriedAtMost
<1>5. RetriesLeft'
  <2>1. ASSUME NEW d \in Debits, MayRetry(d)', ~CallingOff(d)'
        PROVE  Cardinality(Kids(d)) <= deaths'
    <3>1. CASE MayRetry(d) /\ ~CallingOff(d)
      BY <1>1, <1>3, <3>1 DEF IInv, RetriesLeft
    <3>2. CASE Kids(d) = {}
      BY <1>3, <3>2
    <3>3. CASE deaths' > deaths
      BY <1>1, <1>3, <3>3 DEF IInv, RetriedAtMost
    <3>4. QED
      BY <2>1, <3>1, <3>2, <3>3
  <2>2. QED
    BY <1>2, <2>1 DEF RetriesLeft
<1>6. QED
  BY <1>4, <1>5

-----------------------------------------------------------------------------
LEMMA NextDayStep ==
  ASSUME IInv, NEW open \in Days, NextDay(open)
  PROVE  IInv'
<1>1. /\ pc' = [pc EXCEPT ![Run] = "collect"] /\ \A h \in Handlers : pc[h] = "idle"
      /\ status' = status /\ byHand' = byHand /\ parent' = parent /\ wallet' = wallet
      /\ on' = on /\ queue' = queue /\ deaths' = deaths
      /\ Run \in Handlers
  BY DEF NextDay, GoTo, Handlers
<1>2. \A d \in Debits : /\ retryIn'[d] \in 0..7 \cup {Never}
                        /\ retryIn'[d] = Never <=> retryIn[d] = Never
  BY DEF NextDay, IInv, TypeOK, Never
<1>3. TypeOK'
  <2>1. retryIn' \in [Debits -> 0..7 \cup {Never}]
    BY <1>2 DEF NextDay
  <2>2. owing' \in {"nothing", "due", "overdue", "closed"} /\ working' \in BOOLEAN
    BY DaysAssumption DEF NextDay, IInv, TypeOK
  <2>3. QED
    BY <2>1, <2>2 DEF NextDay, IInv, TypeOK
<1>4. \A h \in Handlers : pc'[h] \in {"idle", "collect"}
  BY <1>1 DEF IInv, HasDebit
<1>5. HasDebit'
  BY <1>1, <1>4 DEF IInv, HasDebit, Places
<1>6. AsksAlone'
  BY <1>1, <1>4 DEF IInv, AsksAlone
<1>7. \A d \in Debits : Kids(d)' = Kids(d) /\ ~Creating(d)' /\ ~CallingOff(d)' /\ ~Scheduling(d)'
                        /\ ~CallingOff(d) /\ ~Creating(d)
  BY <1>1, <1>4 DEF Kids, Creating, CallingOff, Scheduling
<1>8. NotYetRetried'
  BY <1>1, <1>2, <1>7 DEF IInv, NotYetRetried, Untried
<1>9. Answered' /\ SchedulesAlone' /\ RunHoldsRow'
  BY <1>1, <1>4 DEF Answered, SchedulesAlone, RunHoldsRow
<1>10. RetriesLeft' /\ RetriedAtMost'
  BY <1>1, <1>2, <1>7, CountsKept DEF MayRetry, IInv, HasDebit
<1>11. QED
  BY <1>3, <1>5, <1>6, <1>8, <1>9, <1>10 DEF IInv

LEMMA ContractMovesStep ==
  ASSUME IInv, ContractMoves
  PROVE  IInv'
<1>1. /\ status' = status /\ byHand' = byHand /\ parent' = parent /\ wallet' = wallet
      /\ retryIn' = retryIn /\ pc' = pc /\ on' = on /\ queue' = queue /\ deaths' = deaths
  BY DEF ContractMoves, rowVars, handlerVars
<1>2. TypeOK'
  BY DEF ContractMoves, rowVars, handlerVars, IInv, TypeOK
<1>3. HasDebit' /\ AsksAlone' /\ Answered' /\ SchedulesAlone' /\ RunHoldsRow'
  BY <1>1 DEF IInv, HasDebit, AsksAlone, Answered, SchedulesAlone, RunHoldsRow
<1>4. \A d \in Debits : /\ Kids(d)' = Kids(d) /\ Creating(d)' = Creating(d)
                        /\ CallingOff(d)' = CallingOff(d) /\ Scheduling(d)' = Scheduling(d)
  BY <1>1 DEF Kids, Creating, CallingOff, Scheduling
<1>5. NotYetRetried'
  BY <1>1, <1>4 DEF IInv, NotYetRetried, Untried
<1>6. RetriesLeft' /\ RetriedAtMost'
  BY <1>1, <1>4, CountsKept DEF MayRetry, IInv, HasDebit
<1>7. QED
  BY <1>2, <1>3, <1>5, <1>6 DEF IInv

LEMMA WalletStep ==
  ASSUME IInv, NEW d \in Debits, WalletIsDebited(d)
  PROVE  IInv'
<1>1. /\ status' = status /\ byHand' = byHand /\ parent' = parent
      /\ wallet' = [wallet EXCEPT ![d] = "taken"] /\ wallet[d] = "asked"
      /\ retryIn' = retryIn /\ pc' = pc /\ on' = on /\ queue' = queue /\ deaths' = deaths
  BY DEF WalletIsDebited, rowVars, handlerVars
<1>2. TypeOK'
  BY DEF WalletIsDebited, rowVars, handlerVars, IInv, TypeOK
<1>3. HasDebit' /\ AsksAlone' /\ Answered' /\ SchedulesAlone'
  BY <1>1 DEF IInv, HasDebit, AsksAlone, Answered, SchedulesAlone
<1>4. \A e \in Debits : wallet[e] = "untouched" => wallet'[e] = "untouched"
  BY <1>1 DEF IInv, TypeOK
<1>5. RunHoldsRow'
  BY <1>1, <1>4 DEF IInv, RunHoldsRow, HasDebit, Handlers
<1>6. \A e \in Debits : /\ Kids(e)' = Kids(e) /\ Creating(e)' = Creating(e)
                        /\ CallingOff(e)' = CallingOff(e) /\ Scheduling(e)' = Scheduling(e)
  BY <1>1 DEF Kids, Creating, CallingOff, Scheduling
<1>7. NotYetRetried'
  BY <1>1, <1>4, <1>6 DEF IInv, NotYetRetried, Untried
<1>8. RetriesLeft' /\ RetriedAtMost'
  BY <1>1, <1>6, CountsKept DEF MayRetry, IInv, HasDebit
<1>9. QED
  BY <1>2, <1>3, <1>5, <1>7, <1>8 DEF IInv

\* A handler that goes on, ends or dies with nothing asked, scheduled or called off.
LEMMA Passes ==
  ASSUME IInv, TypeOK', NEW h \in Handlers, NEW at \in {"idle", "busy", "list", "retries", "charge"},
         pc' = [pc EXCEPT ![h] = at], on' \in {on, [on EXCEPT ![h] = 0]},
         byHand' = byHand, parent' = parent, retryIn' = retryIn, queue' \in {queue, {}},
         deaths' \in Nat, deaths' >= deaths,
         \A d \in Debits : status'[d] # status[d] =>
            status[d] \notin {"none", "PENDING"} /\ status'[d] = "NEEDS_REVIEW",
         \A d \in Debits : wallet'[d] # wallet[d] => h = Run /\ pc[Run] = "call" /\ d = on[Run],
         h = Run /\ pc[Run] = "callOff" => deaths' > deaths,
         h = Run /\ at = "charge" => \A d \in Debits \ byHand : status[d] # "PENDING"
  PROVE  IInv'
<1>1. /\ pc'[h] = at /\ \A g \in Handlers \ {h} : pc'[g] = pc[g] /\ on'[g] = on[g]
      /\ Run \in Handlers
      /\ pc' \in [Handlers -> Places]
  BY DEF IInv, HasDebit, TypeOK, Handlers, Places
<1>2. HasDebit'
  BY <1>1 DEF IInv, HasDebit
<1>3. \A d \in Debits : status'[d] = "PENDING" <=> status[d] = "PENDING"
  OBVIOUS
<1>4. \A d \in Debits : status'[d] = "none" <=> status[d] = "none"
  OBVIOUS
<1>5. AsksAlone'
  <2>1. \A d, e \in Debits \ byHand : status'[d] = "PENDING" /\ status'[e] = "PENDING" => d = e
    BY <1>3 DEF IInv, AsksAlone
  <2>2. pc'[Run] \in {"charge", "create"} => \A d \in Debits \ byHand : status'[d] # "PENDING"
    BY <1>1, <1>3 DEF IInv, AsksAlone
  <2>3. QED
    BY <2>1, <2>2 DEF AsksAlone
<1>6. ASSUME NEW d \in Debits
      PROVE  /\ Kids(d)' = Kids(d)
             /\ Creating(d)' => Creating(d)
             /\ Scheduling(d)' => Scheduling(d)
             /\ h # Run \/ pc[Run] # "callOff" => (CallingOff(d) => CallingOff(d)')
  <2>1. Kids(d)' = Kids(d) /\ (Creating(d)' => Creating(d))
    BY <1>1 DEF Kids, Creating
  <2>2. Scheduling(d)' => Scheduling(d)
    BY <1>1 DEF Scheduling
  <2>3. h # Run \/ pc[Run] # "callOff" => (CallingOff(d) => CallingOff(d)')
    BY <1>1 DEF CallingOff
  <2>4. QED
    BY <2>1, <2>2, <2>3
<1>7. \A d \in Debits : Untried(d) => Untried(d)'
  BY <1>6 DEF Untried
<1>8. NotYetRetried'
  <2>1. ASSUME NEW d \in Debits, status[d] = "none"
        PROVE  wallet'[d] = "untouched"
    BY <2>1, <1>1 DEF IInv, NotYetRetried, RunHoldsRow
  <2>2. QED
    BY <1>3, <1>4, <1>6, <1>7, <2>1 DEF IInv, NotYetRetried
<1>9. Answered' /\ SchedulesAlone'
  <2>1. ASSUME NEW g \in Handlers, pc'[g] \in {"schedule", "record"}
        PROVE  g # h /\ pc'[g] = pc[g] /\ on'[g] = on[g] /\ on[g] \in Debits
    BY <1>1, <2>1 DEF IInv, HasDebit
  <2>2. QED
    BY <1>3, <1>4, <2>1 DEF IInv, Answered, SchedulesAlone
<1>10. RunHoldsRow'
  <2>1. ASSUME pc'[Run] \in {"callOff", "call", "create"}
        PROVE  h # Run /\ pc'[Run] = pc[Run] /\ on'[Run] = on[Run] /\ on[Run] \in Debits
    BY <1>1, <2>1 DEF IInv, HasDebit
  <2>2. QED
    BY <1>3, <2>1 DEF IInv, RunHoldsRow
<1>11. RetriesLeft' /\ RetriedAtMost'
  <2>1. ASSUME NEW d \in Debits, MayRetry(d)', ~CallingOff(d)', ~(deaths' > deaths)
        PROVE  MayRetry(d) /\ ~CallingOff(d)
    BY <1>6, <2>1 DEF MayRetry
  <2>2. QED
    BY <2>1, CountsKept
<1>12. QED
  BY <1>2, <1>5, <1>8, <1>9, <1>10, <1>11 DEF IInv

LEMMA DieStep ==
  ASSUME IInv, NEW h \in Handlers, Die(h)
  PROVE  IInv'
<1>1. /\ pc' = [pc EXCEPT ![h] = "idle"] /\ on' = [on EXCEPT ![h] = 0] /\ deaths' = deaths + 1
      /\ status' = status /\ byHand' = byHand /\ parent' = parent /\ retryIn' = retryIn
      /\ wallet' = wallet /\ queue' \in {queue, {}}
  BY DEF Die, GoTo, rowVars
<1>2. TypeOK'
  BY BoundsAssumption DEF Die, GoTo, rowVars, IInv, TypeOK
<1>3. deaths' \in Nat /\ deaths' >= deaths /\ deaths' > deaths
  BY <1>1 DEF IInv, HasDebit
<1>4. QED
  BY <1>1, <1>2, <1>3, Passes

LEMMA ProceedFacts ==
  ASSUME IInv, NEW h \in Handlers, Proceed(h)
  PROVE  /\ on' = [on EXCEPT ![h] = 0]
         /\ on' \in [Handlers -> 0..MaxDebits]
         /\ \E at \in {"idle", "list", "retries"} : pc' = [pc EXCEPT ![h] = at]
<1>1. on' = [on EXCEPT ![h] = 0] /\ on' \in [Handlers -> 0..MaxDebits]
  BY BoundsAssumption DEF Proceed, IInv, TypeOK
<1>2. PICK at : at = IF h # Run THEN "idle" ELSE IF parent[on[h]] = 0 THEN "list" ELSE "retries"
  OBVIOUS
<1>3. at \in {"idle", "list", "retries"} /\ pc' = [pc EXCEPT ![h] = at]
  BY <1>2 DEF Proceed, GoTo
<1>4. QED
  BY <1>1, <1>3

LEMMA CallTakenStep ==
  ASSUME IInv, CallTaken
  PROVE  IInv'
<1>1. /\ status' = status /\ byHand' = byHand /\ parent' = parent /\ retryIn' = retryIn
      /\ retryCount' = retryCount /\ recorded' = recorded /\ owing' = owing /\ working' = working
      /\ queue' = queue /\ deaths' = deaths /\ pc[Run] = "call" /\ Run \in Handlers
      /\ wallet' = [wallet EXCEPT ![on[Run]] = "asked"] /\ Proceed(Run)
  BY DEF CallTaken, rowVars, Handlers
<1>2. TypeOK'
  BY <1>1, ProceedFacts DEF IInv, TypeOK
<1>3. \A d \in Debits : wallet'[d] # wallet[d] => d = on[Run]
  BY <1>1 DEF IInv, TypeOK
<1>4. deaths' \in Nat /\ deaths' >= deaths
  BY <1>1 DEF IInv, HasDebit
<1>5. PICK at \in {"idle", "list", "retries"} : pc' = [pc EXCEPT ![Run] = at]
  BY <1>1, ProceedFacts
<1>6. QED
  BY <1>1, <1>2, <1>3, <1>4, <1>5, ProceedFacts, Passes

LEMMA RecordStep ==
  ASSUME IInv, NEW h \in Handlers, Record(h)
  PROVE  IInv'
<1>1. /\ byHand' = byHand /\ parent' = parent /\ retryIn' = retryIn /\ wallet' = wallet
      /\ retryCount' = retryCount /\ working' = working
      /\ queue' = queue /\ deaths' = deaths /\ pc[h] = "record" /\ Proceed(h)
      /\ status' \in {status, [status EXCEPT ![on[h]] = "NEEDS_REVIEW"]}
      /\ on[h] \in Debits
  BY DEF Record, IInv, HasDebit
<1>2. TypeOK'
  <2>1. status' \in [Debits -> {"none", "PENDING", "SUCCESS", "FAILED", "NEEDS_REVIEW"}]
    BY <1>1 DEF IInv, TypeOK
  <2>2. recorded' \subseteq Debits /\ owing' \in {"nothing", "due", "overdue", "closed"}
    BY <1>1 DEF Record, IInv, TypeOK
  <2>3. QED
    BY <1>1, <2>1, <2>2, ProceedFacts DEF IInv, TypeOK
<1>3. \A d \in Debits : status'[d] # status[d] =>
         status[d] \notin {"none", "PENDING"} /\ status'[d] = "NEEDS_REVIEW"
  BY <1>1 DEF IInv, Answered, TypeOK
<1>4. deaths' \in Nat /\ deaths' >= deaths
  BY <1>1 DEF IInv, HasDebit
<1>5. PICK at \in {"idle", "list", "retries"} : pc' = [pc EXCEPT ![h] = at]
  BY <1>1, ProceedFacts
<1>6. QED
  BY <1>1, <1>2, <1>3, <1>4, <1>5, ProceedFacts, Passes

\* A charge is refused, and the run goes on.
ChargeRefused ==
    /\ pc[Run] = "charge"
    /\ GoTo(Run, "list")
    /\ UNCHANGED <<rowVars, on, wallet, recorded, owing, working, queue, deaths>>

LEMMA LooksStep ==
  ASSUME IInv, ReadContract \/ ReadInHand \/ ChargeRefused \/ EndRun
  PROVE  IInv'
<1>1. /\ status' = status /\ byHand' = byHand /\ parent' = parent /\ retryIn' = retryIn
      /\ retryCount' = retryCount /\ recorded' = recorded /\ owing' = owing
      /\ queue' = queue /\ deaths' = deaths /\ Run \in Handlers /\ wallet' = wallet /\ on' = on
      /\ pc[Run] # "callOff"
  BY DEF ReadContract, ReadInHand, ChargeRefused, EndRun, rowVars, Handlers
<1>2. \E at \in {"idle", "busy", "list", "charge"} :
         /\ pc' = [pc EXCEPT ![Run] = at]
         /\ at = "charge" => \A d \in Debits \ byHand : status[d] # "PENDING"
  BY DEF ReadContract, ReadInHand, ChargeRefused, EndRun, GoTo, InHand
<1>3. working' \in BOOLEAN
  BY DEF ReadContract, ReadInHand, ChargeRefused, EndRun, IInv, TypeOK
<1>4. TypeOK'
  BY <1>1, <1>3 DEF IInv, TypeOK
<1>5. deaths' \in Nat /\ deaths' >= deaths
  BY <1>1 DEF IInv, HasDebit
<1>6. QED
  BY <1>1, <1>2, <1>4, <1>5, Passes

-----------------------------------------------------------------------------
(* An answer is taken up, to be settled or recorded. *)

LEMMA TakesUp ==
  ASSUME IInv, TypeOK', NEW h \in Handlers, NEW d \in Debits, NEW at \in {"schedule", "record"},
         pc' = [pc EXCEPT ![h] = at], on' = [on EXCEPT ![h] = d],
         byHand' = byHand, parent' = parent, queue' = queue, deaths' = deaths, wallet' = wallet,
         pc[h] = "idle" \/ (h = Run /\ pc[Run] = "call" /\ on[Run] = d),
         \A e \in Debits \ {d} : status'[e] = status[e] /\ retryIn'[e] = retryIn[e],
         retryIn'[d] \in {retryIn[d], Never},
         status'[d] \notin {"none", "PENDING"},
         status[d] # "none",
         at = "schedule" => status[d] = "PENDING",
         d = on[Run] /\ pc[Run] \in {"callOff", "call"} => h = Run
  PROVE  IInv'
<1>1. /\ pc'[h] = at /\ on'[h] = d /\ \A g \in Handlers \ {h} : pc'[g] = pc[g] /\ on'[g] = on[g]
      /\ Run \in Handlers
      /\ pc' \in [Handlers -> Places]
      /\ h = Run => pc[Run] \in {"idle", "call"}
  BY DEF IInv, HasDebit, TypeOK, Handlers, Places
<1>2. HasDebit'
  BY <1>1 DEF IInv, HasDebit
<1>3. \A e \in Debits : status'[e] = "PENDING" => status[e] = "PENDING" /\ e # d
  OBVIOUS
<1>4. \A e \in Debits : status'[e] = "none" => status[e] = "none" /\ e # d
  OBVIOUS
<1>5. AsksAlone'
  BY <1>1, <1>3 DEF IInv, AsksAlone
<1>6. ASSUME NEW e \in Debits
      PROVE  /\ Kids(e)' = Kids(e)
             /\ Creating(e)' => Creating(e)
             /\ Scheduling(e)' => Scheduling(e) \/ e = d
             /\ CallingOff(e) => CallingOff(e)'
  <2>1. Kids(e)' = Kids(e) /\ (Creating(e)' => Creating(e))
    BY <1>1 DEF Kids, Creating
  <2>2. Scheduling(e)' => Scheduling(e) \/ e = d
    BY <1>1 DEF Scheduling
  <2>3. CallingOff(e) => CallingOff(e)'
    BY <1>1 DEF CallingOff
  <2>4. QED
    BY <2>1, <2>2, <2>3
<1>7. \A e \in Debits : Untried(e) => Untried(e)'
  BY <1>6 DEF Untried
<1>8. Scheduling(d)' => Untried(d)
  <2>1. CASE at = "schedule"
    BY <2>1 DEF IInv, NotYetRetried
  <2>2. CASE at # "schedule"
    BY <1>1, <2>2 DEF Scheduling, IInv, NotYetRetried
  <2>3. QED
    BY <2>1, <2>2
<1>9. NotYetRetried'
  BY <1>3, <1>4, <1>6, <1>7, <1>8 DEF IInv, NotYetRetried
<1>10. Answered'
  <2>1. \A g \in Handlers \ {h} : pc'[g] \in {"schedule", "record"} =>
           on'[g] \in Debits /\ status[on'[g]] \notin {"none", "PENDING"}
    BY <1>1 DEF IInv, HasDebit, Answered
  <2>2. QED
    BY <1>1, <1>3, <1>4, <2>1 DEF Answered
<1>11. SchedulesAlone'
  <2>1. at = "schedule" => \A g \in Handlers \ {h} : ~(pc[g] = "schedule" /\ on[g] = d)
    BY DEF IInv, NotYetRetried, Scheduling
  <2>2. QED
    BY <1>1, <2>1 DEF IInv, SchedulesAlone
<1>12. RunHoldsRow'
  <2>1. ASSUME pc'[Run] \in {"callOff", "call", "create"}
        PROVE  h # Run /\ pc'[Run] = pc[Run] /\ on'[Run] = on[Run] /\ on[Run] \in Debits
               /\ (pc[Run] # "create" => on[Run] # d)
    BY <1>1, <2>1 DEF IInv, HasDebit
  <2>2. QED
    BY <2>1 DEF IInv, RunHoldsRow
<1>13. RetriesLeft' /\ RetriedAtMost'
  <2>1. ASSUME NEW e \in Debits, MayRetry(e)', ~CallingOff(e)'
        PROVE  MayRetry(e) /\ ~CallingOff(e)
    BY <1>6, <2>1 DEF MayRetry
  <2>2. QED
    BY <2>1, CountsKept DEF IInv, HasDebit
<1>14. QED
  BY <1>2, <1>5, <1>9, <1>10, <1>11, <1>12, <1>13 DEF IInv

LEMMA SettleStep ==
  ASSUME IInv, NEW h \in Handlers, NEW d \in Debits, NEW result \in {"SUCCESS", "FAILED"},
         Settle(h, d, result), UNCHANGED wallet,
         pc[h] = "idle" \/ (h = Run /\ pc[Run] = "call" /\ on[Run] = d),
         status[d] # "none",
         result = "FAILED" => status[d] = "PENDING",
         d = on[Run] /\ pc[Run] \in {"callOff", "call"} => h = Run
  PROVE  IInv'
<1>1. PICK at : at = IF result = "SUCCESS" THEN "record" ELSE "schedule"
  OBVIOUS
<1>2. /\ pc' = [pc EXCEPT ![h] = at] /\ on' = [on EXCEPT ![h] = d]
      /\ byHand' = byHand /\ parent' = parent /\ queue' = queue /\ deaths' = deaths /\ wallet' = wallet
      /\ retryCount' = retryCount /\ recorded' = recorded /\ owing' = owing /\ working' = working
      /\ status' = [status EXCEPT ![d] = result]
      /\ retryIn' = [retryIn EXCEPT ![d] = IF result = "SUCCESS" THEN Never ELSE retryIn[d]]
  BY <1>1 DEF Settle, GoTo, IInv, TypeOK
<1>3. TypeOK'
  <2>1. status' \in [Debits -> {"none", "PENDING", "SUCCESS", "FAILED", "NEEDS_REVIEW"}]
    BY <1>2 DEF IInv, TypeOK
  <2>2. retryIn' \in [Debits -> 0..7 \cup {Never}]
    BY <1>2 DEF IInv, TypeOK
  <2>3. on' \in [Handlers -> 0..MaxDebits]
    BY <1>2, BoundsAssumption DEF IInv, TypeOK, Debits
  <2>4. QED
    BY <1>2, <2>1, <2>2, <2>3 DEF IInv, TypeOK
<1>4. \A e \in Debits \ {d} : status'[e] = status[e] /\ retryIn'[e] = retryIn[e]
  BY <1>2 DEF IInv, TypeOK
<1>5. retryIn'[d] \in {retryIn[d], Never} /\ status'[d] = result
  BY <1>2 DEF IInv, TypeOK
<1>6. at \in {"schedule", "record"} /\ (at = "schedule" => status[d] = "PENDING")
  BY <1>1
<1>7. QED
  BY <1>2, <1>3, <1>4, <1>5, <1>6, TakesUp

LEMMA CallRefusedStep ==
  ASSUME IInv, CallRefused
  PROVE  IInv'
<1>1. /\ Run \in Handlers /\ pc[Run] = "call" /\ on[Run] \in Debits /\ status[on[Run]] = "PENDING"
      /\ Settle(Run, on[Run], "FAILED") /\ UNCHANGED wallet
  BY DEF CallRefused, IInv, HasDebit, RunHoldsRow, Handlers
<1>2. QED
  BY <1>1, SettleStep

LEMMA ReceiveStep ==
  ASSUME IInv, NEW h \in Callbacks, NEW d \in Debits, ReceiveSuccess(h, d) \/ ReceiveFailure(h, d)
  PROVE  IInv'
<1>1. h \in Handlers /\ Run \in Handlers
  BY DEF Handlers
<1>2. CASE ReceiveSuccess(h, d)
  <2>1. d = on[Run] => pc[Run] \notin {"callOff", "call"}
    BY <1>2 DEF ReceiveSuccess, IInv, RunHoldsRow
  <2>2. QED
    BY <1>1, <1>2, <2>1, SettleStep DEF ReceiveSuccess
<1>3. CASE ReceiveFailure(h, d)
  BY <1>1, <1>3, SettleStep DEF ReceiveFailure
<1>4. QED
  BY <1>2, <1>3

LEMMA RetryUnrecordedStep ==
  ASSUME IInv, NEW h \in Callbacks, NEW d \in Debits, RetryUnrecorded(h, d)
  PROVE  IInv'
<1>1. /\ pc' = [pc EXCEPT ![h] = "record"] /\ on' = [on EXCEPT ![h] = d]
      /\ status' = status /\ retryIn' = retryIn /\ pc[h] = "idle" /\ status[d] = "SUCCESS"
      /\ byHand' = byHand /\ parent' = parent /\ queue' = queue /\ deaths' = deaths /\ wallet' = wallet
      /\ retryCount' = retryCount /\ recorded' = recorded /\ owing' = owing /\ working' = working
      /\ h \in Handlers /\ d # on[Run]
  BY DEF RetryUnrecorded, GoTo, rowVars, Handlers
<1>2. on' \in [Handlers -> 0..MaxDebits]
  BY <1>1, BoundsAssumption DEF IInv, TypeOK, Debits
<1>3. TypeOK'
  BY <1>1, <1>2 DEF IInv, TypeOK
<1>4. QED
  BY <1>1, <1>3, TakesUp

-----------------------------------------------------------------------------
(* The chain of retries: dated, listed, looked at, created, called off. *)

LEMMA ScheduleStep ==
  ASSUME IInv, NEW h \in Handlers, Schedule(h)
  PROVE  IInv'
<1>1. /\ status' = status /\ byHand' = byHand /\ parent' = parent /\ wallet' = wallet
      /\ recorded' = recorded /\ owing' = owing /\ working' = working
      /\ queue' = queue /\ deaths' = deaths /\ pc[h] = "schedule" /\ Proceed(h)
      /\ on[h] \in Debits /\ Run \in Handlers
  BY DEF Schedule, IInv, HasDebit, Handlers
<1>2. PICK at \in {"idle", "list", "retries"} : pc' = [pc EXCEPT ![h] = at]
  BY <1>1, ProceedFacts
<1>3. deaths' \in Nat /\ deaths' >= deaths
  BY <1>1 DEF IInv, HasDebit
<1>4. CASE ~(retryCount[on[h]] < Len(RetryScheduleDays))
  <2>1. retryCount' = retryCount /\ retryIn' = retryIn
    BY <1>4 DEF Schedule
  <2>2. TypeOK'
    BY <1>1, <2>1, ProceedFacts DEF IInv, TypeOK
  <2>3. QED
    BY <1>1, <1>2, <1>3, <2>1, <2>2, ProceedFacts, Passes
<1>5. CASE retryCount[on[h]] < Len(RetryScheduleDays)
  <2> DEFINE d == on[h]
  <2>1. PICK days : days = RetryScheduleDays[retryCount[d] + 1]
    OBVIOUS
  <2>2. days \in 1..7 /\ retryCount[d] + 1 \in 0..Len(RetryScheduleDays)
    BY <1>1, <1>5, <2>1, RetryScheduleAssumption DEF IInv, TypeOK
  <2>3. /\ retryCount' = [retryCount EXCEPT ![d] = retryCount[d] + 1]
        /\ retryIn' = [retryIn EXCEPT ![d] = days]
    BY <1>1, <1>5, <2>1 DEF Schedule, IInv, TypeOK
  <2>4. TypeOK'
    <3>1. retryCount' \in [Debits -> 0..Len(RetryScheduleDays)]
      BY <1>1, <2>2, <2>3 DEF IInv, TypeOK
    <3>2. retryIn' \in [Debits -> 0..7 \cup {Never}]
      BY <1>1, <2>2, <2>3 DEF IInv, TypeOK
    <3>3. QED
      BY <1>1, <3>1, <3>2, ProceedFacts DEF IInv, TypeOK
  <2>5. /\ pc'[h] = at /\ \A g \in Handlers \ {h} : pc'[g] = pc[g] /\ on'[g] = on[g]
        /\ pc' \in [Handlers -> Places]
        /\ \A e \in Debits \ {d} : retryIn'[e] = retryIn[e]
    BY <1>1, <1>2, <2>3, ProceedFacts DEF IInv, HasDebit, TypeOK, Places
  <2>6. HasDebit'
    BY <1>3, <2>5 DEF IInv, HasDebit
  <2>7. AsksAlone'
    BY <1>1, <2>5 DEF IInv, AsksAlone
  <2>8. ASSUME NEW e \in Debits
        PROVE  /\ Kids(e)' = Kids(e)
               /\ Creating(e)' => Creating(e)
               /\ CallingOff(e) => CallingOff(e)'
               /\ Scheduling(e)' => Scheduling(e) /\ e # d
    <3>1. Kids(e)' = Kids(e) /\ (Creating(e)' => Creating(e)) /\ (CallingOff(e) => CallingOff(e)')
      BY <1>1, <2>5 DEF Kids, Creating, CallingOff
    <3>2. Scheduling(e)' => Scheduling(e) /\ e # d
      BY <1>1, <2>5 DEF Scheduling, IInv, SchedulesAlone
    <3>3. QED
      BY <3>1, <3>2
  <2>9. Scheduling(d) /\ status[d] \notin {"none", "PENDING"}
    BY <1>1 DEF Scheduling, IInv, Answered
  <2>10. \A e \in Debits \ {d} : Untried(e) => Untried(e)'
    BY <1>1, <2>5, <2>8 DEF Untried
  <2>11. NotYetRetried'
    BY <1>1, <2>8, <2>9, <2>10 DEF IInv, NotYetRetried
  <2>12. Answered' /\ SchedulesAlone'
    BY <1>1, <2>5 DEF IInv, Answered, SchedulesAlone
  <2>13. RunHoldsRow'
    BY <1>1, <2>5 DEF IInv, RunHoldsRow
  <2>14. Kids(d) = {}
    BY <1>1, <2>9 DEF IInv, NotYetRetried, Untried
  <2>15. RetriesLeft' /\ RetriedAtMost'
    <3>1. ASSUME NEW e \in Debits, MayRetry(e)', ~CallingOff(e)', e # d
          PROVE  MayRetry(e) /\ ~CallingOff(e)
      BY <1>1, <2>5, <2>8, <3>1 DEF MayRetry
    <3>2. QED
      BY <1>1, <1>3, <2>14, <3>1, CountsKept
  <2>16. QED
    BY <2>4, <2>6, <2>7, <2>11, <2>12, <2>13, <2>15 DEF IInv
<1>6. QED
  BY <1>4, <1>5

LEMMA ListRetriesStep ==
  ASSUME IInv, ListRetries
  PROVE  IInv'
<1>1. /\ status' = status /\ byHand' = byHand /\ parent' = parent /\ retryIn' = retryIn
      /\ retryCount' = retryCount /\ recorded' = recorded /\ owing' = owing /\ working' = working
      /\ deaths' = deaths /\ wallet' = wallet /\ on' = on /\ pc[Run] = "list" /\ Run \in Handlers
      /\ pc' = [pc EXCEPT ![Run] = "retries"]
      /\ queue' = {d \in Debits : status[d] = "FAILED" /\ retryIn[d] = 0}
  BY DEF ListRetries, GoTo, rowVars, Handlers
<1>2. TypeOK'
  BY <1>1 DEF IInv, TypeOK
<1>3. /\ pc'[Run] = "retries" /\ \A g \in Handlers \ {Run} : pc'[g] = pc[g]
      /\ pc' \in [Handlers -> Places]
  BY <1>1 DEF IInv, HasDebit, Places
<1>4. HasDebit' /\ AsksAlone' /\ Answered' /\ SchedulesAlone' /\ RunHoldsRow'
  BY <1>1, <1>3 DEF IInv, HasDebit, AsksAlone, Answered, SchedulesAlone, RunHoldsRow
<1>5. ASSUME NEW e \in Debits
      PROVE  /\ Kids(e)' = Kids(e) /\ ~Creating(e)' /\ ~CallingOff(e)
             /\ Scheduling(e)' => Scheduling(e)
             /\ e \in queue' => status[e] = "FAILED" /\ retryIn[e] # Never
  <2>1. Scheduling(e)' => Scheduling(e)
    BY <1>1, <1>3 DEF Scheduling
  <2>2. e \in queue' => status[e] = "FAILED" /\ retryIn[e] # Never
    BY <1>1 DEF Never
  <2>3. QED
    BY <1>1, <1>3, <2>1, <2>2 DEF Kids, Creating, CallingOff
<1>6. \A e \in Debits : Untried(e) => Untried(e)'
  BY <1>1, <1>5 DEF Untried
<1>7. NotYetRetried'
  BY <1>1, <1>5, <1>6 DEF IInv, NotYetRetried
<1>8. \A e \in Debits : MayRetry(e)' => MayRetry(e)
  BY <1>1, <1>5 DEF MayRetry
<1>9. RetriesLeft' /\ RetriedAtMost'
  BY <1>1, <1>5, <1>8, CountsKept DEF IInv, HasDebit
<1>10. QED
  BY <1>2, <1>4, <1>7, <1>9 DEF IInv

\* A listed debit was answered, and nobody schedules it any more.
LEMMA ListedIsDone ==
  ASSUME IInv, NEW d \in queue
  PROVE  d \in Debits /\ status[d] \notin {"none", "PENDING"} /\ ~Scheduling(d)
  BY DEF IInv, TypeOK, NotYetRetried, Untried

LEMMA LookAtRetryStep ==
  ASSUME IInv, NEW d \in Debits, LookAtRetry(d)
  PROVE  IInv'
<1>1. /\ status' = status /\ byHand' = byHand /\ parent' = parent /\ retryCount' = retryCount
      /\ recorded' = recorded /\ owing' = owing /\ working' = working
      /\ deaths' = deaths /\ wallet' = wallet /\ pc[Run] = "retries" /\ Run \in Handlers
      /\ d \in queue /\ queue' = queue \ {d}
      /\ \/ retryIn' \in {retryIn, [retryIn EXCEPT ![d] = Never]} /\ pc' = pc /\ on' = on
         \/ /\ \A e \in Debits : status[e] # "PENDING"
            /\ pc' = [pc EXCEPT ![Run] = "create"] /\ on' = [on EXCEPT ![Run] = d]
            /\ retryIn' = retryIn
  BY DEF LookAtRetry, GoTo, Handlers
<1>2. TypeOK'
  <2>1. on' \in [Handlers -> 0..MaxDebits]
    <3>1. d \in 0..MaxDebits /\ on' \in {on, [on EXCEPT ![Run] = d]}
      BY <1>1, BoundsAssumption DEF Debits
    <3>2. QED
      BY <3>1 DEF IInv, TypeOK
  <2>2. retryIn' \in [Debits -> 0..7 \cup {Never}]
    BY <1>1 DEF IInv, TypeOK
  <2>3. queue' \subseteq Debits
    BY <1>1 DEF IInv, TypeOK
  <2>4. QED
    BY <1>1, <2>1, <2>2, <2>3 DEF IInv, TypeOK
<1>3. /\ pc'[Run] \in {"retries", "create"}
      /\ pc'[Run] = "create" => on'[Run] = d /\ \A e \in Debits : status[e] # "PENDING"
      /\ \A g \in Handlers \ {Run} : pc'[g] = pc[g] /\ on'[g] = on[g]
      /\ pc' \in [Handlers -> Places]
  BY <1>1 DEF IInv, HasDebit, TypeOK, Places
<1>4. HasDebit'
  BY <1>1, <1>3 DEF IInv, HasDebit
<1>5. AsksAlone' /\ Answered' /\ SchedulesAlone' /\ RunHoldsRow'
  BY <1>1, <1>3 DEF IInv, AsksAlone, Answered, SchedulesAlone, RunHoldsRow
<1>6. \A e \in Debits : retryIn'[e] \in {retryIn[e], Never}
  BY <1>1 DEF IInv, TypeOK
<1>7. ASSUME NEW e \in Debits
      PROVE  /\ Kids(e)' = Kids(e) /\ ~CallingOff(e)
             /\ Creating(e)' => e = d
             /\ Scheduling(e)' => Scheduling(e)
  <2>1. Scheduling(e)' => Scheduling(e)
    BY <1>1, <1>3 DEF Scheduling
  <2>2. QED
    BY <1>1, <1>3, <2>1 DEF Kids, Creating, CallingOff
<1>8. \A e \in Debits \ {d} : Untried(e) => Untried(e)'
  BY <1>1, <1>6, <1>7 DEF Untried
<1>9. status[d] \notin {"none", "PENDING"} /\ ~Scheduling(d)
  BY <1>1, ListedIsDone
<1>10. NotYetRetried'
  BY <1>1, <1>7, <1>8, <1>9 DEF IInv, NotYetRetried
<1>11. \A e \in Debits : MayRetry(e)' => MayRetry(e)
  BY <1>1, <1>6, <1>7 DEF MayRetry
<1>12. RetriesLeft' /\ RetriedAtMost'
  BY <1>1, <1>7, <1>11, CountsKept DEF IInv, HasDebit
<1>13. QED
  BY <1>2, <1>4, <1>5, <1>10, <1>12 DEF IInv

LEMMA CallOffStep ==
  ASSUME IInv, CallOff
  PROVE  IInv'
<1>1. PICK p : p = parent[on[Run]]
  OBVIOUS
<1>2. /\ status' = status /\ byHand' = byHand /\ parent' = parent /\ retryCount' = retryCount
      /\ recorded' = recorded /\ owing' = owing /\ working' = working
      /\ deaths' = deaths /\ wallet' = wallet /\ pc[Run] = "callOff" /\ Run \in Handlers
      /\ on' = on /\ queue' = queue /\ p \in Debits \ queue
      /\ retryIn' = [retryIn EXCEPT ![p] = Never]
      /\ pc' = [pc EXCEPT ![Run] = "call"]
  BY <1>1 DEF CallOff, GoTo, Handlers, IInv, RunHoldsRow
<1>3. \A e \in Debits : retryIn'[e] \in {retryIn[e], Never}
  BY <1>2 DEF IInv, TypeOK
<1>4. TypeOK'
  <2>1. retryIn' \in [Debits -> 0..7 \cup {Never}]
    BY <1>2 DEF IInv, TypeOK
  <2>2. QED
    BY <1>2, <2>1 DEF IInv, TypeOK
<1>5. /\ pc'[Run] = "call" /\ \A g \in Handlers \ {Run} : pc'[g] = pc[g]
      /\ pc' \in [Handlers -> Places]
  BY <1>2 DEF IInv, HasDebit, Places
<1>6. HasDebit' /\ AsksAlone' /\ Answered' /\ SchedulesAlone' /\ RunHoldsRow'
  BY <1>2, <1>5 DEF IInv, HasDebit, AsksAlone, Answered, SchedulesAlone, RunHoldsRow
<1>7. ASSUME NEW e \in Debits
      PROVE  /\ Kids(e)' = Kids(e) /\ ~Creating(e)'
             /\ CallingOff(e) => e = p
             /\ Scheduling(e)' => Scheduling(e)
  <2>1. Scheduling(e)' => Scheduling(e)
    BY <1>2, <1>5 DEF Scheduling
  <2>2. QED
    BY <1>1, <1>2, <1>5, <2>1 DEF Kids, Creating, CallingOff
<1>8. \A e \in Debits : Untried(e) => Untried(e)'
  BY <1>2, <1>3, <1>7 DEF Untried
<1>9. NotYetRetried'
  BY <1>2, <1>7, <1>8 DEF IInv, NotYetRetried
<1>10. \A e \in Debits : MayRetry(e)' => MayRetry(e) /\ ~CallingOff(e)
  <2>1. retryIn'[p] = Never
    BY <1>2 DEF IInv, TypeOK
  <2>2. QED
    BY <1>2, <1>3, <1>7, <2>1 DEF MayRetry
<1>11. RetriesLeft' /\ RetriedAtMost'
  BY <1>2, <1>10, CountsKept DEF IInv, HasDebit
<1>12. QED
  BY <1>4, <1>6, <1>9, <1>11 DEF IInv

-----------------------------------------------------------------------------
(* A new row, by staff or by the run. *)

ByStaff(d, replaces) ==
    replaces = 0 /\ byHand' = byHand \cup {d} /\ pc' = pc /\ on' = on

ByRun(d, replaces) ==
    /\ byHand' = byHand
    /\ on' = [on EXCEPT ![Run] = d]
    /\ \/ replaces = 0 /\ pc[Run] = "charge" /\ pc' = [pc EXCEPT ![Run] = "call"]
       \/ replaces = on[Run] /\ pc[Run] = "create" /\ pc' = [pc EXCEPT ![Run] = "callOff"]

LEMMA Creates ==
  ASSUME IInv, NEW d \in Debits, NEW replaces, TypeOK',
         status[d] = "none", status' = [status EXCEPT ![d] = "PENDING"],
         parent' = [parent EXCEPT ![d] = replaces], retryIn' = retryIn, queue' = queue,
         deaths' = deaths,
         \A e \in Debits \ {d} : wallet'[e] = wallet[e],
         ByStaff(d, replaces) \/ (ByRun(d, replaces) /\ wallet' = wallet)
  PROVE  IInv'
<1>1. /\ Run \in Handlers /\ \A g \in Handlers \ {Run} : pc'[g] = pc[g] /\ on'[g] = on[g]
      /\ ByRun(d, replaces) => on'[Run] = d /\ pc'[Run] \in {"call", "callOff"}
      /\ pc' \in [Handlers -> Places]
  BY DEF ByStaff, ByRun, IInv, HasDebit, TypeOK, Handlers, Places
<1>2. HasDebit'
  BY <1>1 DEF IInv, HasDebit, ByStaff, ByRun
<1>3. /\ status'[d] = "PENDING" /\ parent'[d] = replaces
      /\ \A e \in Debits \ {d} : status'[e] = status[e] /\ parent'[e] = parent[e]
  BY DEF IInv, TypeOK
<1>4. Untried(d) /\ ~Scheduling(d) /\ wallet[d] = "untouched"
  BY DEF IInv, NotYetRetried
<1>5. ByRun(d, replaces) /\ replaces # 0 =>
         replaces \in Debits \ queue /\ Creating(replaces) /\ replaces # d
  BY <1>1, <1>4 DEF ByRun, Creating, Untried, IInv, HasDebit, RunHoldsRow
<1>6. AsksAlone'
  BY <1>1, <1>3 DEF ByStaff, ByRun, IInv, AsksAlone
<1>7. RunHoldsRow'
  <2>1. CASE ByStaff(d, replaces)
    <3>1. pc[Run] \in {"callOff", "call"} => on[Run] \in Debits \ {d}
      BY DEF IInv, HasDebit, RunHoldsRow, Handlers
    <3>2. QED
      BY <1>3, <2>1, <3>1 DEF ByStaff, IInv, RunHoldsRow
  <2>2. CASE ByRun(d, replaces) /\ wallet' = wallet
    <3>1. on'[Run] = d /\ pc'[Run] \in {"call", "callOff"}
          /\ (pc'[Run] = "callOff" => replaces \in Debits \ queue)
      BY <1>1, <2>2 DEF ByRun, IInv, HasDebit, RunHoldsRow
    <3>2. QED
      BY <1>3, <1>4, <2>2, <3>1 DEF RunHoldsRow
  <2>3. QED
    BY <2>1, <2>2
<1>8. ASSUME NEW e \in Debits
      PROVE  /\ Scheduling(e)' => Scheduling(e)
             /\ Creating(e)' => Creating(e)
             /\ Kids(e)' \subseteq Kids(e) \cup {d}
             /\ e # replaces => Kids(e)' \subseteq Kids(e)
             /\ CallingOff(e) => CallingOff(e)'
             /\ ByRun(d, replaces) /\ e = replaces => CallingOff(e)'
  <2>1. Scheduling(e)' => Scheduling(e)
    BY <1>1 DEF Scheduling, ByStaff, ByRun
  <2>2. Creating(e)' => Creating(e)
    BY <1>1 DEF Creating, ByStaff, ByRun
  <2>3. Kids(e)' \subseteq Kids(e) \cup {d} /\ (e # replaces => Kids(e)' \subseteq Kids(e))
    BY <1>3 DEF Kids
  <2>4. CallingOff(e) => CallingOff(e)'
    <3>1. pc[Run] = "callOff" => on[Run] \in Debits \ {d}
      BY DEF IInv, HasDebit, RunHoldsRow, Handlers
    <3>2. QED
      BY <1>3, <3>1 DEF CallingOff, ByStaff, ByRun
  <2>5. ByRun(d, replaces) /\ e = replaces => CallingOff(e)'
    <3>1. ByRun(d, replaces) /\ e = replaces => pc'[Run] = "callOff"
      BY <1>1, BoundsAssumption DEF ByRun, Debits, IInv, HasDebit
    <3>2. QED
      BY <1>1, <1>3, <3>1 DEF CallingOff
  <2>6. QED
    BY <2>1, <2>2, <2>3, <2>4, <2>5
<1>9. ASSUME NEW e \in Debits, Untried(e)
      PROVE  Untried(e)'
  <2>1. e # replaces
    BY <1>5, <1>9, BoundsAssumption DEF Untried, ByStaff, Debits
  <2>2. QED
    BY <1>8, <1>9, <2>1 DEF Untried
<1>10. NotYetRetried'
  BY <1>3, <1>4, <1>8, <1>9 DEF IInv, NotYetRetried
<1>11. ASSUME NEW g \in Handlers, pc'[g] \in {"schedule", "record"}
       PROVE  pc[g] = pc'[g] /\ on[g] = on'[g] /\ on[g] \in Debits
  BY <1>1, <1>11 DEF ByStaff, ByRun, IInv, HasDebit
<1>12. Answered' /\ SchedulesAlone'
  BY <1>3, <1>11 DEF IInv, Answered, SchedulesAlone
<1>13. ASSUME NEW e \in Debits
       PROVE  /\ Cardinality(Kids(e)') <= 1 + Cardinality(Kids(e))
              /\ e # replaces => Cardinality(Kids(e)') <= Cardinality(Kids(e))
              /\ Cardinality(Kids(e)) \in Nat /\ Cardinality(Kids(e)') \in Nat
  <2>1. IsFiniteSet(Kids(e)) /\ Cardinality(Kids(e)) \in Nat
    BY KidsFinite
  <2>2. /\ IsFiniteSet(Kids(e) \cup {d})
        /\ Cardinality(Kids(e) \cup {d}) \in {Cardinality(Kids(e)), Cardinality(Kids(e)) + 1}
    BY <2>1, FS_AddElement
  <2>3. IsFiniteSet(Kids(e)') /\ Cardinality(Kids(e)') <= Cardinality(Kids(e) \cup {d})
    BY <1>8, <2>2, FS_Subset
  <2>4. e # replaces => Cardinality(Kids(e)') <= Cardinality(Kids(e))
    BY <1>8, <2>1, FS_Subset
  <2>5. Cardinality(Kids(e)') \in Nat
    BY <2>3, FS_CardinalityType
  <2>6. QED
    BY <2>1, <2>2, <2>3, <2>4, <2>5
<1>14. deaths \in Nat /\ deaths' = deaths
  BY DEF IInv, HasDebit
<1>15. RetriedAtMost'
  <2>1. ASSUME NEW e \in Debits
        PROVE  Cardinality(Kids(e)') <= 1 + deaths
    <3>1. CASE e # replaces
      BY <1>13, <1>14, <3>1 DEF IInv, RetriedAtMost
    <3>2. CASE e = replaces
      <4>1. Creating(e)
        BY <1>5, <3>2, BoundsAssumption DEF ByStaff, Debits
      <4>2. MayRetry(e) /\ ~CallingOff(e)
        BY <4>1 DEF MayRetry, Creating, CallingOff
      <4>3. QED
        BY <1>13, <1>14, <4>2 DEF IInv, RetriesLeft
    <3>3. QED
      BY <3>1, <3>2
  <2>2. QED
    BY <1>14, <2>1 DEF RetriedAtMost
<1>16. RetriesLeft'
  <2>1. ASSUME NEW e \in Debits, MayRetry(e)', ~CallingOff(e)'
        PROVE  Cardinality(Kids(e)') <= deaths
    <3>1. MayRetry(e) /\ ~CallingOff(e) /\ e # replaces
      BY <1>8, <2>1, BoundsAssumption DEF MayRetry, ByStaff, Debits
    <3>2. QED
      BY <1>13, <1>14, <3>1 DEF IInv, RetriesLeft
  <2>2. QED
    BY <1>14, <2>1 DEF RetriesLeft
<1>17. QED
  BY <1>2, <1>6, <1>7, <1>10, <1>12, <1>15, <1>16 DEF IInv

LEMMA CreateRowFacts ==
  ASSUME IInv, NEW replaces \in 0..MaxDebits, NEW hand \in BOOLEAN, CreateRow(replaces, hand),
         NEW e \in Debits, status'[e] # status[e]
  PROVE  /\ status[e] = "none" /\ status' = [status EXCEPT ![e] = "PENDING"]
         /\ byHand' = IF hand THEN byHand \cup {e} ELSE byHand
         /\ parent' = [parent EXCEPT ![e] = replaces]
         /\ on' = IF hand THEN on ELSE [on EXCEPT ![Run] = e]
         /\ retryIn' = retryIn
         /\ retryCount' \in [Debits -> 0..Len(RetryScheduleDays)]
<1>1. PICK d \in Debits :
        /\ status[d] = "none" /\ status' = [status EXCEPT ![d] = "PENDING"]
        /\ byHand' = IF hand THEN byHand \cup {d} ELSE byHand
        /\ parent' = [parent EXCEPT ![d] = replaces]
        /\ retryCount' = [retryCount EXCEPT ![d] = IF replaces = 0 THEN 0 ELSE retryCount[replaces]]
        /\ on' = IF hand THEN on ELSE [on EXCEPT ![Run] = d]
        /\ retryIn' = retryIn
  <2>1. \A d \in Debits : (\A x \in Debits : status[x] = "none" <=> x >= d) => status[d] = "none"
    BY BoundsAssumption DEF Debits
  <2>2. QED
    BY <2>1 DEF CreateRow
<1>2. d = e
  BY <1>1 DEF IInv, TypeOK
<1>3. PICK count : count = IF replaces = 0 THEN 0 ELSE retryCount[replaces]
  OBVIOUS
<1>4. count \in 0..Len(RetryScheduleDays)
  <2>1. Len(RetryScheduleDays) \in Nat
    BY RetryScheduleAssumption
  <2>2. replaces # 0 => replaces \in Debits
    BY BoundsAssumption DEF Debits
  <2>3. QED
    BY <1>3, <2>1, <2>2 DEF IInv, TypeOK
<1>5. retryCount' \in [Debits -> 0..Len(RetryScheduleDays)]
  BY <1>1, <1>3, <1>4 DEF IInv, TypeOK
<1>6. QED
  BY <1>1, <1>2, <1>5

\* A created row is somebody's.
LEMMA CreatesSome ==
  ASSUME IInv, NEW replaces, NEW hand, CreateRow(replaces, hand)
  PROVE  \E e \in Debits : status'[e] # status[e]
<1>1. PICK d \in Debits : /\ \A x \in Debits : status[x] = "none" <=> x >= d
                          /\ status' = [status EXCEPT ![d] = "PENDING"]
  BY DEF CreateRow
<1>2. status[d] = "none"
  BY <1>1, BoundsAssumption DEF Debits
<1>3. QED
  BY <1>1, <1>2 DEF IInv, TypeOK

LEMMA NewRowTypes ==
  ASSUME IInv, NEW replaces \in 0..MaxDebits, NEW hand \in BOOLEAN, CreateRow(replaces, hand),
         wallet' \in [Debits -> {"untouched", "asked", "taken"}],
         UNCHANGED <<recorded, owing, working, queue>>
  PROVE  TypeOK'
<1>1. PICK e \in Debits : status'[e] # status[e]
  BY CreatesSome
<1>2. /\ status' = [status EXCEPT ![e] = "PENDING"]
      /\ byHand' = IF hand THEN byHand \cup {e} ELSE byHand
      /\ parent' = [parent EXCEPT ![e] = replaces]
      /\ on' = IF hand THEN on ELSE [on EXCEPT ![Run] = e]
      /\ retryCount' \in [Debits -> 0..Len(RetryScheduleDays)] /\ retryIn' = retryIn
  BY <1>1, CreateRowFacts
<1>3. status' \in [Debits -> {"none", "PENDING", "SUCCESS", "FAILED", "NEEDS_REVIEW"}]
  BY <1>2 DEF IInv, TypeOK
<1>4. parent' \in [Debits -> 0..MaxDebits] /\ byHand' \subseteq Debits
  BY <1>2 DEF IInv, TypeOK
<1>5. on' \in [Handlers -> 0..MaxDebits]
  <2>1. e \in 0..MaxDebits
    BY BoundsAssumption DEF Debits
  <2>2. QED
    BY <1>2, <2>1 DEF IInv, TypeOK
<1>6. QED
  BY <1>2, <1>3, <1>4, <1>5 DEF IInv, TypeOK

LEMMA StaffChargeStep ==
  ASSUME IInv, StaffCharge
  PROVE  IInv'
<1>1. /\ CreateRow(0, TRUE)
      /\ UNCHANGED <<recorded, owing, working, queue>> /\ pc' = pc /\ deaths' = deaths
  BY DEF StaffCharge
<1>2. PICK d \in Debits : /\ status'[d] # status[d]
                          /\ wallet' \in {wallet, [wallet EXCEPT ![d] = "asked"]}
  BY DEF StaffCharge
<1>3. /\ wallet' \in [Debits -> {"untouched", "asked", "taken"}]
      /\ \A e \in Debits \ {d} : wallet'[e] = wallet[e]
  BY <1>2 DEF IInv, TypeOK
<1>4. 0 \in 0..MaxDebits
  BY BoundsAssumption
<1>5. TypeOK'
  BY <1>1, <1>3, <1>4, NewRowTypes
<1>6. /\ status[d] = "none" /\ status' = [status EXCEPT ![d] = "PENDING"]
      /\ parent' = [parent EXCEPT ![d] = 0] /\ retryIn' = retryIn
      /\ ByStaff(d, 0)
  BY <1>1, <1>2, <1>4, CreateRowFacts DEF ByStaff
<1>7. QED
  BY <1>1, <1>3, <1>5, <1>6, Creates

LEMMA ChargeStep ==
  ASSUME IInv, Charge
  PROVE  IInv'
<1>1. CASE ChargeRefused
  BY <1>1, LooksStep
<1>2. CASE CreateRow(0, FALSE) /\ GoTo(Run, "call")
  <2>1. /\ CreateRow(0, FALSE) /\ pc[Run] = "charge" /\ pc' = [pc EXCEPT ![Run] = "call"]
        /\ UNCHANGED <<recorded, owing, working, queue>> /\ wallet' = wallet /\ deaths' = deaths
    BY <1>2 DEF Charge, GoTo
  <2>2. PICK d \in Debits : status'[d] # status[d]
    BY <2>1, CreatesSome
  <2>3. 0 \in 0..MaxDebits
    BY BoundsAssumption
  <2>4. TypeOK'
    BY <2>1, <2>3, NewRowTypes DEF IInv, TypeOK
  <2>5. /\ status[d] = "none" /\ status' = [status EXCEPT ![d] = "PENDING"]
        /\ parent' = [parent EXCEPT ![d] = 0] /\ retryIn' = retryIn
        /\ ByRun(d, 0)
    BY <2>1, <2>2, <2>3, CreateRowFacts DEF ByRun
  <2>6. QED
    BY <2>1, <2>4, <2>5, Creates
<1>3. QED
  BY <1>1, <1>2 DEF Charge, ChargeRefused

LEMMA CreateRetryStep ==
  ASSUME IInv, CreateRetry
  PROVE  IInv'
<1>1. /\ CreateRow(on[Run], FALSE) /\ pc[Run] = "create" /\ pc' = [pc EXCEPT ![Run] = "callOff"]
      /\ UNCHANGED <<recorded, owing, working, queue>> /\ wallet' = wallet /\ deaths' = deaths
  BY DEF CreateRetry, GoTo
<1>2. PICK d \in Debits : status'[d] # status[d]
  BY <1>1, CreatesSome
<1>3. on[Run] \in 0..MaxDebits
  BY DEF IInv, TypeOK, Handlers
<1>4. TypeOK'
  BY <1>1, <1>3, NewRowTypes DEF IInv, TypeOK
<1>5. /\ status[d] = "none" /\ status' = [status EXCEPT ![d] = "PENDING"]
      /\ parent' = [parent EXCEPT ![d] = on[Run]] /\ retryIn' = retryIn
      /\ ByRun(d, on[Run])
  BY <1>1, <1>2, <1>3, CreateRowFacts DEF ByRun
<1>6. QED
  BY <1>1, <1>4, <1>5, Creates

-----------------------------------------------------------------------------
LEMMA RunStepKeeps == IInv /\ RunStep => IInv'
  BY LooksStep, ChargeStep, CallRefusedStep, CallTakenStep, ListRetriesStep, LookAtRetryStep,
     CreateRetryStep, CallOffStep DEF RunStep

LEMMA NextKeeps == IInv /\ Next => IInv'
  BY NextDayStep, ContractMovesStep, RunStepKeeps, ScheduleStep, RecordStep, DieStep, WalletStep,
     StaffChargeStep, ReceiveStep, RetryUnrecordedStep DEF Next, Step

LEMMA StutterKeeps ==
  ASSUME IInv, UNCHANGED vars
  PROVE  IInv'
<1>1. /\ status' = status /\ byHand' = byHand /\ parent' = parent /\ wallet' = wallet
      /\ retryIn' = retryIn /\ pc' = pc /\ on' = on /\ queue' = queue /\ deaths' = deaths
  BY DEF vars, rowVars, handlerVars
<1>2. TypeOK'
  BY DEF vars, rowVars, handlerVars, IInv, TypeOK
<1>3. HasDebit' /\ AsksAlone' /\ Answered' /\ SchedulesAlone' /\ RunHoldsRow'
  BY <1>1 DEF IInv, HasDebit, AsksAlone, Answered, SchedulesAlone, RunHoldsRow
<1>4. \A d \in Debits : /\ Kids(d)' = Kids(d) /\ Creating(d)' = Creating(d)
                        /\ CallingOff(d)' = CallingOff(d) /\ Scheduling(d)' = Scheduling(d)
  BY <1>1 DEF Kids, Creating, CallingOff, Scheduling
<1>5. NotYetRetried'
  BY <1>1, <1>4 DEF IInv, NotYetRetried, Untried
<1>6. RetriesLeft' /\ RetriedAtMost'
  BY <1>1, <1>4, CountsKept DEF MayRetry, IInv, HasDebit
<1>7. QED
  BY <1>2, <1>3, <1>5, <1>6 DEF IInv

LEMMA Invariance == Spec => []IInv
<1>1. IInv /\ [Next]_vars => IInv'
  BY NextKeeps, StutterKeeps
<1>2. QED
  BY InitIInv, <1>1, PTL DEF Spec

\* Every row, list and handler of the direct debits stays in its type: a retry's date and
\* count are of the schedule there is, and the run's list holds debits.
THEOREM TypeCorrect == Spec => []TypeOK
<1>1. IInv => TypeOK
  BY DEF IInv
<1>2. QED
  BY Invariance, <1>1, PTL

\* Over any days, deaths, late answers and charges by hand, what the morning run
\* (runDirectDebitCollections, retryFailedDirectDebits) asked for by itself waits for one
\* answer at most.
THEOREM WaitsForOneAnswer == Spec => []OneUnanswered
<1>1. ASSUME IInv
      PROVE  OneUnanswered
  <2> DEFINE Waiting == {d \in Debits \ byHand : status[d] = "PENDING"}
  <2>1. CASE Waiting = {}
    BY <2>1, FS_EmptySet DEF OneUnanswered
  <2>2. CASE Waiting # {}
    <3>1. PICK d : d \in Waiting
      BY <2>2
    <3>2. Waiting = {d}
      BY <1>1, <3>1 DEF IInv, AsksAlone
    <3>3. QED
      BY <3>2, FS_Singleton DEF OneUnanswered
  <2>3. QED
    BY <2>1, <2>2
<1>2. QED
  BY Invariance, <1>1, PTL

\* A bounced debit is followed by one retry (retryFailedDirectDebits and the calling off of
\* nextRetryAt), and by one more only for each handler that died.
THEOREM BouncedIsRetriedOnce == Spec => []RetriedOnce
<1>1. IInv => RetriedOnce
  BY DEF IInv, RetriedAtMost, RetriedOnce, Kids
<1>2. QED
  BY Invariance, <1>1, PTL
=============================================================================

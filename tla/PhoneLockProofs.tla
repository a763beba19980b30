---------------------------- MODULE PhoneLockProofs ----------------------------
(***************************************************************************)
(* For any horizon and any number of sends that fail and handlers that     *)
(* die: a phone whose contract is not paid off is never given a later date *)
(* than it was ever paid up to, and its lock is never removed.  A date is  *)
(* sent some time after the contract was read, so what is compared is not  *)
(* what the contract says by then but the furthest it ever said; no lock   *)
(* moment passes between the two, and nothing un-completes a contract.     *)
(***************************************************************************)
EXTENDS PhoneLock, TLAPS

Decisions == [action : Actions, date : Dates]
Devices == [enrol : {"QUEUED", "ACTIVE", "REMOVED"}, linked : BOOLEAN, held : Dates,
            fp : Decisions, doubt : BOOLEAN, awaiting : BOOLEAN, release : BOOLEAN]
Stages == {"idle", "note", "send", "record", "release"}

\* A phone known to be switched on, or about to lose its lock, was switched on.
KnownIsOn ==
    /\ device.enrol = "ACTIVE" => phone.on
    /\ pc[Direct] = "release" => phone.on

\* What is on its way to a phone whose contract is not paid off was paid for.
SentAsPaid ==
    contract.status # "COMPLETED" =>
        /\ contract.slack <= furthest
        /\ \A h \in Handlers : pc[h] \in {"send", "record"} => dec[h].date <= furthest
        /\ pc[Direct] # "release"

IInv == TypeOK /\ KnownIsOn /\ SentAsPaid /\ OpenOnlyAsPaid

-----------------------------------------------------------------------------
LEMMA InitIInv == Init => IInv
<1> SUFFICES ASSUME Init
             PROVE  IInv
  OBVIOUS
<1>1. 0 \in Dates /\ 0 \in 0..MaxMishaps /\ Free \notin {0}
  BY HorizonAssumption DEF Dates, Free
<1>2. NoDecision \in Decisions
  BY <1>1 DEF NoDecision, Decision, Decisions, Actions
<1>3. device \in Devices
  BY <1>1, <1>2 DEF Init, Devices
<1>4. phone \in [on : BOOLEAN, date : Dates \cup {Free}]
  BY <1>1 DEF Init
<1>5. contract \in [status : Statuses, slack : Dates, owes : BOOLEAN, reversed : BOOLEAN]
  BY <1>1 DEF Init, Statuses
<1>6. TypeOK
  BY <1>1, <1>2, <1>3, <1>4, <1>5 DEF Init, TypeOK, Devices, Decisions
<1>7. \A h \in Handlers : pc[h] = "idle"
  BY DEF Init
<1>8. Direct \in Handlers
  BY DEF Handlers
<1>9. QED
  BY <1>6, <1>7, <1>8 DEF Init, IInv, KnownIsOn, SentAsPaid, OpenOnlyAsPaid

LEMMA Typed ==
  ASSUME IInv
  PROVE  /\ contract \in [status : Statuses, slack : Dates, owes : BOOLEAN, reversed : BOOLEAN]
         /\ furthest \in Dates
         /\ device \in Devices
         /\ date \in Dates \cup {Free}
         /\ phone \in [on : BOOLEAN, date : Dates \cup {Free}]
         /\ Free \in {date, phone.date} => phone.on
         /\ pc \in [Handlers -> Stages] /\ dec \in [Handlers -> Decisions]
         /\ Hook \in Handlers /\ Direct \in Handlers
  BY DEF IInv, TypeOK, Devices, Decisions, Stages, Handlers

\* A mishap is one of few.
LEMMA MishapTyped ==
  ASSUME IInv, Mishap \/ UNCHANGED mishaps
  PROVE  mishaps' \in 0..MaxMishaps
<1>1. mishaps \in 0..MaxMishaps /\ MaxMishaps \in Nat
  BY HorizonAssumption DEF IInv, TypeOK
<1>2. QED
  BY <1>1 DEF Mishap

\* Days fall together.
LEMMA BeforeFalls ==
  ASSUME NEW n \in Dates \cup {Free}
  PROVE  /\ n \in Dates => Before(n) \in Dates
         /\ n = Free => Before(n) = Free
         /\ n # Free => Before(n) \in Dates
         /\ \A m \in Dates : n <= m => Before(n) <= Before(m)
  BY HorizonAssumption DEF Before, Dates, Free

-----------------------------------------------------------------------------
(* The contract and the calendar. *)

LEMMA ContractBecomesInv ==
  ASSUME IInv, NEW new \in [status : Statuses, slack : Dates, owes : BOOLEAN, reversed : BOOLEAN],
         contract.status = "COMPLETED" => new.status = "COMPLETED", ContractBecomes(new)
  PROVE  IInv'
<1>1. contract' = new /\ furthest' \in Dates /\ furthest <= furthest' /\ new.slack <= furthest'
  BY Typed DEF ContractBecomes, Dates
<1>2. inbox' \in BOOLEAN /\ mishaps' \in 0..MaxMishaps
  BY MishapTyped DEF ContractBecomes, IInv, TypeOK
<1>3. UNCHANGED <<device, date, phone, pc, dec, pinning>>
  BY DEF ContractBecomes
<1>4. TypeOK'
  BY <1>1, <1>2, <1>3 DEF IInv, TypeOK
<1>5. \A n \in Dates \cup {Free} : n <= furthest => n <= furthest'
  BY <1>1, Typed DEF Dates, Free
<1>6. \A h \in Handlers : dec[h].date \in Dates
  BY Typed DEF Decisions
<1>7. KnownIsOn' /\ SentAsPaid' /\ OpenOnlyAsPaid'
  BY <1>1, <1>3, <1>5, <1>6, Typed DEF IInv, KnownIsOn, SentAsPaid, OpenOnlyAsPaid
<1>8. QED
  BY <1>4, <1>7 DEF IInv

LEMMA ContractIsTyped ==
  ASSUME NEW status \in Statuses, NEW slack \in Dates, NEW owes \in BOOLEAN
  PROVE  /\ Contract(status, slack, owes) \in
               [status : Statuses, slack : Dates, owes : BOOLEAN, reversed : BOOLEAN]
         /\ Contract(status, slack, owes).status = status
  BY DEF Contract

LEMMA ContractChangesInv ==
  ASSUME IInv, Pay \/ ReversePayment \/ MarkDefaulted \/ CancelContract \/ AgentBalance
  PROVE  IInv'
<1>1. contract \in [status : Statuses, slack : Dates, owes : BOOLEAN, reversed : BOOLEAN]
      /\ 0 \in Dates
  BY Typed, HorizonAssumption DEF Dates
<1>2. CASE Pay
  <2>1. ASSUME NEW slack \in contract.slack + 1..Horizon,
               ContractBecomes(Contract("ACTIVE", slack, contract.owes))
        PROVE  IInv'
    <3>1. slack \in Dates
      BY <1>1, <2>1, HorizonAssumption DEF Dates
    <3>2. QED
      BY <1>1, <1>2, <2>1, <3>1, ContractIsTyped, ContractBecomesInv DEF Pay, Statuses
  <2>2. CASE ContractBecomes(Contract("COMPLETED", 0, FALSE))
    BY <1>1, <2>2, ContractIsTyped, ContractBecomesInv DEF Statuses
  <2>3. QED
    BY <1>2, <2>1, <2>2 DEF Pay
<1>3. CASE ReversePayment
  <2>1. ASSUME contract.status = "ACTIVE", NEW slack \in 0..contract.slack - 1,
               ContractBecomes([contract EXCEPT !.slack = slack])
        PROVE  IInv'
    <3>1. slack \in Dates
      BY <1>1, <2>1, HorizonAssumption DEF Dates
    <3>2. [contract EXCEPT !.slack = slack] \in
             [status : Statuses, slack : Dates, owes : BOOLEAN, reversed : BOOLEAN]
      BY <1>1, <3>1
    <3>3. QED
      BY <2>1, <3>2, ContractBecomesInv
  <2>2. ASSUME contract.status = "COMPLETED", ContractBecomes([contract EXCEPT !.reversed = TRUE])
        PROVE  IInv'
    <3>1. /\ [contract EXCEPT !.reversed = TRUE] \in
                [status : Statuses, slack : Dates, owes : BOOLEAN, reversed : BOOLEAN]
          /\ [contract EXCEPT !.reversed = TRUE].status = contract.status
      BY <1>1
    <3>2. QED
      BY <2>2, <3>1, ContractBecomesInv
  <2>3. QED
    BY <1>3, <2>1, <2>2 DEF ReversePayment
<1>4. CASE MarkDefaulted
  BY <1>1, <1>4, ContractIsTyped, ContractBecomesInv DEF MarkDefaulted, Statuses
<1>5. CASE CancelContract
  BY <1>1, <1>5, ContractIsTyped, ContractBecomesInv DEF CancelContract, Statuses
<1>6. CASE AgentBalance
  <2>1. [contract EXCEPT !.owes = ~@] \in
           [status : Statuses, slack : Dates, owes : BOOLEAN, reversed : BOOLEAN]
    BY <1>1
  <2>2. QED
    BY <1>6, <2>1, ContractBecomesInv DEF AgentBalance
<1>7. QED
  BY <1>2, <1>3, <1>4, <1>5, <1>6

\* No handler is under way when a lock moment passes, so every date falls with the furthest.
LEMMA TickInv ==
  ASSUME IInv, Tick
  PROVE  IInv'
<1>1. contract' \in [status : Statuses, slack : Dates, owes : BOOLEAN, reversed : BOOLEAN]
      /\ contract'.status = contract.status /\ contract'.slack = Before(contract.slack)
  <2>1. contract' = [contract EXCEPT !.slack = Before(contract.slack)]
    BY DEF Tick
  <2>2. Before(contract.slack) \in Dates
    BY Typed, BeforeFalls
  <2>3. QED
    BY <2>1, <2>2, Typed
<1>2. device' \in Devices /\ device'.enrol = device.enrol
  <2>1. Before(device.held) \in Dates /\ Before(device.fp.date) \in Dates
    BY Typed, BeforeFalls DEF Devices, Decisions
  <2>2. PICK fp : fp = [device.fp EXCEPT !.date = Before(device.fp.date)]
    OBVIOUS
  <2>3. fp \in Decisions
    BY <2>1, <2>2, Typed DEF Devices, Decisions
  <2>4. PICK mid : mid = [device EXCEPT !.held = Before(device.held)]
    OBVIOUS
  <2>5. mid \in Devices /\ mid.fp = device.fp /\ mid.enrol = device.enrol
    BY <2>1, <2>4, Typed DEF Devices
  <2>6. device' = [mid EXCEPT !.fp = fp]
    BY <2>2, <2>4, <2>5 DEF Tick
  <2>7. QED
    BY <2>3, <2>5, <2>6 DEF Devices
<1>3. phone' \in [on : BOOLEAN, date : Dates \cup {Free}]
      /\ phone'.on = phone.on /\ phone'.date = Before(phone.date)
  <2>1. phone' = [phone EXCEPT !.date = Before(phone.date)]
    BY DEF Tick
  <2>2. Before(phone.date) \in Dates \cup {Free}
    BY Typed, BeforeFalls
  <2>3. QED
    BY <2>1, <2>2, Typed
<1>4. date' = Before(date) /\ furthest' = Before(furthest)
      /\ date' \in Dates \cup {Free} /\ furthest' \in Dates
  BY Typed, BeforeFalls DEF Tick
<1>5. Free \in {date', phone'.date} => Free \in {date, phone.date}
  BY <1>3, <1>4, Typed, BeforeFalls, HorizonAssumption DEF Dates, Free
<1>6. UNCHANGED <<inbox, pc, dec, pinning, mishaps>> /\ \A h \in Handlers : pc[h] = "idle"
  BY DEF Tick
<1>7. TypeOK'
  BY <1>1, <1>2, <1>3, <1>4, <1>5, <1>6 DEF IInv, TypeOK, Devices, Decisions
<1>8. KnownIsOn' /\ SentAsPaid' /\ OpenOnlyAsPaid'
  <2>1. contract.status # "COMPLETED" =>
           contract.slack <= furthest /\ date <= furthest /\ phone.date <= furthest
    BY DEF IInv, SentAsPaid, OpenOnlyAsPaid
  <2>2. contract.status # "COMPLETED" =>
           contract'.slack <= furthest' /\ date' <= furthest' /\ phone'.date <= furthest'
    BY <1>1, <1>3, <1>4, <2>1, Typed, BeforeFalls
  <2>3. QED
    BY <1>1, <1>2, <1>3, <1>6, <2>2, Typed DEF IInv, KnownIsOn, SentAsPaid, OpenOnlyAsPaid
<1>9. QED
  BY <1>7, <1>8 DEF IInv

-----------------------------------------------------------------------------
(* Reconciling. *)

LEMMA DecideTyped ==
  ASSUME IInv
  PROVE  /\ Decide \in Decisions
         /\ contract.status # "COMPLETED" => Decide.date <= furthest
<1>1. contract.status \in Statuses /\ contract.slack \in Dates /\ contract.owes \in BOOLEAN
      /\ furthest \in Dates /\ 0 \in Dates /\ Horizon \in Dates
  BY Typed, HorizonAssumption DEF Dates
<1>2. contract.status # "COMPLETED" => contract.slack <= furthest
  BY DEF IInv, SentAsPaid
<1>3. 0 <= furthest
  BY <1>1 DEF Dates
<1>4. QED
  BY <1>1, <1>2, <1>3 DEF Decide, Decision, Decisions, Actions, ScheduleDate, Statuses

\* A handler goes on or ends with a decision that was paid for, and the row is written.
LEMMA HandlerInv ==
  ASSUME IInv, NEW h \in Handlers, NEW at \in Stages, NEW d \in Decisions,
         pc' = [pc EXCEPT ![h] = at], dec' = [dec EXCEPT ![h] = d],
         at \in {"send", "record"} /\ contract.status # "COMPLETED" => d.date <= furthest,
         at # "release",
         device' \in Devices, device'.enrol = "ACTIVE" => phone.on,
         UNCHANGED <<contract, furthest, date, phone>>,
         inbox' \in BOOLEAN, pinning' \in BOOLEAN, mishaps' \in 0..MaxMishaps
  PROVE  IInv'
<1>1. pc' \in [Handlers -> Stages] /\ dec' \in [Handlers -> Decisions]
  BY Typed
<1>2. TypeOK'
  BY <1>1, Typed DEF IInv, TypeOK, Devices, Decisions, Stages
<1>3. \A g \in Handlers : pc'[g] = (IF g = h THEN at ELSE pc[g]) /\ dec'[g] = (IF g = h THEN d ELSE dec[g])
  BY Typed
<1>4. KnownIsOn'
  BY <1>3, Typed DEF IInv, KnownIsOn
<1>5. SentAsPaid' /\ OpenOnlyAsPaid'
  BY <1>3, Typed DEF IInv, SentAsPaid, OpenOnlyAsPaid
<1>6. QED
  BY <1>2, <1>4, <1>5 DEF IInv

LEMMA NoDecisionTyped == NoDecision \in Decisions
  BY HorizonAssumption DEF NoDecision, Decision, Decisions, Actions, Dates

LEMMA RowTyped ==
  ASSUME IInv
  PROVE  /\ Row \in Devices /\ Row.enrol = device.enrol
         /\ [Row EXCEPT !.release = TRUE] \in Devices
         /\ [Row EXCEPT !.release = FALSE] \in Devices
         /\ [Row EXCEPT !.release = TRUE].enrol = device.enrol
         /\ [Row EXCEPT !.release = FALSE].enrol = device.enrol
<1>1. Row \in Devices /\ Row.enrol = device.enrol
  BY Typed, NoDecisionTyped DEF Row, Devices
<1> HIDE DEF Row
<1>2. QED
  BY <1>1 DEF Devices

LEMMA LoadInv ==
  ASSUME IInv, NEW h \in Handlers, NEW forced, Load(h, forced),
         inbox' \in BOOLEAN, pinning' \in BOOLEAN, UNCHANGED furthest
  PROVE  IInv'
<1>1. UNCHANGED <<contract, furthest, date, phone, mishaps>> /\ pc[h] = "idle"
  BY DEF Load
<1>2. mishaps' \in 0..MaxMishaps
  BY <1>1 DEF IInv, TypeOK
<1>3. /\ device' \in Devices /\ device'.enrol = device.enrol
      /\ Stops(h) \/ Carries(h, "send", Decide) \/ Carries(h, "note", Decide)
  <2> DEFINE row == IF Decide.action = "RELEASE" THEN [Row EXCEPT !.release = TRUE]
                    ELSE [Row EXCEPT !.release = FALSE]
  <2>1. row \in Devices /\ row.enrol = device.enrol
    BY RowTyped
  <2>2. [row EXCEPT !.linked = FALSE, !.fp = NoDecision] \in Devices
        /\ [row EXCEPT !.linked = FALSE, !.fp = NoDecision].enrol = row.enrol
    <3> HIDE DEF row
    <3>1. PICK mid : mid = [row EXCEPT !.linked = FALSE]
      OBVIOUS
    <3>2. mid \in Devices /\ mid.enrol = row.enrol
      BY <2>1, <3>1 DEF Devices
    <3>3. [mid EXCEPT !.fp = NoDecision] \in Devices /\ [mid EXCEPT !.fp = NoDecision].enrol = mid.enrol
      BY <3>2, NoDecisionTyped DEF Devices
    <3>4. [row EXCEPT !.linked = FALSE, !.fp = NoDecision] = [mid EXCEPT !.fp = NoDecision]
      BY <3>1
    <3>5. QED
      BY <3>2, <3>3, <3>4
  <2>3. device' \in {row, [row EXCEPT !.linked = FALSE, !.fp = NoDecision]}
    BY DEF Load
  <2>4. Stops(h) \/ Carries(h, "send", Decide) \/ Carries(h, "note", Decide)
    <3> DEFINE d == Decide
               active == device.enrol = "ACTIVE"
               current == row.fp = d /\ ~forced
    <3>1. CASE d.action = "RELEASE" /\ (IF active /\ row.held = 0 THEN Carries(h, "send", d) ELSE Stops(h))
      BY <3>1
    <3>2. CASE Stops(h)
      BY <3>2
    <3>3. CASE /\ d.action # "RELEASE"
               /\ CASE current \/ (d.action # "NONE" /\ ~active) -> Stops(h)
                    [] ~current /\ (d.action = "NONE" \/ (active /\ d.action = "LOCK" /\ ~IsOpen)) ->
                          Carries(h, "note", d)
                    [] ~current /\ active /\ (d.action = "EXTEND" \/ IsOpen) -> Carries(h, "send", d)
      <4>1. d.action \in {"EXTEND", "LOCK", "NONE"}
        BY <3>3, Typed DEF Decide, Decision, Statuses
      <4> HIDE DEF d, row, active, current
      <4>2. CASE current \/ (d.action # "NONE" /\ ~active)
        BY <3>3, <4>2
      <4>3. CASE ~current /\ (d.action = "NONE" \/ (active /\ d.action = "LOCK" /\ ~IsOpen))
        BY <3>3, <4>1, <4>3 DEF d
      <4>4. CASE ~current /\ active /\ (d.action = "EXTEND" \/ IsOpen)
        BY <3>3, <4>1, <4>4 DEF d
      <4>5. QED
        BY <4>1, <4>2, <4>3, <4>4
    <3>4. QED
      BY <3>1, <3>2, <3>3 DEF Load
  <2>5. QED
    BY <2>1, <2>2, <2>3, <2>4
<1>4. device'.enrol = "ACTIVE" => phone.on
  BY <1>3 DEF IInv, KnownIsOn
<1>5. CASE Stops(h)
  <2>1. pc' = [pc EXCEPT ![h] = "idle"] /\ dec' = [dec EXCEPT ![h] = dec[h]] /\ dec[h] \in Decisions
    BY <1>5, Typed DEF Stops, Goes
  <2>2. QED
    BY <1>1, <1>2, <1>3, <1>4, <2>1, HandlerInv DEF Stages
<1>6. ASSUME NEW at \in {"send", "note"}, Carries(h, at, Decide)
      PROVE  IInv'
  <2>1. pc' = [pc EXCEPT ![h] = at] /\ dec' = [dec EXCEPT ![h] = Decide]
    BY <1>6 DEF Carries, Goes
  <2>2. at \in Stages /\ at # "release"
    BY DEF Stages
  <2>3. QED
    BY <1>1, <1>2, <1>3, <1>4, <2>1, <2>2, DecideTyped, HandlerInv
<1>7. QED
  BY <1>3, <1>5, <1>6

LEMMA ReconcilesInv ==
  ASSUME IInv, Drain \/ (\E forced \in BOOLEAN : Reconcile(forced)) \/ AskForPin
  PROVE  IInv'
<1>1. inbox \in BOOLEAN /\ pinning \in BOOLEAN
  BY DEF IInv, TypeOK
<1>2. PICK h \in Handlers, forced \in BOOLEAN : Load(h, forced)
  BY Typed DEF Drain, Reconcile, AskForPin
<1>3. inbox' \in BOOLEAN /\ pinning' \in BOOLEAN
  BY <1>1 DEF Drain, Reconcile, AskForPin
<1>4. UNCHANGED furthest
  BY <1>2 DEF Load
<1>5. QED
  BY <1>2, <1>3, <1>4, LoadInv

LEMMA NoteInv ==
  ASSUME IInv, NEW h \in Handlers, Note(h) \/ Record(h)
  PROVE  IInv'
<1>1. pc' = [pc EXCEPT ![h] = "idle"] /\ dec' = [dec EXCEPT ![h] = NoDecision]
      /\ UNCHANGED <<contract, furthest, date, phone, inbox, pinning, mishaps>>
  BY DEF Note, Record, Done, Carries, Goes
<1>2. device' \in Devices /\ device'.enrol = device.enrol
  <2>1. dec[h] \in Decisions /\ dec[h].date \in Dates
    BY Typed DEF Decisions
  <2>2. CASE Note(h)
    BY <2>1, <2>2, Typed DEF Note, Devices
  <2>3. CASE Record(h)
    <3>1. PICK mid : mid = [device EXCEPT !.held = dec[h].date, !.fp = dec[h]]
      OBVIOUS
    <3>2. mid \in Devices /\ mid.enrol = device.enrol
      <4>1. PICK held : held = [device EXCEPT !.held = dec[h].date]
        OBVIOUS
      <4>2. held \in Devices /\ held.enrol = device.enrol
        BY <2>1, <4>1, Typed DEF Devices
      <4>3. mid = [held EXCEPT !.fp = dec[h]]
        BY <3>1, <4>1
      <4>4. QED
        BY <2>1, <4>2, <4>3 DEF Devices
    <3>3. device' = [mid EXCEPT !.doubt = TRUE]
      BY <2>3, <3>1 DEF Record
    <3>4. QED
      BY <3>2, <3>3 DEF Devices
  <2>4. QED
    BY <2>2, <2>3
<1>3. device'.enrol = "ACTIVE" => phone.on
  BY <1>2 DEF IInv, KnownIsOn
<1>4. inbox' \in BOOLEAN /\ pinning' \in BOOLEAN /\ mishaps' \in 0..MaxMishaps
  BY <1>1 DEF IInv, TypeOK
<1>5. QED
  BY <1>1, <1>2, <1>3, <1>4, NoDecisionTyped, HandlerInv DEF Stages

LEMMA DieInv ==
  ASSUME IInv, NEW h \in Handlers, Die(h)
  PROVE  IInv'
<1>1. pc' = [pc EXCEPT ![h] = "idle"] /\ dec' = [dec EXCEPT ![h] = NoDecision]
      /\ UNCHANGED <<contract, furthest, device, date, phone>>
  BY DEF Die, Done, Carries, Goes
<1>2. inbox' \in BOOLEAN /\ pinning' \in BOOLEAN /\ mishaps' \in 0..MaxMishaps
  BY MishapTyped DEF Die, IInv, TypeOK
<1>3. device' \in Devices /\ (device'.enrol = "ACTIVE" => phone.on)
  BY <1>1, Typed DEF IInv, KnownIsOn
<1>4. QED
  BY <1>1, <1>2, <1>3, NoDecisionTyped, HandlerInv DEF Stages

\* PayTrigger is given a date that was paid for, or keeps its own.
LEMMA SendInv ==
  ASSUME IInv, NEW h \in Handlers, Send(h)
  PROVE  IInv'
<1>1. pc[h] = "send" /\ UNCHANGED <<contract, furthest, device, phone, pinning>>
  BY DEF Send
<1>2. dec[h] \in Decisions /\ dec[h].date \in Dates
  BY Typed DEF Decisions
<1>3. /\ Taken(h) \in Dates \cup {Free}
      /\ Taken(h) = Free => date = Free
      /\ contract.status # "COMPLETED" => Taken(h) <= furthest
  BY <1>1, <1>2, Typed, HorizonAssumption
     DEF Taken, IInv, SentAsPaid, OpenOnlyAsPaid, Dates, Free
<1>4. PICK at \in {"record", "idle"}, d \in Decisions :
         /\ pc' = [pc EXCEPT ![h] = at] /\ dec' = [dec EXCEPT ![h] = d]
         /\ at = "record" => d = dec[h]
  <2>1. CASE Goes(h, "record") /\ UNCHANGED dec
    <3>1. dec' = [dec EXCEPT ![h] = dec[h]]
      BY <2>1, Typed
    <3>2. QED
      BY <1>2, <2>1, <3>1 DEF Goes
  <2>2. CASE Done(h)
    BY <2>2, NoDecisionTyped DEF Done, Carries, Goes
  <2>3. QED
    BY <2>1, <2>2 DEF Send
<1>5. date' \in {date, Taken(h)} /\ inbox' \in BOOLEAN /\ mishaps' \in 0..MaxMishaps
  BY MishapTyped DEF Send, IInv, TypeOK
<1>6. pc' \in [Handlers -> Stages] /\ dec' \in [Handlers -> Decisions]
  BY <1>4, Typed DEF Stages
<1>7. TypeOK'
  BY <1>1, <1>3, <1>5, <1>6, Typed DEF IInv, TypeOK, Devices, Decisions, Stages
<1>8. \A g \in Handlers : /\ pc'[g] = (IF g = h THEN at ELSE pc[g])
                          /\ dec'[g] = (IF g = h THEN d ELSE dec[g])
  BY <1>4, Typed
<1>9. KnownIsOn' /\ SentAsPaid' /\ OpenOnlyAsPaid'
  BY <1>1, <1>3, <1>4, <1>5, <1>8, Typed DEF IInv, KnownIsOn, SentAsPaid, OpenOnlyAsPaid
<1>10. QED
  BY <1>7, <1>9 DEF IInv

-----------------------------------------------------------------------------
(* The phone, its reports and its release. *)

\* Nothing but the phone and its row changes, and the phone hears what PayTrigger holds.
LEMMA PhoneInv ==
  ASSUME IInv, UNCHANGED <<contract, furthest, date, pc, dec, mishaps>>,
         phone' \in [on : BOOLEAN, date : Dates \cup {Free}], phone.on => phone'.on,
         phone'.date \in {phone.date, date}, phone'.date = Free => phone'.on,
         device' \in Devices, device'.enrol = "ACTIVE" => phone'.on,
         inbox' \in BOOLEAN, pinning' \in BOOLEAN
  PROVE  IInv'
<1>1. TypeOK'
  BY Typed DEF IInv, TypeOK, Devices, Decisions
<1>2. KnownIsOn' /\ SentAsPaid' /\ OpenOnlyAsPaid'
  BY Typed DEF IInv, KnownIsOn, SentAsPaid, OpenOnlyAsPaid
<1>3. QED
  BY <1>1, <1>2 DEF IInv

LEMMA SwitchOnInv ==
  ASSUME IInv, SwitchOn \/ Connect
  PROVE  IInv'
<1>1. /\ phone' \in [on : BOOLEAN, date : Dates \cup {Free}] /\ phone'.on
      /\ phone'.date \in {phone.date, date}
  BY Typed DEF SwitchOn, Connect
<1>2. device' \in Devices /\ inbox' \in BOOLEAN /\ pinning' \in BOOLEAN
      /\ UNCHANGED <<contract, furthest, date, pc, dec, mishaps>>
  BY Typed DEF SwitchOn, Connect, IInv, TypeOK
<1>3. QED
  BY <1>1, <1>2, PhoneInv

LEMMA ReportInv ==
  ASSUME IInv, Report
  PROVE  IInv'
<1>1. Reported \in Devices
  <2>1. CASE phone.date = Free
    <3>1. Reported = [device EXCEPT !.enrol = "REMOVED", !.doubt = FALSE, !.awaiting = FALSE]
      BY <2>1 DEF Reported
    <3>2. QED
      BY <3>1, Typed DEF Devices
  <2>2. CASE phone.date # Free
    <3>1. PICK b \in BOOLEAN : b = (~Open /\ device.held > 0)
      OBVIOUS
    <3>2. Reported = [device EXCEPT !.enrol = "ACTIVE", !.doubt = FALSE, !.awaiting = b]
      BY <2>2, <3>1 DEF Reported
    <3>3. QED
      BY <3>2, Typed DEF Devices
  <2>3. QED
    BY <2>1, <2>2
<1>2. phone.on /\ device' = Reported /\ inbox' \in BOOLEAN /\ pinning' \in BOOLEAN
      /\ UNCHANGED <<contract, furthest, date, phone, pc, dec, mishaps>>
  BY DEF Report, IInv, TypeOK
<1>3. QED
  BY <1>1, <1>2, Typed, PhoneInv

LEMMA IssuePinInv ==
  ASSUME IInv, IssuePin
  PROVE  IInv'
<1>1. UNCHANGED <<contract, furthest, date, inbox, pc, dec, mishaps>>
      /\ inbox' \in BOOLEAN /\ pinning' \in BOOLEAN
  BY DEF IssuePin, IInv, TypeOK
<1>2. device' \in Devices /\ device'.enrol = device.enrol
  BY Typed DEF IssuePin, Devices
<1>3. /\ phone' \in [on : BOOLEAN, date : Dates \cup {Free}] /\ phone'.on = phone.on
      /\ phone'.date \in {phone.date, date}
      /\ phone'.date = Free => phone.date = Free
  <2>1. CASE UNCHANGED phone
    BY <2>1, Typed
  <2>2. CASE date # Free /\ phone' = [phone EXCEPT !.date = date]
    BY <2>2, Typed
  <2>3. QED
    BY <2>1, <2>2 DEF IssuePin
<1>4. QED
  BY <1>1, <1>2, <1>3, Typed, PhoneInv DEF IInv, KnownIsOn

\* The contract is looked at again, and stays paid off until the lock is removed.
LEMMA StartReleaseInv ==
  ASSUME IInv, NEW staff \in BOOLEAN, StartRelease(staff)
  PROVE  IInv'
<1>1. CASE contract.status = "COMPLETED" /\ Goes(Direct, "release") /\ UNCHANGED device
  <2>1. UNCHANGED <<contract, furthest, device, date, phone, inbox, dec, pinning, mishaps>> /\ phone.on
        /\ pc' = [pc EXCEPT ![Direct] = "release"]
    BY <1>1 DEF StartRelease, Goes, IInv, KnownIsOn
  <2>2. pc' \in [Handlers -> Stages]
    BY <2>1, Typed DEF Stages
  <2>3. TypeOK'
    BY <2>1, <2>2, Typed DEF IInv, TypeOK, Devices, Decisions, Stages
  <2>4. KnownIsOn' /\ SentAsPaid' /\ OpenOnlyAsPaid'
    BY <1>1, <2>1 DEF IInv, KnownIsOn, SentAsPaid, OpenOnlyAsPaid
  <2>5. QED
    BY <2>3, <2>4 DEF IInv
<1>2. CASE device' = [device EXCEPT !.release = FALSE] /\ UNCHANGED pc
  <2>1. device' \in Devices /\ device'.enrol = device.enrol
    BY <1>2, Typed DEF Devices
  <2>2. UNCHANGED <<contract, furthest, date, phone, inbox, pc, dec, pinning, mishaps>>
        /\ inbox' \in BOOLEAN /\ pinning' \in BOOLEAN
    BY <1>2 DEF StartRelease, IInv, TypeOK
  <2>3. QED
    BY <2>1, <2>2, Typed, PhoneInv DEF IInv, KnownIsOn
<1>3. QED
  BY <1>1, <1>2 DEF StartRelease

LEMMA RemoveInv ==
  ASSUME IInv, Remove
  PROVE  IInv'
<1>1. phone.on /\ contract.status = "COMPLETED"
  BY Typed DEF Remove, IInv, KnownIsOn, SentAsPaid
<1>2. UNCHANGED <<contract, furthest, phone, inbox, dec, pinning>>
      /\ pc' = [pc EXCEPT ![Direct] = "idle"] /\ date' \in {date, Free}
  BY DEF Remove, Goes
<1>3. device' \in Devices /\ mishaps' \in 0..MaxMishaps
  BY Typed, MishapTyped DEF Remove, Devices
<1>4. pc' \in [Handlers -> Stages]
  BY <1>2, Typed DEF Stages
<1>5. TypeOK'
  BY <1>1, <1>2, <1>3, <1>4, Typed DEF IInv, TypeOK, Devices, Decisions, Stages
<1>6. KnownIsOn' /\ SentAsPaid' /\ OpenOnlyAsPaid'
  BY <1>1, <1>2 DEF KnownIsOn, SentAsPaid, OpenOnlyAsPaid
<1>7. QED
  BY <1>5, <1>6 DEF IInv

-----------------------------------------------------------------------------
LEMMA NextIInv == IInv /\ [Next]_vars => IInv'
<1> SUFFICES ASSUME IInv, [Next]_vars
             PROVE  IInv'
  OBVIOUS
<1>1. CASE Pay \/ ReversePayment \/ MarkDefaulted \/ CancelContract \/ AgentBalance
  BY <1>1, ContractChangesInv
<1>2. CASE Tick
  BY <1>2, TickInv
<1>3. CASE Drain \/ (\E forced \in BOOLEAN : Reconcile(forced)) \/ AskForPin
  BY <1>3, ReconcilesInv
<1>4. ASSUME NEW h \in Handlers, Run(h) \/ Die(h)
      PROVE  IInv'
  BY <1>4, NoteInv, SendInv, DieInv DEF Run
<1>5. CASE SwitchOn \/ Connect \/ Report \/ IssuePin
  BY <1>5, SwitchOnInv, ReportInv, IssuePinInv
<1>6. CASE (\E staff \in BOOLEAN : StartRelease(staff)) \/ Remove
  BY <1>6, StartReleaseInv, RemoveInv
<1>7. CASE UNCHANGED vars
  BY <1>7 DEF vars, IInv, TypeOK, KnownIsOn, SentAsPaid, OpenOnlyAsPaid
<1>8. QED
  BY <1>1, <1>2, <1>3, <1>4, <1>5, <1>6, <1>7 DEF Next

LEMMA Invariance == Spec => []IInv
  BY InitIInv, NextIInv, PTL DEF Spec

\* Every date held, sent or recorded is within the cap, and a removed lock is that of a phone
\* that was switched on.
THEOREM DatesAreWithinTheCap == Spec => []TypeOK
  BY Invariance, PTL DEF IInv

\* However reconciles overlap, fail and overtake one another, a phone that is not paid off is
\* never opened for longer than it was ever paid up to, and never loses its lock.
THEOREM NeverOpensUnpaid == Spec => []OpenOnlyAsPaid
  BY Invariance, PTL DEF IInv
=============================================================================

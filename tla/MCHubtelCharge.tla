--------------------------- MODULE MCHubtelCharge ---------------------------
(* HubtelCharge on one charge and a few handlers of each kind, which are interchangeable. *)
EXTENDS HubtelCharge, TLC

Interchangeable == Permutations(Webhooks) \cup Permutations(Sweeps) \cup Permutations(Staff)

\* Bound of the safety run: a row older than half an hour differs from one given up only in
\* the alert, which is another run's.
WithinHalfAnHour == \A c \in Charges : age[c] # "overdue"
=============================================================================

------------------------------- MODULE DayBook -------------------------------
(***************************************************************************)
(* What the station's day book promises, with every operation atomic: a    *)
(* day closes only when none of its shifts is open, a shift opens only on  *)
(* an open day, a locked day never changes again.  Locking is the one      *)
(* operation promised without a condition: handleLockOperatingDay checks   *)
(* its conditions before its transaction and not inside it.                *)
(* OperatingDay implements this specification.                             *)
(***************************************************************************)
CONSTANTS Day, Date, Shift, NoDay, NoDate

VARIABLES day, date, shift, dayOf

vars == <<day, date, shift, dayOf>>

Init ==
  /\ day = [d \in Day |-> "none"]
  /\ date = [d \in Day |-> NoDate]
  /\ shift = [s \in Shift |-> "none"]
  /\ dayOf = [s \in Shift |-> NoDay]

OpenDay(d, t) ==
  /\ day[d] = "none"
  /\ \A e \in Day : date[e] = t => day[e] = "locked"
  /\ day' = [day EXCEPT ![d] = "open"]
  /\ date' = [date EXCEPT ![d] = t]
  /\ UNCHANGED <<shift, dayOf>>

CloseDay(d) ==
  /\ day[d] = "open"
  /\ \A s \in Shift : dayOf[s] = d => shift[s] # "open"
  /\ day' = [day EXCEPT ![d] = "closed"]
  /\ UNCHANGED <<date, shift, dayOf>>

ReopenDay(d) ==
  /\ day[d] = "closed"
  /\ day' = [day EXCEPT ![d] = "open"]
  /\ UNCHANGED <<date, shift, dayOf>>

LockDay(d) ==
  /\ day[d] # "none"
  /\ day' = [day EXCEPT ![d] = "locked"]
  /\ UNCHANGED <<date, shift, dayOf>>

OpenShift(s, d) ==
  /\ shift[s] = "none"
  /\ day[d] = "open"
  /\ shift' = [shift EXCEPT ![s] = "open"]
  /\ dayOf' = [dayOf EXCEPT ![s] = d]
  /\ UNCHANGED <<day, date>>

AdvanceShift(s, from, to) ==
  /\ shift[s] = from
  /\ shift' = [shift EXCEPT ![s] = to]
  /\ UNCHANGED <<day, date, dayOf>>

Next ==
  \/ \E d \in Day, t \in Date : OpenDay(d, t)
  \/ \E d \in Day : CloseDay(d) \/ ReopenDay(d) \/ LockDay(d)
  \/ \E s \in Shift, d \in Day : OpenShift(s, d)
  \/ \E s \in Shift : \/ AdvanceShift(s, "open", "closed")
                      \/ AdvanceShift(s, "closed", "approved")

Spec == Init /\ [][Next]_vars

=============================================================================

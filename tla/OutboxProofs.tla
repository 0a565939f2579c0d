---------------------------- MODULE OutboxProofs ----------------------------
(***************************************************************************)
(* Proofs about Outbox for any events, replicas, batch size and retry      *)
(* budget: claims are exclusive, the budget is kept, and the outbox        *)
(* implements AtLeastOnce.                                                 *)
(***************************************************************************)
EXTENDS Outbox, TLAPS

(* An event of a batch was recorded, is dispatched once and has one        *)
(* outcome; only what has been delivered is, or is about to be, marked     *)
(* published.  A batch whose session was lost is no exception.             *)
MarksDelivered ==
  /\ \A e \in Event : row[e] = "published" => e \in delivered
  /\ \A p \in Publisher : pub[p] # Idle =>
       /\ pub[p].ok \subseteq delivered
       /\ \A e \in pub[p].todo : row[e] # "none"
       /\ pub[p].ok \cap pub[p].bad = {}
       /\ pub[p].todo \cap (pub[p].ok \cup pub[p].bad) = {}

Inv == TypeOK /\ ClaimsAreExclusive /\ RetryBudget /\ MarksDelivered

LEMMA InitInv == Init => Inv
<1> SUFFICES ASSUME Init PROVE Inv
  OBVIOUS
<1> USE OutboxAssumption DEF Init
<1>1. TypeOK
  BY DEF TypeOK, Status
<1>2. ClaimsAreExclusive
  BY DEF ClaimsAreExclusive, Claimed, Idle
<1>3. RetryBudget /\ MarksDelivered
  BY DEF RetryBudget, MarksDelivered
<1> QED
  BY <1>1, <1>2, <1>3 DEF Inv

(* A publisher has a batch of events, with or without its session, or is   *)
(* idle; only one with its session has claims.                             *)
LEMMA PublisherFacts ==
  ASSUME TypeOK, NEW p \in Publisher
  PROVE  /\ pub[p] # Idle => pub[p] \in Batch
         /\ pub[p].at = "idle" <=> pub[p] = Idle
         /\ pub[p].at \in {"idle", "batch", "lost"}
         /\ pub[p].at = "batch" => Claimed(p) = pub[p].todo \cup pub[p].ok \cup pub[p].bad
         /\ pub[p].at # "batch" => Claimed(p) = {}
         /\ pub[p] # Idle => pub[p].todo \subseteq Event /\ pub[p].ok \subseteq Event /\ pub[p].bad \subseteq Event
         /\ Claimed(p) \subseteq Event
<1>1. pub[p] \in Batch \/ pub[p] = Idle
  BY DEF TypeOK
<1>2. CASE pub[p] = Idle
  BY <1>2 DEF Idle, Claimed
<1>3. CASE pub[p] \in Batch
  BY <1>3 DEF Idle, Claimed, Batch
<1> QED
  BY <1>1, <1>2, <1>3

(* How the steps of a publisher change what it has claimed. *)
LEMMA SelectFacts ==
  ASSUME Inv, NEW p \in Publisher, Select(p)
  PROVE  /\ pub' \in [Publisher -> Batch \cup {Idle}]
         /\ \A q \in Publisher : q # p => pub'[q] = pub[q]
         /\ Claimed(p)' \subseteq Visible(p)
         /\ pub'[p] # Idle => /\ pub'[p].ok = {} /\ pub'[p].bad = {}
                               /\ pub'[p].todo \subseteq Visible(p)
<1>1. PICK B \in SUBSET Visible(p) :
        pub' = IF B = {} THEN pub
               ELSE [pub EXCEPT ![p] = [at |-> "batch", todo |-> B, ok |-> {}, bad |-> {}]]
  BY DEF Select
<1>2. B \subseteq Event /\ pub \in [Publisher -> Batch \cup {Idle}] /\ pub[p] = Idle
  BY DEF Visible, Inv, TypeOK, Select
<1>3. CASE B = {}
  BY <1>1, <1>2, <1>3 DEF Claimed, Idle
<1>4. CASE B # {}
  <2> DEFINE b == [at |-> "batch", todo |-> B, ok |-> {}, bad |-> {}]
  <2>1. b \in Batch /\ b.at = "batch" /\ b # Idle /\ b.todo \cup b.ok \cup b.bad = B /\ b.todo = B /\ b.ok = {} /\ b.bad = {}
    BY <1>2 DEF Batch, Idle
  <2>2. pub' = [pub EXCEPT ![p] = b]
    BY <1>1, <1>4
  <2> HIDE DEF b
  <2> QED
    BY <1>2, <2>1, <2>2 DEF Claimed
<1> QED
  BY <1>3, <1>4

LEMMA DispatchFacts ==
  ASSUME Inv, NEW p \in Publisher, NEW e \in Event, Dispatch(p, e)
  PROVE  /\ pub' \in [Publisher -> Batch \cup {Idle}]
         /\ \A q \in Publisher : q # p => pub'[q] = pub[q]
         /\ Claimed(p)' = Claimed(p) /\ row[e] # "none"
         /\ pub[p] # Idle /\ pub'[p] # Idle /\ pub'[p].todo \subseteq pub[p].todo
         /\ \/ delivered' = delivered \cup {e} /\ pub'[p].ok = pub[p].ok \cup {e}
            \/ delivered' = delivered /\ pub'[p].ok = pub[p].ok
         /\ pub'[p].ok \cap pub'[p].bad = {}
         /\ pub'[p].todo \cap (pub'[p].ok \cup pub'[p].bad) = {}
<1>1. pub \in [Publisher -> Batch \cup {Idle}] /\ pub[p] # Idle /\ e \in pub[p].todo
  BY DEF Inv, TypeOK, Dispatch
<1>2. pub[p] \in Batch
  BY <1>1
<1>3. PICK ok \in {pub[p].ok, pub[p].ok \cup {e}}, bad \in {pub[p].bad, pub[p].bad \cup {e}} :
        /\ pub' = [pub EXCEPT ![p] = [at |-> pub[p].at, todo |-> pub[p].todo \ {e},
                                      ok |-> ok, bad |-> bad]]
        /\ (e \in ok /\ bad = pub[p].bad) \/ (e \in bad /\ ok = pub[p].ok)
        /\ \/ delivered' = delivered \cup {e} /\ ok = pub[p].ok \cup {e}
           \/ delivered' = delivered /\ ok = pub[p].ok
  <2>1. CASE Accepted(e)
    BY <2>1 DEF Dispatch
  <2>2. CASE ~Accepted(e)
    BY <2>2 DEF Dispatch
  <2> QED
    BY <2>1, <2>2
<1> DEFINE b == [at |-> pub[p].at, todo |-> pub[p].todo \ {e}, ok |-> ok, bad |-> bad]
<1>4. b \in Batch /\ b.at = pub[p].at /\ b.todo \subseteq pub[p].todo /\ b.ok = ok /\ b # Idle
  BY <1>2, <1>3 DEF Batch, Idle
<1>5. b.todo \cup b.ok \cup b.bad = pub[p].todo \cup pub[p].ok \cup pub[p].bad
  BY <1>1, <1>3
<1>8. b.ok \cap b.bad = {} /\ b.todo \cap (b.ok \cup b.bad) = {}
  BY <1>1, <1>3 DEF Inv, MarksDelivered
<1>6. pub' = [pub EXCEPT ![p] = b]
  BY <1>3
<1> HIDE DEF b
<1>7. pub' \in [Publisher -> Batch \cup {Idle}] /\ pub'[p] = b /\ \A q \in Publisher : q # p => pub'[q] = pub[q]
  BY <1>1, <1>4, <1>6
<1>9. Claimed(p)' = Claimed(p) /\ row[e] # "none"
  BY <1>1, <1>4, <1>5, <1>7 DEF Claimed, Inv, MarksDelivered
<1> QED
  BY <1>1, <1>3, <1>4, <1>7, <1>8, <1>9

(* Marks and batches stay right when rows come in or are requeued.         *)
LEMMA MarksKept ==
  ASSUME Inv, UNCHANGED <<delivered, pub>>,
         \A f \in Event : /\ row[f] # "none" => row'[f] # "none"
                          /\ row'[f] = "published" => row[f] = "published"
  PROVE  MarksDelivered'
<1>1. \A f \in Event : row'[f] = "published" => f \in delivered'
  BY DEF Inv, MarksDelivered
<1>2. ASSUME NEW p \in Publisher, pub[p] # Idle, NEW f \in pub[p].todo PROVE row'[f] # "none"
  <2>1. f \in Event
    BY <1>2, PublisherFacts DEF Inv
  <2> QED
    BY <1>2, <2>1 DEF Inv, MarksDelivered
<1> QED
  BY <1>1, <1>2 DEF Inv, MarksDelivered

LEMMA NextTypeOK == Inv /\ [Next]_vars => TypeOK'
<1> SUFFICES ASSUME Inv, [Next]_vars PROVE TypeOK'
  OBVIOUS
<1> USE OutboxAssumption DEF Inv, TypeOK, Status
<1>1. ASSUME NEW e \in Event, WriteOutbox(e) PROVE TypeOK'
  BY <1>1 DEF WriteOutbox
<1>2. ASSUME NEW p \in Publisher, Select(p) PROVE TypeOK'
  <2>1. pub' \in [Publisher -> Batch \cup {Idle}]
    BY <1>2, SelectFacts
  <2> QED
    BY <1>2, <2>1 DEF Select
<1>3. ASSUME NEW p \in Publisher, NEW e \in Event, Dispatch(p, e) PROVE TypeOK'
  <2>1. pub' \in [Publisher -> Batch \cup {Idle}]
    BY <1>3, DispatchFacts
  <2>2. delivered' \subseteq Event
    BY <1>3 DEF Dispatch
  <2> QED
    BY <1>3, <2>1, <2>2 DEF Dispatch
<1>4. ASSUME NEW p \in Publisher, Commit(p) PROVE TypeOK'
  <2>1. \A e \in pub[p].bad : row[e] = "pending" /\ attempts[e] < MaxAttempts /\ attempts[e] \in Nat
    BY <1>4, PublisherFacts DEF Commit, ClaimsAreExclusive, RetryBudget
  <2>2. attempts' \in [Event -> 0..MaxAttempts]
    BY <1>4, <2>1 DEF Commit
  <2>3. row' \in [Event -> Status] /\ \A e \in aged : row'[e] = "dead"
    <3>1. \A e \in aged : e \notin Claimed(p)
      BY DEF ClaimsAreExclusive
    <3>2. \A e \in aged : e \notin pub[p].ok /\ e \notin pub[p].bad
      BY <1>4, <3>1, PublisherFacts DEF Commit
    <3> QED
      BY <1>4, <3>2 DEF Commit
  <2>4. pub' \in [Publisher -> Batch \cup {Idle}]
    BY <1>4 DEF Commit
  <2> QED
    BY <1>4, <2>2, <2>3, <2>4 DEF Commit
<1>5. ASSUME NEW p \in Publisher, Crash(p) \/ Abandon(p) PROVE TypeOK'
  <2>1. CASE Crash(p)
    BY <2>1 DEF Crash
  <2>2. CASE Abandon(p)
    BY <2>2 DEF Abandon
  <2> QED
    BY <1>5, <2>1, <2>2
<1>9. ASSUME NEW p \in Publisher, LoseSession(p) PROVE TypeOK'
  <2>1. [at |-> "lost", todo |-> pub[p].todo, ok |-> pub[p].ok, bad |-> pub[p].bad] \in Batch
    BY <1>9, PublisherFacts DEF LoseSession, Batch
  <2> QED
    BY <1>9, <2>1 DEF LoseSession
<1>6. CASE Sweep
  BY <1>6 DEF Sweep
<1>7. CASE Break \/ Recover
  <2>1. outages' \in 0..MaxOutages
    BY <1>7 DEF Break, Recover
  <2>2. up' \in BOOLEAN
    BY <1>7, Zenon DEF Break, Recover
  <2>3. UNCHANGED <<row, attempts, delivered, pub, aged, crashes>>
    BY <1>7 DEF Break, Recover
  <2> QED
    BY <2>1, <2>2, <2>3
<1>8. CASE UNCHANGED vars
  BY <1>8 DEF vars
<1> QED
  BY <1>1, <1>2, <1>3, <1>4, <1>5, <1>6, <1>7, <1>8, <1>9 DEF Next

LEMMA NextInv == Inv /\ [Next]_vars => Inv'
<1> SUFFICES ASSUME Inv, [Next]_vars PROVE (ClaimsAreExclusive /\ RetryBudget /\ MarksDelivered)'
  BY NextTypeOK DEF Inv
<1> USE OutboxAssumption
<1>1. ASSUME NEW e \in Event, WriteOutbox(e)
      PROVE  (ClaimsAreExclusive /\ RetryBudget /\ MarksDelivered)'
  <2>1. /\ row[e] = "none" /\ row'[e] = "pending" /\ \A f \in Event : f # e => row'[f] = row[f]
        /\ UNCHANGED <<attempts, delivered, pub>>
    BY <1>1 DEF WriteOutbox, Inv, TypeOK
  <2>2. \A p \in Publisher : Claimed(p)' = Claimed(p) /\ Claimed(p) \subseteq Event
    <3>1. \A p \in Publisher : Claimed(p)' = Claimed(p)
      BY <2>1 DEF Claimed
    <3> QED
      BY <3>1, PublisherFacts DEF Inv
  <2>3. ClaimsAreExclusive'
    BY <2>1, <2>2 DEF Inv, ClaimsAreExclusive
  <2>4. RetryBudget'
    BY <2>1 DEF Inv, RetryBudget
  <2>5. \A f \in Event : /\ row[f] # "none" => row'[f] # "none"
                         /\ row'[f] = "published" => row[f] = "published"
    BY <2>1
  <2>6. MarksDelivered'
    BY <2>1, <2>5, MarksKept
  <2> QED
    BY <2>3, <2>4, <2>6
<1>2. ASSUME NEW p \in Publisher, Select(p)
      PROVE  (ClaimsAreExclusive /\ RetryBudget /\ MarksDelivered)'
  <2>1. UNCHANGED <<row, attempts, delivered>>
    BY <1>2 DEF Select
  <2>2. /\ \A q \in Publisher : q # p => pub'[q] = pub[q]
        /\ Claimed(p)' \subseteq Visible(p)
        /\ pub'[p] # Idle => /\ pub'[p].ok = {} /\ pub'[p].bad = {}
                              /\ pub'[p].todo \subseteq Visible(p)
    BY <1>2, SelectFacts
  <2>3. \A q \in Publisher : q # p => Claimed(q)' = Claimed(q)
    BY <2>2 DEF Claimed
  <2>4. ClaimsAreExclusive'
    BY <2>1, <2>2, <2>3 DEF Inv, ClaimsAreExclusive, Visible
  <2>5. RetryBudget' /\ MarksDelivered'
    BY <2>1, <2>2 DEF Inv, RetryBudget, MarksDelivered, Visible
  <2> QED
    BY <2>4, <2>5
<1>3. ASSUME NEW p \in Publisher, NEW e \in Event, Dispatch(p, e)
      PROVE  (ClaimsAreExclusive /\ RetryBudget /\ MarksDelivered)'
  <2>1. UNCHANGED <<row, attempts>>
    BY <1>3 DEF Dispatch
  <2>2. /\ \A q \in Publisher : q # p => pub'[q] = pub[q]
        /\ Claimed(p)' = Claimed(p) /\ pub[p] # Idle /\ pub'[p].todo \subseteq pub[p].todo
        /\ \/ delivered' = delivered \cup {e} /\ pub'[p].ok = pub[p].ok \cup {e}
           \/ delivered' = delivered /\ pub'[p].ok = pub[p].ok
        /\ pub'[p].ok \cap pub'[p].bad = {}
        /\ pub'[p].todo \cap (pub'[p].ok \cup pub'[p].bad) = {}
    BY <1>3, DispatchFacts
  <2>3. \A q \in Publisher : Claimed(q)' = Claimed(q)
    BY <2>2 DEF Claimed
  <2>4. ClaimsAreExclusive'
    BY <2>1, <2>3 DEF Inv, ClaimsAreExclusive
  <2>5. RetryBudget'
    BY <2>1 DEF Inv, RetryBudget
  <2>6. MarksDelivered'
    BY <2>1, <2>2 DEF Inv, MarksDelivered
  <2> QED
    BY <2>4, <2>5, <2>6
<1>4. ASSUME NEW p \in Publisher, Commit(p)
      PROVE  (ClaimsAreExclusive /\ RetryBudget /\ MarksDelivered)'
  <2>1. /\ pub[p] # Idle /\ pub[p] \in Batch /\ pub'[p] = Idle /\ UNCHANGED delivered
        /\ \A q \in Publisher : q # p => pub'[q] = pub[q]
    BY <1>4, PublisherFacts DEF Commit, Inv, TypeOK
  <2>2. \A q \in Publisher : Claimed(q)' = IF q = p THEN {} ELSE Claimed(q)
    <3>1. Idle.at # "batch"
      BY DEF Idle
    <3> QED
      BY <2>1, <3>1 DEF Claimed
  <2>9. Claimed(p) = pub[p].todo \cup pub[p].ok \cup pub[p].bad
    BY <1>4, PublisherFacts DEF Commit, Inv
  <2>3. \A e \in Event : e \notin Claimed(p) => row'[e] = row[e] /\ attempts'[e] = attempts[e]
    BY <1>4, <2>9 DEF Commit, Inv, TypeOK
  <2>4. ClaimsAreExclusive'
    <3>1. \A q \in Publisher : Claimed(q) \subseteq Event
      BY PublisherFacts DEF Inv
    <3> QED
      BY <2>2, <2>3, <3>1 DEF Inv, ClaimsAreExclusive
  <2>5. ASSUME NEW e \in Event
        PROVE  (row'[e] = "dead" <=> attempts'[e] = MaxAttempts) /\ (row'[e] = "none" => attempts'[e] = 0)
    <3>1. CASE e \in pub[p].bad /\ e \notin pub[p].ok
      <4>1. e \in Claimed(p)
        BY <2>9, <3>1
      <4>2. row[e] = "pending" /\ attempts[e] \in 0..MaxAttempts /\ attempts[e] # MaxAttempts
        BY <4>1 DEF Inv, TypeOK, ClaimsAreExclusive, RetryBudget
      <4>3. /\ attempts'[e] = attempts[e] + 1
            /\ row'[e] = IF attempts[e] + 1 >= MaxAttempts THEN "dead" ELSE "pending"
        BY <1>4, <3>1, <4>2 DEF Commit, DeadLetter
      <4> QED
        BY <4>2, <4>3
    <3>2. CASE e \in pub[p].ok
      <4>2. e \notin pub[p].bad
        BY <3>2, <2>1 DEF Inv, MarksDelivered
      <4>3. row[e] = "pending"
        BY <2>9, <3>2 DEF Inv, ClaimsAreExclusive
      <4>1. row'[e] = "published" /\ row[e] = "pending"
        BY <1>4, <3>2, <4>2, <4>3 DEF Commit
      <4> QED
        BY <1>4, <4>1, <4>2 DEF Commit, Inv, RetryBudget
    <3>3. CASE e \notin pub[p].bad /\ e \notin pub[p].ok
      BY <1>4, <3>3 DEF Commit, Inv, RetryBudget
    <3> QED
      BY <3>1, <3>2, <3>3
  <2>6. RetryBudget'
    BY <2>5 DEF RetryBudget
  <2>7. MarksDelivered'
    <3>1. \A e \in Event : row'[e] = "published" => e \in pub[p].ok \/ row[e] = "published"
      BY <1>4 DEF Commit
    <3>2. \A e \in Event : row[e] # "none" => row'[e] # "none"
      BY <1>4 DEF Commit
    <3>3. \A q \in Publisher : pub[q] # Idle => pub[q].todo \subseteq Event
      BY PublisherFacts DEF Inv
    <3> QED
      BY <2>1, <3>1, <3>2, <3>3 DEF Inv, MarksDelivered
  <2> QED
    BY <2>4, <2>6, <2>7
<1>5. ASSUME NEW p \in Publisher, Crash(p) \/ Abandon(p)
      PROVE  (ClaimsAreExclusive /\ RetryBudget /\ MarksDelivered)'
  <2>1. /\ pub'[p] = Idle /\ UNCHANGED <<row, attempts, delivered>>
        /\ \A q \in Publisher : q # p => pub'[q] = pub[q]
    BY <1>5 DEF Crash, Abandon, Inv, TypeOK
  <2>2. \A q \in Publisher : Claimed(q)' = IF q = p THEN {} ELSE Claimed(q)
    <3>1. Idle.at # "batch"
      BY DEF Idle
    <3> QED
      BY <2>1, <3>1 DEF Claimed
  <2> QED
    BY <2>1, <2>2 DEF Inv, ClaimsAreExclusive, RetryBudget, MarksDelivered
<1>8. ASSUME NEW p \in Publisher, LoseSession(p)
      PROVE  (ClaimsAreExclusive /\ RetryBudget /\ MarksDelivered)'
  <2>1. /\ pub'[p].at = "lost" /\ pub[p] # Idle
        /\ pub'[p].todo = pub[p].todo /\ pub'[p].ok = pub[p].ok /\ pub'[p].bad = pub[p].bad
        /\ \A q \in Publisher : q # p => pub'[q] = pub[q]
        /\ UNCHANGED <<row, attempts, delivered>>
    BY <1>8, PublisherFacts DEF LoseSession, Inv, TypeOK
  <2>2. \A q \in Publisher : Claimed(q)' = IF q = p THEN {} ELSE Claimed(q)
    BY <2>1 DEF Claimed
  <2>3. ClaimsAreExclusive' /\ RetryBudget'
    BY <2>1, <2>2 DEF Inv, ClaimsAreExclusive, RetryBudget
  <2>4. MarksDelivered'
    BY <2>1 DEF Inv, MarksDelivered
  <2> QED
    BY <2>3, <2>4
<1>6. CASE Sweep
  <2>1. /\ \A e \in Event : e \in aged => row[e] = "dead" /\ row'[e] = "pending" /\ attempts'[e] = 0
        /\ \A e \in Event : e \notin aged => row'[e] = row[e] /\ attempts'[e] = attempts[e]
        /\ UNCHANGED <<delivered, pub>>
    BY <1>6 DEF Sweep, Inv, TypeOK
  <2>2. \A p \in Publisher : Claimed(p)' = Claimed(p) /\ Claimed(p) \subseteq Event
    <3>1. \A p \in Publisher : Claimed(p)' = Claimed(p)
      BY <2>1 DEF Claimed
    <3> QED
      BY <3>1, PublisherFacts DEF Inv
  <2>3. ClaimsAreExclusive'
    BY <2>1, <2>2 DEF Inv, ClaimsAreExclusive
  <2>4. RetryBudget'
    BY <2>1 DEF Inv, RetryBudget
  <2>5. \A f \in Event : /\ row[f] # "none" => row'[f] # "none"
                         /\ row'[f] = "published" => row[f] = "published"
    BY <2>1
  <2>6. MarksDelivered'
    BY <2>1, <2>5, MarksKept
  <2> QED
    BY <2>3, <2>4, <2>6
<1>7. CASE Break \/ Recover \/ UNCHANGED vars
  BY <1>7 DEF Break, Recover, vars, Inv, ClaimsAreExclusive, Claimed, RetryBudget, MarksDelivered
<1> QED
  BY <1>1, <1>2, <1>3, <1>4, <1>5, <1>6, <1>7, <1>8 DEF Next

LEMMA Invariance == Spec => []Inv
BY InitInv, NextInv, PTL DEF Spec

(* However sessions are lost and batches claimed again, no two             *)
(* transactions hold a row, and each row that one holds is still pending.  *)
THEOREM DeliveryIsExclusive == Spec => []ClaimsAreExclusive
BY Invariance, PTL DEF Inv

(* A row is dead-lettered exactly when its attempts are used up. *)
THEOREM BudgetIsKept == Spec => []RetryBudget
BY Invariance, PTL DEF Inv

(* The outbox implements AtLeastOnce: what is settled was delivered, and   *)
(* nothing is delivered before it is recorded; a publisher that has lost   *)
(* its session and goes on dispatching only repeats deliveries.            *)
THEOREM OutboxKeepsPromise == Spec => KeepsPromise
<1>1. Init => Promise!AbstractInit
  BY DEF Init, Promise!AbstractInit
<1>2. Inv /\ [Next]_vars => [Promise!AbstractNext]_(Promise!abstractVars)
  <2> SUFFICES ASSUME Inv, [Next]_vars
               PROVE  Promise!AbstractNext \/ UNCHANGED Promise!abstractVars
    OBVIOUS
  <2> DEFINE recorded == {e \in Event : row[e] # "none"}
             settled  == {e \in Event : row[e] = "published"}
  <2>1. ASSUME NEW e \in Event, WriteOutbox(e) PROVE Promise!AbstractNext
    <3>1. row[e] = "none" /\ row'[e] = "pending" /\ \A f \in Event : f # e => row'[f] = row[f]
      BY <2>1 DEF WriteOutbox, Inv, TypeOK
    <3>2. UNCHANGED delivered
      BY <2>1 DEF WriteOutbox
    <3>3. Promise!Record(e)
      BY <3>1, <3>2 DEF Promise!Record
    <3> QED
      BY <3>3 DEF Promise!AbstractNext
  <2>2. ASSUME NEW p \in Publisher, NEW e \in Event, Dispatch(p, e)
        PROVE  Promise!AbstractNext \/ UNCHANGED Promise!abstractVars
    <3>1. row[e] # "none" /\ UNCHANGED row
      BY <2>2, DispatchFacts DEF Dispatch
    <3>4. row[e] = "published" => delivered \cup {e} = delivered
      BY DEF Inv, MarksDelivered
    <3>2. CASE delivered' = delivered \cup {e} /\ row[e] # "published"
      <4>1. Promise!Deliver(e)
        BY <3>1, <3>2 DEF Promise!Deliver
      <4> QED
        BY <4>1 DEF Promise!AbstractNext
    <3>3. CASE delivered' = delivered
      BY <3>1, <3>3 DEF Promise!abstractVars
    <3> QED
      BY <2>2, <3>2, <3>3, <3>4, DispatchFacts
  <2>3. ASSUME NEW p \in Publisher, Commit(p) PROVE Promise!AbstractNext
    <3>1. pub[p] # Idle /\ pub[p] \in Batch /\ UNCHANGED delivered
      BY <2>3, PublisherFacts DEF Commit, Inv, TypeOK
    <3>2. \A e \in Claimed(p) : row[e] = "pending"
      BY DEF Inv, ClaimsAreExclusive
    <3>3. pub[p].ok \subseteq Claimed(p) /\ pub[p].bad \subseteq Claimed(p) /\ pub[p].ok \subseteq Event
      BY <2>3, <3>1, PublisherFacts DEF Commit, Inv
    <3>4. \A e \in Event : row'[e] = "published" <=> row[e] = "published" \/ e \in pub[p].ok
      <4>1. pub[p].ok \cap pub[p].bad = {}
        BY <3>1 DEF Inv, MarksDelivered
      <4> QED
        BY <2>3, <3>2, <3>3, <4>1 DEF Commit
    <3>5. \A e \in Event : row'[e] = "none" <=> row[e] = "none"
      BY <2>3, <3>2, <3>3 DEF Commit
    <3>6. pub[p].ok \subseteq delivered
      BY <3>1 DEF Inv, MarksDelivered
    <3>7. /\ pub[p].ok \in SUBSET Event /\ pub[p].ok \subseteq delivered
          /\ settled' = settled \cup pub[p].ok /\ recorded' = recorded /\ delivered' = delivered
      BY <3>1, <3>3, <3>4, <3>5, <3>6
    <3> HIDE DEF settled, recorded
    <3>8. \E S \in SUBSET Event :
            /\ S \subseteq delivered
            /\ settled' = settled \cup S /\ recorded' = recorded /\ delivered' = delivered
      BY <3>7
    <3> QED
      BY <3>8 DEF Promise!AbstractNext, Promise!Settle, settled, recorded
  <2>4. CASE Sweep
    <3>1. UNCHANGED delivered /\ \A e \in Event :
            /\ row'[e] = "none" <=> row[e] = "none"
            /\ row'[e] = "published" <=> row[e] = "published"
      BY <2>4 DEF Sweep, Inv, TypeOK
    <3> QED
      BY <3>1 DEF Promise!abstractVars
  <2>5. CASE UNCHANGED <<row, delivered>>
    BY <2>5 DEF Promise!abstractVars
  <2> QED
    BY <2>1, <2>2, <2>3, <2>4, <2>5 DEF Next, Select, Crash, LoseSession, Abandon, Break, Recover, vars
<1> QED
  BY <1>1, <1>2, Invariance, PTL DEF Spec, KeepsPromise, Promise!AbstractSpec

=============================================================================

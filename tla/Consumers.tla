----------------------------- MODULE Consumers ------------------------------
(***************************************************************************)
(* The two consumers of calls that may come again: the notification        *)
(* subscriber, fed by the outbox at least once                             *)
(* (cmd/api/notifications_subscriber.go, internal/notifications), and the   *)
(* M-Pesa callback, which Safaricom may repeat, delay or lose               *)
(* (server_routes_payments.go, internal/payments/mpesa_repo.go).            *)
(*                                                                          *)
(* A delivery walks the event's targets; each target is a row insert, and a *)
(* critical one is followed by an email once the row is in.  Two replicas   *)
(* may deliver the same event, and a delivery may stop anywhere.  The text  *)
(* of a notification is left out: its severity decides what happens.        *)
(***************************************************************************)
EXTENDS Naturals, FiniteSets, Sequences
LOCAL INSTANCE SequencesExt

CONSTANTS Deliverers,   \* replicas delivering events
          BusEvents,    \* events on the bus
          EventOf,      \* [BusEvents -> the payload: type, users, expected cash,
                        \*  variance or difference, whether a handover was rejected]
          Readers,      \* users with a feed
          Categories,   \* preference categories
          Checkouts,    \* STK pushes
          MpesaDays,    \* revenue days
          DayPitch,     \* [MpesaDays -> station]
          Pitches       \* stations

VARIABLES notice,       \* rows of notifications
          delivery,     \* [Deliverers -> {} or the delivery's progress]
          emails,       \* [BusEvents -> emails sent to the tenant's users]
          preference,   \* rows of notification_preferences
          pushed,       \* [Checkouts -> {} or the station of the accepted push]
          mpesa         \* [Checkouts -> {} or the row of mpesa_transactions]

noticeTables == <<notice, delivery, emails, preference>>
mpesaTables == <<pushed, mpesa>>
consumerTables == <<notice, delivery, emails, preference, pushed, mpesa>>

ConsumersInit ==
  /\ notice = {} /\ preference = {}
  /\ delivery = [d \in Deliverers |-> {}]
  /\ emails = [e \in BusEvents |-> 0]
  /\ pushed = [c \in Checkouts |-> {}] /\ mpesa = [c \in Checkouts |-> {}]

-----------------------------------------------------------------------------
(* Whom an event notifies: a sequence of (user or {} for the tenant,        *)
(* severity).                                                               *)

Target(u, severity) == [user |-> u, severity |-> severity]
EventUsers(e) == EventOf[e].users

(* Without a variance in the payload, expected cash counts as one.          *)
shiftClosedHasVariance(e) == EventOf[e].difference # 0 \/ EventOf[e].cash # 0

notifSpecFor(e) ==
  CASE EventOf[e].type \in {"RiskDetectionRun", "IncidentOpened"} -> <<Target({}, "critical")>>
    [] EventOf[e].type = "ApprovalRequested" -> <<Target({}, "warning")>>
    [] EventOf[e].type = "RevenueRecognized" -> <<Target({}, "info")>>
    [] EventOf[e].type = "ShiftClosed" -> <<Target({}, IF shiftClosedHasVariance(e) THEN "warning" ELSE "success")>>
    [] OTHER -> <<>>

(* A verdict goes to the reading's recorder, to everyone if that is unknown.*)
readingVerdictTargets(e, severity) ==
  IF EventUsers(e) = <<>> THEN <<Target({}, severity)>> ELSE <<Target({EventUsers(e)[1]}, severity)>>

(* An assignment or a receipt has no fallback audience.                     *)
nozzleAssignedTargets(e) ==
  IF EventUsers(e) = <<>> THEN <<>> ELSE <<Target({EventUsers(e)[1]}, "info")>>

collectionReceiptTargets(e) ==
  IF EventUsers(e) = <<>> THEN <<>>
  ELSE <<Target({EventUsers(e)[1]}, IF EventOf[e].rejected \/ EventOf[e].difference # 0 THEN "warning" ELSE "success")>>

(* One per attendant who checked in, however often the payload lists them.  *)
shiftApprovedTargets(e) ==
  LET users == SetToSeq(ToSet(EventUsers(e)))
  IN [i \in DOMAIN users |-> Target({users[i]}, "success")]

notifTargetsFor(e) ==
  CASE EventOf[e].type = "ReadingVerificationApproved" -> readingVerdictTargets(e, "success")
    [] EventOf[e].type \in {"ReadingVerificationCorrected", "ReadingVerificationRejected",
                            "ReadingVerificationFlagged"} -> readingVerdictTargets(e, "warning")
    [] EventOf[e].type \in {"ShiftNozzleAssigned", "ShiftNozzleUnassigned"} -> nozzleAssignedTargets(e)
    [] EventOf[e].type = "CashCollectionConfirmed" -> collectionReceiptTargets(e)
    [] EventOf[e].type = "ShiftApproved" -> shiftApprovedTargets(e)
    [] OTHER -> notifSpecFor(e)

-----------------------------------------------------------------------------
(* A delivery: the bus hands the event over (again), then one step a target.*)

subscribeNotifications(d, e) ==
  /\ delivery[d] = {}
  /\ notifTargetsFor(e) # <<>>
  /\ delivery' = [delivery EXCEPT ![d] = {[event |-> e, at |-> 1, mail |-> FALSE]}]
  /\ UNCHANGED <<notice, emails, preference, mpesaTables>>

(* The handler goes on to the next target, or returns.                      *)
Onward(q) == IF q.at < Len(notifTargetsFor(q.event)) THEN {[q EXCEPT !.at = @ + 1, !.mail = FALSE]} ELSE {}

(* INSERT .. ON CONFLICT (tenant, event, user) DO NOTHING: whether the row  *)
(* is new.                                                                  *)
FreshAlways(e, t) == TRUE

Fresh(e, t) == \A n \in notice : ~(n.event = e /\ n.user = t.user)

CreateFromEvent(d) ==
  \E q \in delivery[d] :
    LET t == notifTargetsFor(q.event)[q.at]
        fresh == Fresh(q.event, t)
    IN /\ ~q.mail
       /\ notice' = IF fresh
                      THEN notice \cup {[event |-> q.event, user |-> t.user, severity |-> t.severity, read |-> FALSE]}
                      ELSE notice
       /\ delivery' = [delivery EXCEPT ![d] =
            IF fresh /\ t.severity = "critical" THEN {[q EXCEPT !.mail = TRUE]} ELSE Onward(q)]
       /\ UNCHANGED <<emails, preference, mpesaTables>>

(* Best effort: a failed send is logged and the handler goes on.            *)
emailTenantUsers(d) ==
  \E q \in delivery[d] :
    /\ q.mail
    /\ emails' \in {emails, [emails EXCEPT ![q.event] = @ + 1]}
    /\ delivery' = [delivery EXCEPT ![d] = Onward(q)]
    /\ UNCHANGED <<notice, preference, mpesaTables>>

(* An insert fails, or the process dies: the outbox will deliver again.     *)
DeliveryStops(d) ==
  /\ delivery[d] # {}
  /\ delivery' = [delivery EXCEPT ![d] = {}]
  /\ UNCHANGED <<notice, emails, preference, mpesaTables>>

-----------------------------------------------------------------------------
(* The feed.                                                                *)

ListForUser(u) == {n \in notice : n.user \in {{}, {u}}}

MarkRead(u, n) ==
  /\ n \in ListForUser(u) /\ ~n.read
  /\ notice' = (notice \ {n}) \cup {[n EXCEPT !.read = TRUE]}

handleMarkNotificationRead(u, n) == MarkRead(u, n) /\ UNCHANGED <<delivery, emails, preference, mpesaTables>>

MarkAllRead(u) ==
  notice' = (notice \ ListForUser(u)) \cup {[n EXCEPT !.read = TRUE] : n \in ListForUser(u)}

handleMarkAllNotificationsRead(u) == MarkAllRead(u) /\ UNCHANGED <<delivery, emails, preference, mpesaTables>>

(* One row per (user, category): a second choice replaces the first.        *)
Upsert(u, c, b) == preference' = {p \in preference : <<p[1], p[2]>> # <<u, c>>} \cup {<<u, c, b>>}

handleUpsertNotificationPreference(u, c, b) == Upsert(u, c, b) /\ UNCHANGED <<notice, delivery, emails, mpesaTables>>

-----------------------------------------------------------------------------
(* M-Pesa: the push is accepted by Safaricom before the row is inserted, so *)
(* a callback may find no row; the handler acknowledges it all the same.    *)

STKPush(c, st) ==
  /\ pushed[c] = {}
  /\ pushed' = [pushed EXCEPT ![c] = {st}]
  /\ UNCHANGED <<mpesa, noticeTables>>

InitiateMpesa(c) ==
  /\ pushed[c] # {} /\ mpesa[c] = {}
  /\ mpesa' = [mpesa EXCEPT ![c] = {[station |-> s, status |-> "pending", day |-> {}] : s \in pushed[c]}]

handleInitiateMpesaSTKPush(c) == InitiateMpesa(c) /\ UNCHANGED <<pushed, noticeTables>>

SettleMpesaAgain(c, status) == mpesa' = [mpesa EXCEPT ![c] = {[m EXCEPT !.status = status] : m \in @}]

SettleMpesaByCheckoutID(c, status) ==
  mpesa' = [mpesa EXCEPT ![c] = {IF m.status = "pending" THEN [m EXCEPT !.status = status] ELSE m : m \in @}]

handleMpesaCallback(c, success) ==
  /\ pushed[c] # {}
  /\ SettleMpesaByCheckoutID(c, IF success THEN "paid" ELSE "failed")
  /\ UNCHANGED <<pushed, noticeTables>>

ReconcileMpesa(c, day) ==
  \E m \in mpesa[c] :
    /\ m.status = "paid"
    /\ mpesa' = [mpesa EXCEPT ![c] = {[m EXCEPT !.day = {day}]}]

handleReconcileMpesa(c, day) ==
  /\ \E m \in mpesa[c] : m.station = DayPitch[day]
  /\ ReconcileMpesa(c, day)
  /\ UNCHANGED <<pushed, noticeTables>>

-----------------------------------------------------------------------------
NoticeNext ==
  \/ \E d \in Deliverers, e \in BusEvents : subscribeNotifications(d, e)
  \/ \E d \in Deliverers : CreateFromEvent(d) \/ emailTenantUsers(d) \/ DeliveryStops(d)
  \/ \E u \in Readers, n \in notice : handleMarkNotificationRead(u, n)
  \/ \E u \in Readers : handleMarkAllNotificationsRead(u)
  \/ \E u \in Readers, c \in Categories, b \in BOOLEAN : handleUpsertNotificationPreference(u, c, b)

MpesaNext ==
  \/ \E c \in Checkouts, st \in Pitches : STKPush(c, st)
  \/ \E c \in Checkouts : handleInitiateMpesaSTKPush(c)
  \/ \E c \in Checkouts, b \in BOOLEAN : handleMpesaCallback(c, b)
  \/ \E c \in Checkouts, day \in MpesaDays : handleReconcileMpesa(c, day)

-----------------------------------------------------------------------------
(* However often and wherever the outbox redelivers an event, its critical  *)
(* notification is emailed at most once                                     *)
(* (notifications_subscriber.go:82: "outbox redelivery").                   *)
EmailedOnce == \A e \in BusEvents : emails[e] <= 1

(* A payment counted into a revenue day was paid, and at that day's         *)
(* station: no repeated or late callback turns it over afterwards           *)
(* (mpesa_repo.go:101: "a duplicated callback can't double-apply").         *)
ReconciledIsPaid ==
  \A c \in Checkouts : \A m \in mpesa[c] :
    m.day # {} => m.status = "paid" /\ m.day \subseteq {day \in MpesaDays : DayPitch[day] = m.station}
=============================================================================

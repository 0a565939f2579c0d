------------------------------ MODULE Workforce ------------------------------
(* Employees, shift teams and their three-day rotation (internal/workforce),   *)
(* the staffing of a shift and attendance (internal/operations), and the setup *)
(* checklist that gates the opening of a shift (internal/setup).  A handler    *)
(* checks through the pool and writes in a later statement or transaction:     *)
(* what it decided waits in todo until its write happens.                      *)
EXTENDS Integers, FiniteSets

CONSTANTS Crew, Logins, Sites, Calendar, ShiftIds, Hoses,
          MaxTodo         \* bound on the requests between their check and their write

VARIABLES employee,   \* employees: {} or {row}
          post,       \* active employee_roles codes
          team,       \* rotation_orders of shift_teams per station
          teamMember,     \* shift_team_members, <<station, order, employee>>
          anchor,     \* stations.rotation_anchor_date: {} or {day}
          roster,     \* shifts: {} or {row}
          attendant,  \* shift_attendants, <<shift, login>>
          hose,       \* shift_nozzle_assignments
          attendance, \* shift_attendance, [shift, login -> status]
          equipment,  \* what a station has: tanks, opened tanks, pumps, nozzles
          step,       \* setup_steps marked completed, <<station, code>>
          todo

workforceTables == <<employee, post, team, teamMember, anchor, roster, attendant, hose, attendance, equipment, step, todo>>
peopleTables == <<employee, post, team, teamMember, anchor>>
shiftTables == <<roster, attendant, hose, attendance>>
setupTables == <<equipment, step>>

Slots == {"morning", "evening"}
Bare == [tanks |-> 0, opened |-> 0, pumps |-> 0, nozzles |-> 0]
Equipped == [tanks |-> 1, opened |-> 1, pumps |-> 1, nozzles |-> 1]

WorkforceInit ==
  /\ employee = [e \in Crew |-> {}] /\ post = {"pump_attendant"}
  /\ team = [s \in Sites |-> {}] /\ teamMember = {} /\ anchor = [s \in Sites |-> {}]
  /\ roster = [h \in ShiftIds |-> {}] /\ attendant = {} /\ hose = {}
  /\ attendance = [x \in ShiftIds \X Logins |-> "none"]
  /\ equipment \in [Sites -> {Bare, Equipped}] /\ step = {} /\ todo = {}

Defer(t) == t \notin todo /\ Cardinality(todo) < MaxTodo /\ todo' = todo \cup {t}
Due(t) == t \in todo /\ todo' = todo \ {t}

------------------------------------------------------------------------------
\* The rotation.  Go's remainder takes the sign of the dividend.
Remainder3(a) == IF a >= 0 THEN a % 3 ELSE -((-a) % 3)
mod3(a) == (Remainder3(a) + 3) % 3
daysBetween(a, b) == b - a

RotationBackwards(a, day) ==
  LET morning == mod3(daysBetween(a, day)) IN
  [morning |-> morning, evening |-> mod3(morning + 1), rest |-> mod3(morning + 2)]
Rotation(a, day) ==
  LET cycle == mod3(daysBetween(a, day))
      morning == mod3(3 - cycle)
  IN [morning |-> morning, evening |-> mod3(morning + 1), rest |-> mod3(morning + 2)]

OrderForSlot(rot, sl) == IF sl = "evening" THEN rot.evening ELSE rot.morning

TeamMembers(s, o) == {e \in Crew : <<s, o, e>> \in teamMember}

\* No team: the rotation is not configured, or the team is not set up yet.
ScheduledTeamFor(s, day, sl) ==
  {o \in team[s] : \E a \in anchor[s] : o = OrderForSlot(Rotation(a, day), sl)}

RosterPreview(s, day) == IF anchor[s] # {} /\ Cardinality(team[s]) = 3
                         THEN {Rotation(a, day) : a \in anchor[s]} ELSE {}

\* The slots a user works on a day, by the anchor of the employee's own station.
DutyForUser(l, day) ==
  {sl \in Slots : \E e \in Crew, x \in teamMember :
     /\ x[3] = e
     /\ \E row \in employee[e] : /\ row.login = {l} /\ row.status = "active"
                                 /\ \E a \in anchor[row.site] : x[2] = OrderForSlot(Rotation(a, day), sl)}

------------------------------------------------------------------------------
\* Employees.  A user is linked to at most one of them (uq_employees_user).
LinkFree(e, links) == \A f \in Crew \ {e} : \A row \in employee[f] : row.login \cap links = {}

CreateEmployeeRole(k) == k \notin post /\ post' = post \cup {k}
handleCreateEmployeeRole(k) ==
  CreateEmployeeRole(k) /\ UNCHANGED <<employee, team, teamMember, anchor, shiftTables, setupTables, todo>>

EmployeeRoleExists(k) == k \in post

CreateEmployee(e, s, links, k) ==
  /\ employee[e] = {} /\ LinkFree(e, links)
  /\ employee' = [employee EXCEPT ![e] = {[site |-> s, login |-> links, role |-> k, status |-> "active"]}]
handleCreateEmployee(e, s, links, k) ==
  /\ EmployeeRoleExists(k) /\ CreateEmployee(e, s, links, k)
  /\ UNCHANGED <<post, team, teamMember, anchor, shiftTables, setupTables, todo>>

\* COALESCE keeps what the request does not name: a link is never removed.
UpdateEmployee(e, links, st) ==
  /\ employee[e] # {} /\ LinkFree(e, links)
  /\ employee' = [employee EXCEPT ![e] = {[row EXCEPT !.status = st, !.login = IF links = {} THEN @ ELSE links] : row \in @}]
handleUpdateEmployee(e, links, st) ==
  UpdateEmployee(e, links, st) /\ UNCHANGED <<post, team, teamMember, anchor, shiftTables, setupTables, todo>>

------------------------------------------------------------------------------
\* Teams.
EnsureTeams(s) == team' = [team EXCEPT ![s] = 0..2]
handleEnsureTeams(s) ==
  EnsureTeams(s) /\ UNCHANGED <<employee, post, teamMember, anchor, shiftTables, setupTables, todo>>

\* The team's rows go, then each employee's row anywhere, then the new rows;
\* an unknown employee fails the transaction (shift_team_members_employee_fk).
SetTeamMembers(s, o, es) ==
  /\ o \in team[s] /\ \A e \in es : employee[e] # {}
  /\ teamMember' = {x \in teamMember : ~ (x[1] = s /\ x[2] = o) /\ x[3] \notin es} \cup {<<s, o, e>> : e \in es}
handleSetTeamMembers(s, o, es) ==
  SetTeamMembers(s, o, es) /\ UNCHANGED <<employee, post, team, anchor, shiftTables, setupTables, todo>>

SetRotationAnchor(s, days) == anchor' = [anchor EXCEPT ![s] = days]
handleSetRotationAnchor(s, days) ==
  SetRotationAnchor(s, days) /\ UNCHANGED <<employee, post, team, teamMember, shiftTables, setupTables, todo>>

------------------------------------------------------------------------------
\* The setup checklist of one station: what is there against what is required.
Counts(s) ==
  [tanks     |-> equipment[s].tanks,
   pumps     |-> equipment[s].pumps,
   nozzles   |-> equipment[s].nozzles,
   opened    |-> equipment[s].opened,
   employees |-> Cardinality({e \in Crew : \E row \in employee[e] : row.site = s /\ row.status = "active"}),
   teams     |-> Cardinality(team[s]),
   anchors   |-> Cardinality(anchor[s])]

readinessFor(code, c) ==
  CASE code = "tanks"           -> c.tanks >= 1
    [] code = "pumps"           -> c.pumps >= 1
    [] code = "nozzles"         -> c.pumps >= 1 /\ c.nozzles >= 1
    [] code = "opening_stock"   -> c.tanks >= 1 /\ c.opened >= c.tanks
    [] code = "employees"       -> c.employees >= 1
    [] code = "teams"           -> c.employees >= 1 /\ c.teams >= 3
    [] code = "rotation_anchor" -> c.teams >= 3 /\ c.anchors >= 1

StationSteps == {"tanks", "pumps", "nozzles", "opening_stock", "employees", "teams", "rotation_anchor"}
openShiftOperationalSteps == {"tanks", "pumps", "nozzles", "opening_stock", "employees"}

buildChecklist(s) ==
  [c \in StationSteps |-> [ready |-> readinessFor(c, Counts(s)), done |-> <<s, c>> \in step]]

\* What the checklist marks as done does not count, what is there does.
OpenShiftBlockers(s) == {c \in openShiftOperationalSteps : ~ buildChecklist(s)[c].ready}

UpsertStep(s, c, st) == step' = IF st = "completed" THEN step \cup {<<s, c>>} ELSE step \ {<<s, c>>}
handlePatchSetupChecklist(s, c, st) ==
  UpsertStep(s, c, st) /\ UNCHANGED <<peopleTables, shiftTables, equipment, todo>>

\* The station's equipment, by the handlers of the master data.
Install(s, eq) == equipment' = [equipment EXCEPT ![s] = eq] /\ UNCHANGED <<peopleTables, shiftTables, step, todo>>

------------------------------------------------------------------------------
\* Staffing a shift.  The day of the shift is open throughout (OperatingDay).
IsAttendantOnShift(h, l) == <<h, l>> \in attendant
ShiftOpen(h) == \E row \in roster[h] : row.status = "open"

IsStationMemberForShift(h, l) ==
  \E row \in roster[h], e \in Crew : \E emp \in employee[e] :
    /\ emp.login = {l} /\ emp.status = "active"
    /\ emp.site = row.site \/ <<row.site, row.order, e>> \in teamMember

\* The members of the scheduled team that have a login, as read by the check.
Rostered(s, day, sl) ==
  UNION {row.login : row \in UNION {employee[e] : e \in UNION {TeamMembers(s, o) : o \in ScheduledTeamFor(s, day, sl)}}}

handleOpenShift(h, s, day, sl) ==
  \/ /\ OpenShiftBlockers(s) = {} /\ Rostered(s, day, sl) # {}
     /\ \E o \in ScheduledTeamFor(s, day, sl) :
          Defer([op |-> "open", shift |-> h, site |-> s, day |-> day, slot |-> sl, order |-> o,
                 logins |-> Rostered(s, day, sl)])
     /\ UNCHANGED <<peopleTables, shiftTables, setupTables>>
  \/ \E t \in todo :
       /\ t.op = "open" /\ t.shift = h /\ t.site = s /\ t.day = day /\ t.slot = sl /\ roster[h] = {} /\ Due(t)
       /\ roster' = [roster EXCEPT ![h] = {[site |-> s, day |-> day, slot |-> sl, order |-> t.order, status |-> "open"]}]
       /\ attendant' = attendant \cup ({h} \X t.logins)
       /\ UNCHANGED <<peopleTables, hose, attendance, setupTables>>

\* Shift close (ShiftReadings) does not look at staffing.
CloseShift(h) ==
  /\ ShiftOpen(h) /\ roster' = [roster EXCEPT ![h] = {[row EXCEPT !.status = "closed"] : row \in @}]
  /\ UNCHANGED <<peopleTables, attendant, hose, attendance, setupTables, todo>>

\* shiftForWrite: the status is read without a lock.
shiftForWrite(h, t) == ShiftOpen(h) /\ Defer(t) /\ UNCHANGED <<peopleTables, shiftTables, setupTables>>

AssignAttendant(h, l) == <<h, l>> \notin attendant /\ attendant' = attendant \cup {<<h, l>>}
handleAssignAttendant(h, l) ==
  LET t == [op |-> "assign", shift |-> h, login |-> l] IN
  \/ IsStationMemberForShift(h, l) /\ shiftForWrite(h, t)
  \/ Due(t) /\ AssignAttendant(h, l) /\ UNCHANGED <<peopleTables, roster, hose, attendance, setupTables>>

UnassignAttendant(h, l) == <<h, l>> \in attendant /\ attendant' = attendant \ {<<h, l>>}
handleUnassignAttendant(h, l) ==
  LET t == [op |-> "unassign", shift |-> h, login |-> l] IN
  \/ shiftForWrite(h, t)
  \/ Due(t) /\ UnassignAttendant(h, l) /\ UNCHANGED <<peopleTables, roster, hose, attendance, setupTables>>

NozzleAssignedOnShift(h, n) == \E x \in hose : x.shift = h /\ x.nozzle = n
AssignNozzle(h, n, l) ==
  /\ ~ NozzleAssignedOnShift(h, n)
  /\ hose' = hose \cup {[shift |-> h, nozzle |-> n, login |-> l, confirmed |-> FALSE]}
handleAssignNozzle(h, n, l) ==
  LET t == [op |-> "nozzle", shift |-> h, nozzle |-> n, login |-> l] IN
  \/ IsAttendantOnShift(h, l) /\ shiftForWrite(h, t)
  \/ Due(t) /\ AssignNozzle(h, n, l) /\ UNCHANGED <<peopleTables, roster, attendant, attendance, setupTables>>

UnassignNozzle(h, n) == NozzleAssignedOnShift(h, n) /\ hose' = {x \in hose : ~ (x.shift = h /\ x.nozzle = n)}
handleUnassignNozzle(h, n) ==
  LET t == [op |-> "free nozzle", shift |-> h, nozzle |-> n] IN
  \/ NozzleAssignedOnShift(h, n) /\ shiftForWrite(h, t)
  \/ Due(t) /\ UnassignNozzle(h, n) /\ UNCHANGED <<peopleTables, roster, attendant, attendance, setupTables>>

------------------------------------------------------------------------------
\* Attendance: an attendant acts on the shift they are assigned to.
shiftForSelfAction(h, l) == roster[h] # {} /\ IsAttendantOnShift(h, l)

CheckIn(h, l) == attendance[h, l] = "none" /\ attendance' = [attendance EXCEPT ![h, l] = "checked_in"]
handleCheckIn(h, l) ==
  LET t == [op |-> "check in", shift |-> h, login |-> l] IN
  \/ shiftForSelfAction(h, l) /\ attendance[h, l] = "none" /\ shiftForWrite(h, t)
  \/ Due(t) /\ CheckIn(h, l) /\ UNCHANGED <<peopleTables, roster, attendant, hose, setupTables>>

CheckOut(h, l) == attendance[h, l] = "checked_in" /\ attendance' = [attendance EXCEPT ![h, l] = "checked_out"]
handleCheckOut(h, l) ==
  /\ shiftForSelfAction(h, l) /\ CheckOut(h, l)
  /\ UNCHANGED <<peopleTables, roster, attendant, hose, setupTables, todo>>

ConfirmNozzleAssignment(h, n) ==
  /\ \E x \in hose : x.shift = h /\ x.nozzle = n /\ ~ x.confirmed
  /\ hose' = {IF x.shift = h /\ x.nozzle = n THEN [x EXCEPT !.confirmed = TRUE] ELSE x : x \in hose}
handleConfirmNozzleAssignment(h, n, l) ==
  LET t == [op |-> "confirm", shift |-> h, nozzle |-> n] IN
  \/ /\ shiftForSelfAction(h, l) /\ \E x \in hose : x.shift = h /\ x.nozzle = n /\ x.login = l /\ ~ x.confirmed
     /\ shiftForWrite(h, t)
  \/ Due(t) /\ ConfirmNozzleAssignment(h, n) /\ UNCHANGED <<peopleTables, roster, attendant, attendance, setupTables>>

\* A write that the database refuses: the row is there already, or gone.
Refused(t) ==
  /\ CASE t.op = "open"        -> roster[t.shift] # {}
       [] t.op = "assign"      -> <<t.shift, t.login>> \in attendant
       [] t.op = "unassign"    -> <<t.shift, t.login>> \notin attendant
       [] t.op = "nozzle"      -> NozzleAssignedOnShift(t.shift, t.nozzle)
       [] t.op = "free nozzle" -> ~ NozzleAssignedOnShift(t.shift, t.nozzle)
       [] t.op = "check in"    -> attendance[t.shift, t.login] # "none"
       [] t.op = "confirm"     -> ~ \E x \in hose : x.shift = t.shift /\ x.nozzle = t.nozzle /\ ~ x.confirmed
  /\ Due(t)
  /\ UNCHANGED <<peopleTables, shiftTables, setupTables>>

------------------------------------------------------------------------------
CrewNext ==
  \/ handleCreateEmployeeRole("cashier")
  \/ \E e \in Crew, links \in {{}} \cup {{l} : l \in Logins} :
       \/ \E s \in Sites, k \in {"pump_attendant", "cashier"} : handleCreateEmployee(e, s, links, k)
       \/ \E st \in {"active", "inactive"} : handleUpdateEmployee(e, links, st)
  \/ \E s \in Sites :
       \/ handleEnsureTeams(s)
       \/ \E o \in 0..2, es \in SUBSET Crew : handleSetTeamMembers(s, o, es)
       \/ \E days \in {{}} \cup {{d} : d \in Calendar} : handleSetRotationAnchor(s, days)
       \/ \E c \in {"tanks", "teams"}, st \in {"completed", "pending", "skipped"} : handlePatchSetupChecklist(s, c, st)
       \/ \E eq \in {Bare, Equipped, [Equipped EXCEPT !.opened = 0]} : Install(s, eq)

StaffingNext ==
  \/ \E h \in ShiftIds, s \in Sites, day \in Calendar, sl \in Slots : handleOpenShift(h, s, day, sl)
  \/ \E h \in ShiftIds : CloseShift(h)
  \/ \E h \in ShiftIds, l \in Logins :
       \/ handleAssignAttendant(h, l) \/ handleUnassignAttendant(h, l)
       \/ handleCheckIn(h, l) \/ handleCheckOut(h, l)
       \/ \E n \in Hoses : handleAssignNozzle(h, n, l) \/ handleConfirmNozzleAssignment(h, n, l)
  \/ \E h \in ShiftIds, n \in Hoses : handleUnassignNozzle(h, n)
  \/ \E t \in todo : Refused(t)

\* On every day, before the anchor and after it, the three teams of a station
\* share out the morning, the evening and the rest, and each team goes from
\* morning to evening to rest from one day to the next (RotationDay's table);
\* and a user whose team is of their own station is told the slot that the
\* schedule gives that team (DutyForUser, ScheduledTeamFor), and the roster shown
\* in advance names the teams that are then scheduled (RosterPreview).
RosterRotates ==
  \A s \in Sites, d \in Calendar :
    /\ \A a \in anchor[s] :
         LET today == Rotation(a, d) tomorrow == Rotation(a, d + 1) IN
         /\ {today.morning, today.evening, today.rest} = 0..2
         /\ a = d => today.morning = 0
         /\ tomorrow.evening = today.morning /\ tomorrow.rest = today.evening /\ tomorrow.morning = today.rest
    /\ \A sl \in Slots : \A o \in ScheduledTeamFor(s, d, sl) : \A e \in TeamMembers(s, o) : \A row \in employee[e] :
         row.site = s /\ row.status = "active" => \A l \in row.login : DutyForUser(l, d) = {sl}
    /\ \A shown \in RosterPreview(s, d), sl \in Slots : ScheduledTeamFor(s, d, sl) = {OrderForSlot(shown, sl)}
==============================================================================

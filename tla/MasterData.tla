----------------------------- MODULE MasterData -----------------------------
(***************************************************************************)
(* The estate (companies, regions, stations), the forecourt (products,     *)
(* tanks, pumps, nozzles) and the calibration charts that turn a dip into  *)
(* litres.  Rows are soft-deleted.  A handler looks at the rows it refers  *)
(* to through the pool and writes in a later transaction: a request that   *)
(* has passed its checks waits in pending until it writes, and what it     *)
(* then meets is the table's constraints, not its checks.  Checks that the *)
(* writing statement repeats are part of the write alone.                  *)
(***************************************************************************)
EXTENDS Integers, FiniteSets, Sequences

CONSTANTS
  FirmIds, AreaIds, PitchIds,             \* ids of companies, regions, stations
  GradeIds, TankIds, PumpIds, NozzleIds,  \* ids of products, tanks, pumps, nozzles
  Numbers,                                \* numbers painted on pumps and nozzles
  Charts,                                 \* uploaded charts: sequences of <<dip, volume>>
  Depths,                                 \* dips an attendant reads
  Capacity,                               \* a tank's capacity
  MaxDips,                                \* bound on dip rows
  MaxPending                              \* bound on the requests between check and write

VARIABLES
  companies, regions, stations,  \* status; a region's or station's parents
  products, tanks, pumps, nozzles,
  opened,                        \* tanks with an opening balance in the stock ledger
  metered,                       \* nozzles with an initial meter reading
  calibrated,                    \* pumps with a calibration record
  charts,                        \* charts uploaded, in order, with their tank and status
  dips,                          \* tank_dip_readings, in order
  watch,                         \* the status of the shift the dips belong to
  pending

estateTables == <<companies, regions, stations>>
forecourtTables == <<products, tanks, pumps, nozzles, opened, metered, calibrated>>
dipTables == <<charts, dips, watch>>
masterTables == <<estateTables, forecourtTables, dipTables, pending>>

Lifecycle == {"active", "inactive", "maintenance", "decommissioned"}
Listed(x) == x.status \notin {"none", "deleted"}
Row == [status |-> "none"]

MasterDataInit ==
  /\ companies = [c \in FirmIds |-> Row]
  /\ regions = [g \in AreaIds |-> Row]
  /\ stations = [s \in PitchIds |-> Row]
  /\ products = [p \in GradeIds |-> Row]
  /\ tanks = [t \in TankIds |-> Row]
  /\ pumps = [p \in PumpIds |-> Row]
  /\ nozzles = [n \in NozzleIds |-> Row]
  /\ opened = {} /\ metered = {} /\ calibrated = {}
  /\ charts = <<>> /\ dips = <<>> /\ watch = "open"
  /\ pending = {}

\* A request has passed its checks; it writes; it is refused by a constraint
\* or by the row being gone.
Accepted(q) == q \notin pending /\ Cardinality(pending) < MaxPending /\ pending' = pending \cup {q}
Performed(q) == q \in pending /\ pending' = pending \ {q}
Dropped == \E q \in pending : pending' = pending \ {q} /\ UNCHANGED <<estateTables, forecourtTables, dipTables>>

-----------------------------------------------------------------------------
\* Companies.
GetCompany(c) == Listed(companies[c])
CreateCompany(c) == companies[c] = Row /\ companies' = [companies EXCEPT ![c] = [status |-> "active"]]
UpdateCompany(c, st) == GetCompany(c) /\ companies' = [companies EXCEPT ![c].status = st]
SoftDeleteCompany(c) == GetCompany(c) /\ companies' = [companies EXCEPT ![c].status = "deleted"]

handleCreateCompany(c) == CreateCompany(c) /\ UNCHANGED <<regions, stations, forecourtTables, dipTables, pending>>
handleUpdateCompany(c, st) == UpdateCompany(c, st) /\ UNCHANGED <<regions, stations, forecourtTables, dipTables, pending>>
handleDeleteCompany(c) == SoftDeleteCompany(c) /\ UNCHANGED <<regions, stations, forecourtTables, dipTables, pending>>

\* Regions.  The company is checked through the pool; a company deleted since
\* still satisfies the foreign key.
GetRegion(g) == Listed(regions[g])
CreateRegion(g, c) ==
  /\ regions[g] = Row /\ companies[c] # Row
  /\ regions' = [regions EXCEPT ![g] = [status |-> "active", company |-> c]]
UpdateRegion(g, st) == GetRegion(g) /\ regions' = [regions EXCEPT ![g].status = st]
SoftDeleteRegion(g) == GetRegion(g) /\ regions' = [regions EXCEPT ![g].status = "deleted"]

handleCreateRegion(g, c) ==
  /\ \/ GetCompany(c) /\ Accepted(<<"region", g, c>>) /\ UNCHANGED regions
     \/ Performed(<<"region", g, c>>) /\ CreateRegion(g, c)
  /\ UNCHANGED <<companies, stations, forecourtTables, dipTables>>
handleUpdateRegion(g, st) == UpdateRegion(g, st) /\ UNCHANGED <<companies, stations, forecourtTables, dipTables, pending>>
handleDeleteRegion(g) == SoftDeleteRegion(g) /\ UNCHANGED <<companies, stations, forecourtTables, dipTables, pending>>

\* Stations.  The region is optional, is not compared with the company, and
\* is not looked up at all by an update.
GetStation(s) == Listed(stations[s])
CreateStation(s, c, gs) ==
  /\ stations[s] = Row /\ companies[c] # Row /\ \A g \in gs : regions[g] # Row
  /\ stations' = [stations EXCEPT ![s] = [status |-> "active", company |-> c, region |-> gs]]
UpdateStation(s, gs, st) ==
  /\ GetStation(s) /\ \A g \in gs : regions[g] # Row
  /\ stations' = [stations EXCEPT ![s].status = st, ![s].region = IF gs = {} THEN @ ELSE gs]
SoftDeleteStation(s) == GetStation(s) /\ stations' = [stations EXCEPT ![s].status = "deleted"]

handleCreateStation(s, c, gs) ==
  /\ \/ /\ GetCompany(c) /\ \A g \in gs : GetRegion(g)
        /\ Accepted(<<"station", s, c, gs>>) /\ UNCHANGED stations
     \/ Performed(<<"station", s, c, gs>>) /\ CreateStation(s, c, gs)
  /\ UNCHANGED <<companies, regions, forecourtTables, dipTables>>
handleUpdateStation(s, gs, st) ==
  UpdateStation(s, gs, st) /\ UNCHANGED <<companies, regions, forecourtTables, dipTables, pending>>
handleDeleteStation(s) == SoftDeleteStation(s) /\ UNCHANGED <<companies, regions, forecourtTables, dipTables, pending>>

-----------------------------------------------------------------------------
\* Products.
GetProduct(p) == Listed(products[p])
CreateProduct(p) == products[p] = Row /\ products' = [products EXCEPT ![p] = [status |-> "active"]]
UpdateProduct(p, st) == GetProduct(p) /\ products' = [products EXCEPT ![p].status = st]
SoftDeleteProduct(p) == GetProduct(p) /\ products' = [products EXCEPT ![p].status = "deleted"]
CountActiveForProduct(p) == Cardinality({t \in TankIds : Listed(tanks[t]) /\ tanks[t].product = p})

handleCreateProduct(p) ==
  CreateProduct(p) /\ UNCHANGED <<estateTables, tanks, pumps, nozzles, opened, metered, calibrated, dipTables, pending>>
handleUpdateProduct(p, st) ==
  UpdateProduct(p, st) /\ UNCHANGED <<estateTables, tanks, pumps, nozzles, opened, metered, calibrated, dipTables, pending>>
handleDeleteProduct(p) ==
  /\ \/ GetProduct(p) /\ CountActiveForProduct(p) = 0 /\ Accepted(<<"drop product", p>>) /\ UNCHANGED products
     \/ Performed(<<"drop product", p>>) /\ SoftDeleteProduct(p)
  /\ UNCHANGED <<estateTables, tanks, pumps, nozzles, opened, metered, calibrated, dipTables>>

-----------------------------------------------------------------------------
\* Nozzles carry the station and the product of their tank; the composite
\* foreign keys hold them equal, for deleted rows too.
nozzles_pump_fk(n) == n.pump \in PumpIds /\ pumps[n.pump] # Row /\ pumps[n.pump].station = n.station
nozzles_tank_fk(n) == tanks[n.tank] # Row /\ tanks[n.tank].station = n.station /\ tanks[n.tank].product = n.product

\* Tanks.
GetTank(t) == Listed(tanks[t])
CreateTank(t, s, p) ==
  /\ tanks[t] = Row /\ stations[s] # Row /\ products[p] # Row
  /\ tanks' = [tanks EXCEPT ![t] = [status |-> "active", station |-> s, product |-> p]]
UpdateTank(t, ps) ==
  /\ GetTank(t) /\ \A p \in ps : products[p] # Row
  /\ \A n \in NozzleIds : (nozzles[n] # Row /\ nozzles[n].tank = t) => ps \subseteq {nozzles[n].product}
  /\ tanks' = [tanks EXCEPT ![t].product = IF ps = {} THEN @ ELSE CHOOSE p \in ps : TRUE]
UpdateTankStatus(t, st) == GetTank(t) /\ tanks' = [tanks EXCEPT ![t].status = st]
SoftDeleteTank(t) == GetTank(t) /\ tanks' = [tanks EXCEPT ![t].status = "deleted"]
CountActiveForTank(t) == Cardinality({n \in NozzleIds : Listed(nozzles[n]) /\ nozzles[n].tank = t})

\* Any other status is reachable from one that is not terminal.
checkLifecycleTransition(from, to) == to \in Lifecycle \ {from} /\ from # "decommissioned"

handleCreateTank(t, s, p) ==
  /\ \/ GetStation(s) /\ GetProduct(p) /\ Accepted(<<"tank", t, s, p>>) /\ UNCHANGED tanks
     \/ Performed(<<"tank", t, s, p>>) /\ CreateTank(t, s, p)
  /\ UNCHANGED <<estateTables, products, pumps, nozzles, opened, metered, calibrated, dipTables>>
handleUpdateTank(t, ps) ==
  /\ \/ GetTank(t) /\ (\A p \in ps : GetProduct(p)) /\ Accepted(<<"set tank", t, ps>>) /\ UNCHANGED tanks
     \/ Performed(<<"set tank", t, ps>>) /\ UpdateTank(t, ps)
  /\ UNCHANGED <<estateTables, products, pumps, nozzles, opened, metered, calibrated, dipTables>>
handleDeleteTank(t) ==
  /\ \/ GetTank(t) /\ CountActiveForTank(t) = 0 /\ t \notin opened /\ Accepted(<<"drop tank", t>>) /\ UNCHANGED tanks
     \/ Performed(<<"drop tank", t>>) /\ SoftDeleteTank(t)
  /\ UNCHANGED <<estateTables, products, pumps, nozzles, opened, metered, calibrated, dipTables>>
handleUpdateTankStatus(t, st) ==
  /\ \/ /\ GetTank(t) /\ checkLifecycleTransition(tanks[t].status, st)
        /\ Accepted(<<"tank status", t, st>>) /\ UNCHANGED tanks
     \/ Performed(<<"tank status", t, st>>) /\ UpdateTankStatus(t, st)
  /\ UNCHANGED <<estateTables, products, pumps, nozzles, opened, metered, calibrated, dipTables>>

\* The stock ledger opens a tank (StockLedger has the whole of it).
handleSetTankOpeningBalance(t) ==
  /\ GetTank(t) /\ t \notin opened /\ opened' = opened \cup {t}
  /\ UNCHANGED <<estateTables, products, tanks, pumps, nozzles, metered, calibrated, dipTables, pending>>

-----------------------------------------------------------------------------
\* Pumps.  A number is free once its pump is deleted.
GetPump(p) == Listed(pumps[p])
PumpNumberFree(p, s, k) == \A o \in PumpIds \ {p} : GetPump(o) => ~ (pumps[o].station = s /\ pumps[o].number = k)
CreatePump(p, s, k) ==
  /\ pumps[p] = Row /\ stations[s] # Row /\ PumpNumberFree(p, s, k)
  /\ pumps' = [pumps EXCEPT ![p] = [status |-> "active", station |-> s, number |-> k]]
UpdatePump(p, k) ==
  /\ GetPump(p) /\ PumpNumberFree(p, pumps[p].station, k)
  /\ pumps' = [pumps EXCEPT ![p].number = k]
UpdatePumpStatus(p, st) == GetPump(p) /\ pumps' = [pumps EXCEPT ![p].status = st]
SoftDeletePump(p) == GetPump(p) /\ pumps' = [pumps EXCEPT ![p].status = "deleted"]

handleCreatePump(p, s, k) ==
  /\ \/ GetStation(s) /\ Accepted(<<"pump", p, s, k>>) /\ UNCHANGED pumps
     \/ Performed(<<"pump", p, s, k>>) /\ CreatePump(p, s, k)
  /\ UNCHANGED <<estateTables, products, tanks, nozzles, opened, metered, calibrated, dipTables>>
handleUpdatePump(p, k) ==
  /\ UpdatePump(p, k)
  /\ UNCHANGED <<estateTables, products, tanks, nozzles, opened, metered, calibrated, dipTables, pending>>
handleDeletePump(p) ==
  /\ \/ /\ GetPump(p) /\ ~ \E n \in NozzleIds : Listed(nozzles[n]) /\ nozzles[n].pump = p
        /\ Accepted(<<"drop pump", p>>) /\ UNCHANGED pumps
     \/ Performed(<<"drop pump", p>>) /\ SoftDeletePump(p)
  /\ UNCHANGED <<estateTables, products, tanks, nozzles, opened, metered, calibrated, dipTables>>
handleUpdatePumpStatus(p, st) ==
  /\ \/ /\ GetPump(p) /\ checkLifecycleTransition(pumps[p].status, st)
        /\ Accepted(<<"pump status", p, st>>) /\ UNCHANGED pumps
     \/ Performed(<<"pump status", p, st>>) /\ UpdatePumpStatus(p, st)
  /\ UNCHANGED <<estateTables, products, tanks, nozzles, opened, metered, calibrated, dipTables>>
handleCreatePumpCalibration(p) ==
  /\ GetPump(p) /\ calibrated' = calibrated \cup {p}
  /\ UNCHANGED <<estateTables, products, tanks, pumps, nozzles, opened, metered, dipTables, pending>>

-----------------------------------------------------------------------------
\* Nozzles.
GetNozzle(n) == Listed(nozzles[n])
NozzleNumberFree(n, p, k) == \A o \in NozzleIds \ {n} : GetNozzle(o) => ~ (nozzles[o].pump = p /\ nozzles[o].number = k)
CreateNozzle(n, row) ==
  /\ nozzles[n] = Row /\ nozzles_pump_fk(row) /\ nozzles_tank_fk(row) /\ NozzleNumberFree(n, row.pump, row.number)
  /\ nozzles' = [nozzles EXCEPT ![n] = row]
\* With a new tank: its id, station and product as they were read.
UpdateNozzle(n, ts, ks, st) ==
  LET from == IF ts = {} THEN nozzles[n] ELSE CHOOSE x \in ts : TRUE
      row  == [status |-> st, station |-> from.station, pump |-> nozzles[n].pump, tank |-> from.tank,
               product |-> from.product, number |-> IF ks = {} THEN nozzles[n].number ELSE CHOOSE k \in ks : TRUE] IN
  /\ GetNozzle(n) /\ nozzles_pump_fk(row) /\ nozzles_tank_fk(row) /\ NozzleNumberFree(n, row.pump, row.number)
  /\ nozzles' = [nozzles EXCEPT ![n] = row]
SetInitialMeter(n) == GetNozzle(n) /\ metered' = metered \cup {n}
SoftDeleteNozzle(n) == GetNozzle(n) /\ nozzles' = [nozzles EXCEPT ![n].status = "deleted"]

handleCreateNozzle(n, p, t, k) ==
  /\ \/ /\ GetPump(p) /\ GetTank(t) /\ tanks[t].station = pumps[p].station
        /\ Accepted(<<"nozzle", n, [status |-> "active", station |-> pumps[p].station, pump |-> p, tank |-> t,
                                   product |-> tanks[t].product, number |-> k]>>)
        /\ UNCHANGED nozzles
     \/ \E q \in pending : /\ q[1] = "nozzle" /\ q[2] = n /\ q[3].pump = p /\ q[3].tank = t /\ q[3].number = k
                           /\ Performed(q) /\ CreateNozzle(n, q[3])
  /\ UNCHANGED <<estateTables, products, tanks, pumps, opened, metered, calibrated, dipTables>>
\* t is the new tank, in a singleton, or nothing; the status is not validated.
handleUpdateNozzle(n, ts, ks, st) ==
  /\ \/ /\ GetNozzle(n) /\ \A t \in ts : GetTank(t) /\ tanks[t].station = nozzles[n].station
        /\ Accepted(<<"set nozzle", n, <<ks, st>>, {[tank |-> t, station |-> tanks[t].station, product |-> tanks[t].product] : t \in ts}>>)
        /\ UNCHANGED nozzles
     \/ \E q \in pending : /\ q[1] = "set nozzle" /\ q[2] = n /\ q[3] = <<ks, st>> /\ {x.tank : x \in q[4]} = ts
                           /\ Performed(q) /\ UpdateNozzle(n, q[4], ks, st)
  /\ UNCHANGED <<estateTables, products, tanks, pumps, opened, metered, calibrated, dipTables>>
handleSetNozzleInitialMeter(n) ==
  SetInitialMeter(n) /\ UNCHANGED <<estateTables, products, tanks, pumps, nozzles, opened, calibrated, dipTables, pending>>
handleDeleteNozzle(n) ==
  SoftDeleteNozzle(n) /\ UNCHANGED <<estateTables, products, tanks, pumps, opened, metered, calibrated, dipTables, pending>>

-----------------------------------------------------------------------------
\* Calibration charts.  The parser takes dips that increase and volumes that
\* never fall, at least two of them.
ParseCSV(e) == Len(e) >= 2 /\ \A i \in 2..Len(e) : e[i][1] > e[i - 1][1] /\ e[i][2] >= e[i - 1][2]

ActiveChart(t) == {i \in DOMAIN charts : charts[i].tank = t /\ charts[i].status = "active"}
SupersedeActive(t) == [i \in DOMAIN charts |-> IF i \in ActiveChart(t) THEN [charts[i] EXCEPT !.status = "superseded"] ELSE charts[i]]
CreateChart(cs, t, e) == Append(cs, [tank |-> t, entries |-> e, status |-> "active"])

\* One transaction; a second one at the same time fails on the index that
\* allows one active chart per tank.  A dry run ends before it.
handleUploadCalibrationChart(t, e) ==
  /\ GetTank(t) /\ ParseCSV(e) /\ 100 * e[Len(e)][2] <= 101 * Capacity
  /\ charts' = CreateChart(SupersedeActive(t), t, e)
  /\ UNCHANGED <<estateTables, forecourtTables, dips, watch, pending>>

\* The volume at a dip as a fraction <<litres, span>>: the first entry at or
\* beyond the dip, exactly, or on the line from the entry before it.
InRange(e, d) == e # <<>> /\ e[1][1] <= d /\ d <= e[Len(e)][1]
\* Bug: the line is drawn from the chart's first entry.
InterpolateFromFirst(e, d) ==
  LET i == CHOOSE k \in DOMAIN e : e[k][1] >= d /\ \A j \in 1..(k - 1) : e[j][1] < d IN
  IF e[i][1] = d THEN <<e[i][2], 1>>
  ELSE <<e[1][2] * (e[i][1] - e[1][1]) + (d - e[1][1]) * (e[i][2] - e[1][2]), e[i][1] - e[1][1]>>
Interpolate(e, d) ==
  LET i == CHOOSE k \in DOMAIN e : e[k][1] >= d /\ \A j \in 1..(k - 1) : e[j][1] < d
      span == e[i][1] - e[i - 1][1] IN
  IF e[i][1] = d THEN <<e[i][2], 1>>
  ELSE <<e[i - 1][2] * span + (d - e[i - 1][1]) * (e[i][2] - e[i - 1][2]), span>>

\* The active chart and the volume it gives; nothing when the dip is outside it.
Lookup(t, d) == {[chart |-> i, volume |-> Interpolate(charts[i].entries, d)] : i \in {k \in ActiveChart(t) : InRange(charts[k].entries, d)}}

ActiveDip(t, ty) == {i \in DOMAIN dips : dips[i].tank = t /\ dips[i].type = ty /\ dips[i].status = "active"}
GetDip(i) == i \in DOMAIN dips /\ dips[i].status = "active"
CaptureDip(ds, t, ty, d, v) ==
  Append(ds, [tank |-> t, type |-> ty, dip |-> d, volume |-> v.volume, chart |-> v.chart, status |-> "active"])
SupersedeDip(i) == [dips EXCEPT ![i].status = "superseded"]

handleCaptureDipReading(t, ty, d) ==
  /\ \/ /\ watch = "open" /\ GetTank(t) /\ Len(dips) < MaxDips
        /\ \E v \in Lookup(t, d) : Accepted(<<"dip", t, ty, d, v>>)
        /\ UNCHANGED dips
     \/ \E q \in pending : /\ q[1] = "dip" /\ SubSeq(q, 2, 4) = <<t, ty, d>>
                           /\ Performed(q) /\ ActiveDip(t, ty) = {} /\ dips' = CaptureDip(dips, t, ty, d, q[5])
  /\ UNCHANGED <<estateTables, forecourtTables, charts, watch>>
handleCorrectDipReading(i, d) ==
  /\ \/ /\ watch = "open" /\ GetDip(i) /\ Len(dips) < MaxDips
        /\ \E v \in Lookup(dips[i].tank, d) : Accepted(<<"correct", i, d, v>>)
        /\ UNCHANGED dips
     \/ \E q \in pending : /\ q[1] = "correct" /\ q[2] = i /\ q[3] = d
                           /\ Performed(q) /\ GetDip(i)
                           /\ dips' = CaptureDip(SupersedeDip(i), dips[i].tank, dips[i].type, d, q[4])
  /\ UNCHANGED <<estateTables, forecourtTables, charts, watch>>

\* The shift of the dips is closed (ShiftReadings has the whole of it).
WatchEnds == watch = "open" /\ watch' = "closed" /\ UNCHANGED <<estateTables, forecourtTables, charts, dips, pending>>

-----------------------------------------------------------------------------
EstateNext ==
  \/ \E c \in FirmIds : handleCreateCompany(c) \/ handleDeleteCompany(c)
  \/ \E c \in FirmIds, st \in {"active", "suspended", "deleted"} : handleUpdateCompany(c, st)
  \/ \E g \in AreaIds, c \in FirmIds : handleCreateRegion(g, c)
  \/ \E g \in AreaIds, st \in {"active", "suspended", "deleted"} : handleUpdateRegion(g, st)
  \/ \E g \in AreaIds : handleDeleteRegion(g)
  \/ \E s \in PitchIds, c \in FirmIds, gs \in {{}} \cup {{g} : g \in AreaIds} : handleCreateStation(s, c, gs)
  \/ \E s \in PitchIds, gs \in {{}} \cup {{g} : g \in AreaIds}, st \in {"active", "suspended", "closed", "deleted"} :
       handleUpdateStation(s, gs, st)
  \/ \E s \in PitchIds : handleDeleteStation(s)
  \/ Dropped

PlantNext ==
  \/ \E p \in GradeIds : handleCreateProduct(p) \/ handleDeleteProduct(p)
  \/ \E p \in GradeIds, st \in {"active", "inactive", "deleted"} : handleUpdateProduct(p, st)
  \/ \E t \in TankIds, s \in PitchIds, p \in GradeIds : handleCreateTank(t, s, p)
  \/ \E t \in TankIds, st \in Lifecycle : handleUpdateTankStatus(t, st)
  \/ \E t \in TankIds : handleSetTankOpeningBalance(t)
  \/ \E p \in PumpIds, s \in PitchIds, k \in Numbers : handleCreatePump(p, s, k)
  \/ \E p \in PumpIds, k \in Numbers : handleUpdatePump(p, k)
  \/ \E p \in PumpIds, st \in Lifecycle : handleUpdatePumpStatus(p, st)
  \/ \E p \in PumpIds : handleCreatePumpCalibration(p)
  \/ Dropped

NozzleNext ==
  \/ \E n \in NozzleIds, p \in PumpIds, t \in TankIds, k \in Numbers : handleCreateNozzle(n, p, t, k)
  \/ \E n \in NozzleIds, ts \in {{}} \cup {{t} : t \in TankIds}, ks \in {{}} \cup {{k} : k \in Numbers} :
       \E st \in {"active", "inactive", "deleted"} : handleUpdateNozzle(n, ts, ks, st)
  \/ \E n \in NozzleIds : handleSetNozzleInitialMeter(n) \/ handleDeleteNozzle(n)
  \/ \E t \in TankIds, ps \in {{}} \cup {{p} : p \in GradeIds} : handleUpdateTank(t, ps)
  \/ \E t \in TankIds : handleDeleteTank(t)
  \/ \E p \in PumpIds : handleDeletePump(p)
  \/ Dropped

DipNext ==
  \/ \E t \in TankIds, e \in Charts : handleUploadCalibrationChart(t, e)
  \/ \E t \in TankIds, ty \in {"opening", "closing"}, d \in Depths : handleCaptureDipReading(t, ty, d)
  \/ \E i \in 1..MaxDips, d \in Depths : handleCorrectDipReading(i, d)
  \/ WatchEnds
  \/ Dropped

MasterDataNext == EstateNext \/ PlantNext \/ NozzleNext \/ DipNext

MasterDataSpec == MasterDataInit /\ [][MasterDataNext]_masterTables

-----------------------------------------------------------------------------
(* A nozzle row, live or deleted, stands at its pump's station and at its   *)
(* tank's station, and sells its tank's product, whatever tank updates and  *)
(* nozzle writes were in flight together: the composite keys of migration   *)
(* 0011 re-check what the handlers read through the pool.                   *)
NozzleMatchesTank ==
  \A n \in NozzleIds : nozzles[n] # Row =>
    /\ pumps[nozzles[n].pump].station = nozzles[n].station
    /\ tanks[nozzles[n].tank].station = nozzles[n].station
    /\ tanks[nozzles[n].tank].product = nozzles[n].product

(* Two dips read against the same chart are ordered as their volumes are:   *)
(* more millimetres never give fewer litres (calibration.Interpolate).      *)
DeeperDipIsMore ==
  \A i, j \in DOMAIN dips : (dips[i].chart = dips[j].chart /\ dips[i].dip <= dips[j].dip) =>
    dips[i].volume[1] * dips[j].volume[2] <= dips[j].volume[1] * dips[i].volume[2]
=============================================================================

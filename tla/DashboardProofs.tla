--------------------------- MODULE DashboardProofs --------------------------
(***************************************************************************)
(* The pages in front of the planner, for every value of the constants:    *)
(* the options a burn is started with are well-formed, a media type that   *)
(* was used never changes, and what is proved of the planner holds behind  *)
(* the pages.                                                              *)
(***************************************************************************)
EXTENDS Dashboard, PlannerProofs

(* The next start-up does not change the prefix of this row.               *)
Settled(name, row) ==
    /\ row \in MediaRow
    /\ Backfilled(name, row).prefix = row.prefix

(* Every row has one of the capacities there are; while the process is up  *)
(* the rows are settled.                                                   *)
RowsInv ==
    /\ \A n \in DOMAIN mediaTypes : /\ mediaTypes[n] \in MediaRow \cup OldRow
                                    /\ mediaTypes[n].capacity \in Capacities
    /\ server.phase # "down" => \A n \in DOMAIN mediaTypes : Settled(n, mediaTypes[n])

(* The defaults are inserted in order, and all of them before the pages    *)
(* are served: no user can take one of their names.                        *)
SeedInv ==
    /\ server \in [phase : {"down", "seeding", "serving"}, next : Nat \ {0}]
    /\ server.phase = "seeding" =>
         \A i \in DOMAIN DefaultTypes : i < server.next => DefaultTypes[i].name \in DOMAIN mediaTypes
    /\ server.phase = "serving" => DefaultNames \subseteq DOMAIN mediaTypes

(* A request holds the row that is still in the table.                     *)
RequestInv ==
    request # NoRequest =>
        /\ server.phase = "serving"
        /\ request.form \in Forms
        /\ request.form.parityPercent \in 5..50
        /\ request.form.name \in DOMAIN mediaTypes
        /\ request.row = mediaTypes[request.form.name]

(* What was used is there as it was, and settled even while the process is *)
(* down.                                                                   *)
UsedInv ==
    \A u \in used : /\ u.name \in DOMAIN mediaTypes
                    /\ Settled(u.name, mediaTypes[u.name])
                    /\ u.row.capacity = mediaTypes[u.name].capacity
                    /\ u.row.prefix = mediaTypes[u.name].prefix

DInv == RowsInv /\ SeedInv /\ RequestInv /\ UsedInv

-----------------------------------------------------------------------------
(* The rows of the table.                                                  *)
LEMMA DefaultFacts ==
    ASSUME NEW i \in DOMAIN DefaultTypes
    PROVE  /\ Default(DefaultTypes[i].name) = DefaultTypes[i]
           /\ DefaultTypes[i].name \in DefaultNames
           /\ DefaultTypes[i].prefix \in Prefix
           /\ DefaultTypes[i].kind \in WriteKind
           /\ DefaultTypes[i].capacity \in Nat \ {0}
           /\ DefaultTypes[i].capacity \in Capacities
  <1>1. /\ DefaultTypes[i].prefix \in Prefix
        /\ DefaultTypes[i].kind \in WriteKind
        /\ DefaultTypes[i].capacity \in Nat \ {0}
    BY DefaultsAssumption
  <1>2. Default(DefaultTypes[i].name) = DefaultTypes[i]
    <2> DEFINE All == {DefaultTypes[j] : j \in DOMAIN DefaultTypes}
    <2>1. \A t \in All : t.name = DefaultTypes[i].name => t = DefaultTypes[i]
      BY DefaultsAssumption
    <2>2. DefaultTypes[i] \in All
      OBVIOUS
    <2> QED
      BY <2>1, <2>2 DEF Default
  <1>3. DefaultTypes[i].capacity > 0
    BY <1>1
  <1> QED
    BY <1>1, <1>2, <1>3 DEF DefaultNames, Capacities

LEMMA DefaultOfName ==
    ASSUME NEW name \in DefaultNames
    PROVE  Default(name).prefix \in Prefix
  <1>1. PICK i \in DOMAIN DefaultTypes : name = DefaultTypes[i].name
    BY DEF DefaultNames
  <1> QED
    BY <1>1, DefaultFacts

(* What ALTER TABLE and the UPDATEs make of a row.                         *)
LEMMA WithColumnsFacts ==
    ASSUME NEW row \in MediaRow \cup OldRow
    PROVE  /\ WithColumns(row) \in MediaRow
           /\ WithColumns(row).capacity = row.capacity
           /\ row \in MediaRow => WithColumns(row) = row
  <1>1. CASE row \in MediaRow
    <2>1. row.prefix # NoColumn
      BY <1>1, ColumnAssumption DEF MediaRow
    <2> QED
      BY <1>1, <2>1 DEF WithColumns
  <1>2. CASE row \in OldRow /\ row \notin MediaRow
    <2>1. WithColumns(row) = [row EXCEPT !.prefix = AlteredPrefix, !.kind = "optical"]
      BY <1>2 DEF WithColumns, OldRow
    <2> QED
      BY <1>2, <2>1, ColumnAssumption DEF OldRow, MediaRow, WriteKind
  <1> QED
    BY <1>1, <1>2

LEMMA BackfilledFacts ==
    ASSUME NEW name, NEW row \in MediaRow
    PROVE  /\ Backfilled(name, row) \in MediaRow
           /\ Backfilled(name, row).capacity = row.capacity
           /\ Settled(name, Backfilled(name, row))
  <1>1. CASE name \in DefaultNames /\ row.prefix = AlteredPrefix
    <2> DEFINE new == [row EXCEPT !.prefix = Default(name).prefix, !.kind = "optical"]
    <2>1. Backfilled(name, row) = new
      BY <1>1 DEF Backfilled
    <2>2. Default(name).prefix \in Prefix
      BY <1>1, DefaultOfName
    <2>3. /\ new \in MediaRow /\ new.capacity = row.capacity
          /\ new.prefix = Default(name).prefix
      BY <2>2 DEF MediaRow, WriteKind
    <2> HIDE DEF new
    <2>4. Backfilled(name, new).prefix = new.prefix
      <3>1. CASE new.prefix = AlteredPrefix
        <4>1. Backfilled(name, new) = [new EXCEPT !.prefix = Default(name).prefix, !.kind = "optical"]
          BY <1>1, <3>1 DEF Backfilled
        <4> QED
          BY <2>3, <4>1 DEF MediaRow
      <3>2. CASE new.prefix # AlteredPrefix
        BY <3>2 DEF Backfilled
      <3> QED
        BY <3>1, <3>2
    <2> QED
      BY <2>1, <2>3, <2>4 DEF Settled
  <1>2. CASE ~(name \in DefaultNames /\ row.prefix = AlteredPrefix)
    <2>1. Backfilled(name, row) = row
      BY <1>2 DEF Backfilled
    <2> QED
      BY <2>1 DEF Settled
  <1> QED
    BY <1>1, <1>2

LEMMA ConnectFacts ==
    ASSUME NEW name, NEW row \in MediaRow \cup OldRow
    PROVE  LET new == Backfilled(name, WithColumns(row)) IN
           /\ new \in MediaRow
           /\ new.capacity = row.capacity
           /\ Settled(name, new)
           /\ Settled(name, row) => new.prefix = row.prefix
  <1>1. /\ WithColumns(row) \in MediaRow
        /\ WithColumns(row).capacity = row.capacity
        /\ row \in MediaRow => WithColumns(row) = row
    BY WithColumnsFacts
  <1>2. Settled(name, row) => Backfilled(name, WithColumns(row)).prefix = row.prefix
    BY <1>1 DEF Settled
  <1> QED
    BY <1>1, <1>2, BackfilledFacts

(* A row under a name that the UPDATEs do not know is settled.             *)
LEMMA OtherNameSettled ==
    ASSUME NEW name, name \notin DefaultNames, NEW row \in MediaRow
    PROVE  Settled(name, row)
  BY DEF Settled, Backfilled

LEMMA DefaultSettled ==
    ASSUME NEW i \in DOMAIN DefaultTypes
    PROVE  /\ Row(DefaultTypes[i]) \in MediaRow
           /\ Row(DefaultTypes[i]).capacity \in Capacities
           /\ Settled(DefaultTypes[i].name, Row(DefaultTypes[i]))
  <1> DEFINE row == Row(DefaultTypes[i])
             name == DefaultTypes[i].name
  <1>1. row \in MediaRow /\ row.capacity \in Capacities /\ row.prefix = DefaultTypes[i].prefix
    BY DefaultFacts DEF Row, MediaRow
  <1>2. Default(name).prefix = row.prefix
    BY <1>1, DefaultFacts
  <1> HIDE DEF row
  <1>3. Backfilled(name, row).prefix = row.prefix
    <2>1. CASE name \in DefaultNames /\ row.prefix = AlteredPrefix
      <3>1. Backfilled(name, row) = [row EXCEPT !.prefix = Default(name).prefix, !.kind = "optical"]
        BY <2>1 DEF Backfilled
      <3> QED
        BY <1>1, <1>2, <3>1 DEF MediaRow
    <2>2. CASE ~(name \in DefaultNames /\ row.prefix = AlteredPrefix)
      BY <2>2 DEF Backfilled
    <2> QED
      BY <2>1, <2>2
  <1>4. row \in MediaRow /\ row.capacity \in Capacities /\ Settled(name, row)
    BY <1>1, <1>3 DEF Settled
  <1> QED
    BY <1>4 DEF row

-----------------------------------------------------------------------------
(* The steps that change the table.                                        *)
LEMMA ConnectKeeps ==
    ASSUME DInv, Connect
    PROVE  DInv'
  <1>1. /\ DOMAIN mediaTypes' = DOMAIN mediaTypes
        /\ \A n \in DOMAIN mediaTypes : mediaTypes'[n] = Backfilled(n, WithColumns(mediaTypes[n]))
        /\ server.phase = "down"
        /\ server' = [phase |-> "seeding", next |-> 1]
        /\ request' = request /\ used' = used
    BY DEF Connect
  <1>2. ASSUME NEW n \in DOMAIN mediaTypes
        PROVE  /\ mediaTypes'[n] \in MediaRow
               /\ mediaTypes'[n].capacity = mediaTypes[n].capacity
               /\ mediaTypes'[n].capacity \in Capacities
               /\ Settled(n, mediaTypes'[n])
               /\ Settled(n, mediaTypes[n]) => mediaTypes'[n].prefix = mediaTypes[n].prefix
    <2>1. mediaTypes[n] \in MediaRow \cup OldRow /\ mediaTypes[n].capacity \in Capacities
      BY DEF DInv, RowsInv
    <2> QED
      BY <1>1, <2>1, ConnectFacts
  <1>3. RowsInv'
    BY <1>1, <1>2 DEF RowsInv
  <1>4. SeedInv'
    <2>1. server'.phase = "seeding" /\ server'.next = 1
          /\ server' \in [phase : {"down", "seeding", "serving"}, next : Nat \ {0}]
      BY <1>1
    <2>2. \A i \in DOMAIN DefaultTypes : ~(i < 1)
      BY DefaultsAssumption
    <2> QED
      BY <2>1, <2>2 DEF SeedInv
  <1>5. RequestInv'
    BY <1>1 DEF DInv, RequestInv
  <1>6. UsedInv'
    BY <1>1, <1>2 DEF DInv, UsedInv
  <1> QED
    BY <1>3, <1>4, <1>5, <1>6 DEF DInv

(* A row is added under a new name.                                        *)
LEMMA AddKeeps ==
    ASSUME DInv, NEW name, NEW row, name \notin DOMAIN mediaTypes,
           mediaTypes' = Extend(mediaTypes, name, row),
           row.capacity \in Capacities, Settled(name, row),
           SeedInv', request' = request, used' = used,
           server.phase # "down", request # NoRequest => server'.phase = "serving"
    PROVE  DInv'
  <1>1. /\ DOMAIN mediaTypes' = DOMAIN mediaTypes \cup {name}
        /\ mediaTypes'[name] = row
        /\ \A n \in DOMAIN mediaTypes : mediaTypes'[n] = mediaTypes[n]
    BY DEF Extend
  <1>2. row \in MediaRow
    BY DEF Settled
  <1>3. RowsInv'
    BY <1>1, <1>2 DEF DInv, RowsInv
  <1>4. RequestInv'
    BY <1>1 DEF DInv, RequestInv
  <1>5. UsedInv'
    BY <1>1 DEF DInv, UsedInv
  <1> QED
    BY <1>3, <1>4, <1>5 DEF DInv

LEMMA SeedMediaTypeKeeps ==
    ASSUME DInv, SeedMediaType
    PROVE  DInv'
  <1> DEFINE i == server.next
             name == DefaultTypes[i].name
  <1>1. /\ server.phase = "seeding" /\ i \in DOMAIN DefaultTypes
        /\ server' = [server EXCEPT !.next = @ + 1]
        /\ request' = request /\ used' = used
    BY DEF SeedMediaType
  <1>2. server \in [phase : {"down", "seeding", "serving"}, next : Nat \ {0}]
    BY DEF DInv, SeedInv
  <1>3. /\ server' \in [phase : {"down", "seeding", "serving"}, next : Nat \ {0}]
        /\ server'.phase = "seeding" /\ server'.next = i + 1
    BY <1>1, <1>2
  <1>4. request = NoRequest
    BY <1>1 DEF DInv, RequestInv
  <1>5. DOMAIN DefaultTypes \subseteq Nat /\ i \in Nat
    BY <1>1, DefaultsAssumption
  <1>6. ASSUME DOMAIN mediaTypes \subseteq DOMAIN mediaTypes', name \in DOMAIN mediaTypes'
        PROVE  SeedInv'
    <2>1. ASSUME NEW j \in DOMAIN DefaultTypes, j < server'.next
          PROVE  DefaultTypes[j].name \in DOMAIN mediaTypes'
      <3>1. j = i \/ j < i
        BY <1>3, <1>5, <2>1
      <3>2. ASSUME j < i PROVE DefaultTypes[j].name \in DOMAIN mediaTypes
        BY <1>1, <3>2 DEF DInv, SeedInv
      <3> QED
        BY <1>6, <3>1, <3>2
    <2> QED
      BY <1>3, <2>1 DEF SeedInv
  <1>7. CASE name \in DOMAIN mediaTypes
    <2>1. mediaTypes' = mediaTypes
      BY <1>7 DEF SeedMediaType, Seed
    <2>2. SeedInv'
      BY <1>6, <1>7, <2>1
    <2>3. RowsInv' /\ RequestInv' /\ UsedInv'
      BY <1>1, <1>3, <1>4, <2>1 DEF DInv, RowsInv, RequestInv, UsedInv
    <2> QED
      BY <2>2, <2>3 DEF DInv
  <1>8. CASE name \notin DOMAIN mediaTypes
    <2>1. mediaTypes' = Extend(mediaTypes, name, Row(DefaultTypes[i]))
      BY <1>8 DEF SeedMediaType, Seed
    <2>2. SeedInv'
      BY <1>6, <2>1 DEF Extend
    <2>3. /\ Row(DefaultTypes[i]).capacity \in Capacities
          /\ Settled(name, Row(DefaultTypes[i]))
      BY <1>1, DefaultSettled
    <2> QED
      BY <1>1, <1>4, <1>8, <2>1, <2>2, <2>3, AddKeeps
  <1> QED
    BY <1>7, <1>8

LEMMA AddMediaTypeKeeps ==
    ASSUME DInv, NEW t \in NewTypes, AddMediaType(t)
    PROVE  DInv'
  <1>1. /\ server.phase = "serving" /\ server' = server /\ request' = request /\ used' = used
        /\ t.name \notin DOMAIN mediaTypes
        /\ mediaTypes' = Extend(mediaTypes, t.name, Row(t))
    BY DEF AddMediaType, InsertMediaType
  <1>2. t.capacity \in Nat \ {0} /\ t.capacity > 0 /\ t.kind \in WriteKind /\ t.prefix \in Prefix
    BY PagesAssumption DEF AddMediaType, Acceptable
  <1>3. Row(t) \in MediaRow /\ Row(t).capacity \in Capacities
    BY <1>2 DEF Row, MediaRow, Capacities
  <1>4. t.name \notin DefaultNames
    BY <1>1 DEF DInv, SeedInv
  <1>5. Settled(t.name, Row(t))
    BY <1>3, <1>4, OtherNameSettled
  <1>6. SeedInv'
    BY <1>1 DEF DInv, SeedInv, Extend
  <1> QED
    BY <1>1, <1>3, <1>5, <1>6, AddKeeps

-----------------------------------------------------------------------------
(* The other steps.                                                        *)
LEMMA ServeKeeps ==
    ASSUME DInv, Serve
    PROVE  DInv'
  <1>1. /\ server.phase = "seeding" /\ server.next \notin DOMAIN DefaultTypes
        /\ server' = [server EXCEPT !.phase = "serving"]
        /\ mediaTypes' = mediaTypes /\ request' = request /\ used' = used
    BY DEF Serve
  <1>2. server \in [phase : {"down", "seeding", "serving"}, next : Nat \ {0}]
    BY DEF DInv, SeedInv
  <1>3. /\ server' \in [phase : {"down", "seeding", "serving"}, next : Nat \ {0}]
        /\ server'.phase = "serving"
    BY <1>1, <1>2
  <1>4. \A i \in DOMAIN DefaultTypes : i < server.next
    <2>1. PICK n \in Nat : DOMAIN DefaultTypes = 1..n
      BY DefaultsAssumption
    <2> QED
      BY <1>1, <1>2, <2>1
  <1>5. DefaultNames \subseteq DOMAIN mediaTypes
    BY <1>1, <1>4 DEF DInv, SeedInv, DefaultNames
  <1>6. SeedInv'
    BY <1>1, <1>3, <1>5 DEF SeedInv
  <1> QED
    BY <1>1, <1>3, <1>6 DEF DInv, RowsInv, RequestInv, UsedInv

LEMMA DownKeeps ==
    ASSUME DInv, server' = Down, mediaTypes' = mediaTypes, used' = used, request' = NoRequest
    PROVE  DInv'
  <1>1. /\ server'.phase = "down"
        /\ server' \in [phase : {"down", "seeding", "serving"}, next : Nat \ {0}]
    BY DEF Down
  <1>2. RowsInv' /\ SeedInv'
    BY <1>1 DEF DInv, RowsInv, SeedInv
  <1>3. RequestInv' /\ UsedInv'
    BY DEF DInv, RequestInv, UsedInv
  <1> QED
    BY <1>2, <1>3 DEF DInv

LEMMA TableFrame ==
    ASSUME DInv, mediaTypes' = mediaTypes, server' = server, RequestInv', UsedInv'
    PROVE  DInv'
  BY DEF DInv, RowsInv, SeedInv

LEMMA ValidateFormKeeps ==
    ASSUME DInv, NEW form \in Forms, ValidateForm(form)
    PROVE  DInv'
  <1>1. /\ request'.form = form /\ request'.row = mediaTypes[form.name]
        /\ server.phase = "serving" /\ form.name \in DOMAIN mediaTypes
        /\ form.parityPercent \in 5..50
        /\ UNCHANGED <<mediaTypes, server, used>>
    BY DEF ValidateForm, GetMediaType
  <1>2. RequestInv' /\ UsedInv'
    BY <1>1 DEF RequestInv, DInv, UsedInv
  <1> QED
    BY <1>1, <1>2, TableFrame

(* The options of a request are well-formed.                               *)
LEMMA RequestOptions ==
    ASSUME DInv, request # NoRequest
    PROVE  OptionsOf(request.form, request.row) \in Options
  <1> DEFINE form == request.form
             row == request.row
  <1>1. /\ server.phase = "serving" /\ form \in Forms /\ form.parityPercent \in 5..50
        /\ form.name \in DOMAIN mediaTypes /\ row = mediaTypes[form.name]
    BY DEF DInv, RequestInv
  <1>2. row \in MediaRow /\ row.capacity \in Capacities
    BY <1>1 DEF DInv, RowsInv, Settled
  <1>3. form.groupSize \in {f.groupSize : f \in Forms} /\ form.crossDiscParity \in BOOLEAN
    BY <1>1, PagesAssumption
  <1>4. (IF form.dryRun THEN "dryrun" ELSE row.kind) \in Kind /\ row.prefix \in Prefix
    BY <1>2 DEF MediaRow, WriteKind, Kind
  <1> HIDE DEF form, row
  <1>5. OptionsOf(form, row) \in
          [prefix : Prefix, kind : Kind, capacity : Capacities, parityPercent : 5..50,
           crossDiscParity : BOOLEAN, groupSize : {f.groupSize : f \in Forms}]
    BY <1>1, <1>2, <1>3, <1>4 DEF OptionsOf
  <1>6. OptionsOf(form, row) \in Options
    BY <1>5, OptionsCoverage
  <1> QED
    BY <1>6 DEF form, row

LEMMA StartBurnKeeps ==
    ASSUME DInv, StartBurn
    PROVE  DInv'
  <1>1. /\ request # NoRequest /\ request' = NoRequest
        /\ used' = used \cup {[name |-> request.form.name, row |-> request.row]}
        /\ UNCHANGED <<mediaTypes, server>>
    BY DEF StartBurn
  <1>2. /\ server.phase = "serving" /\ request.form.name \in DOMAIN mediaTypes
        /\ request.row = mediaTypes[request.form.name]
    BY <1>1 DEF DInv, RequestInv
  <1>3. Settled(request.form.name, mediaTypes[request.form.name])
    BY <1>2 DEF DInv, RowsInv
  <1>4. RequestInv'
    BY <1>1 DEF RequestInv
  <1>5. UsedInv'
    BY <1>1, <1>2, <1>3 DEF DInv, UsedInv
  <1> QED
    BY <1>1, <1>4, <1>5, TableFrame

LEMMA DInvNext == DInv /\ [DashboardNext]_allVars => DInv'
  <1> SUFFICES ASSUME DInv, [DashboardNext]_allVars PROVE DInv'
    OBVIOUS
  <1>1. CASE SeedFails
    <2>1. request = NoRequest
      BY <1>1 DEF SeedFails, DInv, RequestInv
    <2> QED
      BY <1>1, <2>1, DownKeeps DEF SeedFails
  <1>2. CASE Restart
    BY <1>2, DownKeeps DEF Restart
  <1>3. CASE StartRefused
    <2>1. request' = NoRequest /\ UNCHANGED <<mediaTypes, server, used>>
      BY <1>3 DEF StartRefused
    <2>2. RequestInv' /\ UsedInv'
      BY <2>1 DEF RequestInv, DInv, UsedInv
    <2> QED
      BY <2>1, <2>2, TableFrame
  <1>4. CASE PlannerStep \/ UNCHANGED allVars
    <2>1. UNCHANGED dashboardVars
      BY <1>4 DEF PlannerStep, allVars
    <2>2. UNCHANGED <<mediaTypes, server, request, used>>
      BY <2>1 DEF dashboardVars
    <2>3. RequestInv' /\ UsedInv'
      BY <2>2 DEF RequestInv, DInv, UsedInv
    <2> QED
      BY <2>2, <2>3, TableFrame
  <1> QED
    BY <1>1, <1>2, <1>3, <1>4, ConnectKeeps, SeedMediaTypeKeeps, ServeKeeps, AddMediaTypeKeeps,
       ValidateFormKeeps, StartBurnKeeps DEF DashboardNext

LEMMA DInvInit == DashboardInit => DInv
  <1> SUFFICES ASSUME DashboardInit PROVE DInv
    OBVIOUS
  <1>1. /\ mediaTypes \in Databases /\ server = Down /\ request = NoRequest /\ used = {}
    BY DEF DashboardInit
  <1>2. ASSUME NEW n \in DOMAIN mediaTypes
        PROVE  /\ mediaTypes[n] \in MediaRow \cup OldRow
               /\ mediaTypes[n].capacity \in Capacities
    <2>1. mediaTypes[n] \in MediaRow \cup OldRow
      BY <1>1, DatabasesAssumption
    <2>2. mediaTypes[n].capacity > 0
      BY <2>1 DEF MediaRow, OldRow
    <2> QED
      BY <1>1, <2>1, <2>2 DEF Capacities
  <1>3. server.phase = "down" /\ server \in [phase : {"down", "seeding", "serving"}, next : Nat \ {0}]
    BY <1>1 DEF Down
  <1> QED
    BY <1>1, <1>2, <1>3 DEF DInv, RowsInv, SeedInv, RequestInv, UsedInv

-----------------------------------------------------------------------------
(* Behind the pages the planner runs as it does alone.                     *)
LEMMA PagesStep ==
    ASSUME DInv, [DashboardNext]_allVars
    PROVE  [Next]_vars \/ SeedFails
  <1>1. CASE StartBurn
    <2>1. OptionsOf(request.form, request.row) \in Options
      BY <1>1, RequestOptions DEF StartBurn
    <2> QED
      BY <1>1, <2>1 DEF StartBurn, Next
  <1>2. CASE PlannerStep \/ Restart
    BY <1>2 DEF PlannerStep, Restart, Next
  <1>3. ASSUME NEW t \in NewTypes, AddMediaType(t) PROVE UNCHANGED vars
    BY <1>3 DEF AddMediaType
  <1>4. ASSUME NEW form \in Forms, ValidateForm(form) PROVE UNCHANGED vars
    BY <1>4 DEF ValidateForm
  <1>5. CASE Connect \/ SeedMediaType \/ Serve \/ StartRefused \/ UNCHANGED allVars
    BY <1>5 DEF Connect, SeedMediaType, Serve, StartRefused, allVars
  <1> QED
    BY <1>1, <1>2, <1>3, <1>4, <1>5 DEF DashboardNext

LEMMA SeedFailsType ==
    ASSUME TInv, SeedFails
    PROVE  TInv'
  <1>1. faults' \in 0..MaxFaults
    BY FaultType DEF SeedFails
  <1>2. /\ UNCHANGED <<disks, files, groups, metadata, staging, job, planning, run, isos, vols,
                       media, dryRun, removed, edits>>
    BY DEF SeedFails, catalogVars, plannerVars
  <1>3. TypeOK'
    BY <1>1, <1>2 DEF TInv, TypeOK, CatalogTypeOK, PlannerTypeOK
  <1>4. RunShape' /\ OneRunner' /\ PlanShape' /\ JobShape'
    BY <1>2 DEF TInv, RunShape, OneRunner, PlanShape, JobShape, ID
  <1> QED
    BY <1>3, <1>4 DEF TInv

LEMMA SeedFailsPlans ==
    ASSUME TInv, PInv, SeedFails
    PROVE  PInv'
  <1>1. UNCHANGED <<disks, groups, job, planning>>
    BY DEF SeedFails, catalogVars, plannerVars
  <1>2. Quiet
    <2>1. job.state = "NONE" \/ job.state # "NONE"
      OBVIOUS
    <2> QED
      BY <1>1, <2>1 DEF Quiet
  <1> QED
    BY <1>2, QuietKeeps

(* The inductive invariant of the pages, with those of the planner.        *)
LEMMA PagesInvariant == DashboardSpec => [](DInv /\ TInv /\ PInv)
  <1>1. DashboardInit => DInv /\ TInv /\ PInv
    BY DInvInit, TInvInit, PInvInit DEF DashboardInit
  <1>2. DInv /\ TInv /\ PInv /\ [DashboardNext]_allVars => (DInv /\ TInv /\ PInv)'
    <2> SUFFICES ASSUME DInv, TInv, PInv, [DashboardNext]_allVars
                 PROVE  DInv' /\ TInv' /\ PInv'
      OBVIOUS
    <2>1. DInv'
      BY DInvNext
    <2>2. CASE [Next]_vars
      BY <2>1, <2>2, TInvNext, PInvNext
    <2>3. CASE SeedFails
      BY <2>1, <2>3, SeedFailsType, SeedFailsPlans
    <2> QED
      BY <2>2, <2>3, PagesStep
  <1> QED
    BY <1>1, <1>2, PTL DEF DashboardSpec

(* Whatever is submitted to addMediaType and startBurn, and whatever table *)
(* an upgraded program finds: Start gets well-formed options.              *)
THEOREM PagesSubmitAdmissibleOptions == DashboardSpec => []OptionsAdmissible
  <1>1. TInv => OptionsAdmissible
    BY DEF TInv, TypeOK, PlannerTypeOK, Planning, NoPlanning, OptionsAdmissible
  <1> QED
    BY <1>1, PagesInvariant, PTL

(* Connect's migration, seeding, additions, failed start-ups and restarts  *)
(* in any order: the capacity and the prefix of a media type some job was  *)
(* started with stay what they were.                                       *)
THEOREM UsedMediaTypesNeverChange == DashboardSpec => []UsedTypesFrozen
  <1>1. DInv => UsedTypesFrozen
    BY DEF DInv, UsedInv, UsedTypesFrozen, GetMediaType, GetMediaTypeCapacity
  <1> QED
    BY <1>1, PagesInvariant, PTL

(* Behind the pages, with the options their users can produce, planJob's   *)
(* plans are complete, fit and grouped in order.                           *)
THEOREM PlansAreSoundBehindPages ==
    DashboardSpec => [](BucketsFit /\ PlanCoversScan /\ GroupsWellFormed)
  <1>1. TInv /\ PInv => BucketsFit /\ PlanCoversScan /\ GroupsWellFormed
    BY GroupsPlanned DEF PInv
  <1> QED
    BY <1>1, PagesInvariant, PTL
=============================================================================

----------------------------- MODULE Dashboard -----------------------------
(***************************************************************************)
(* The media types and the form that starts a burn: the start-up of the    *)
(* process (db.Connect, db.SeedMediaTypes), the config page's addMediaType *)
(* and web.startBurn, which turns a form and a media_types row into the    *)
(* burn.Options that Planner takes as given.                               *)
(*                                                                         *)
(* Nobody locks a media type: startBurn reads a row, and only then enters  *)
(* burn.Manager.Start; a reconstruction reads the capacity again, by name, *)
(* perhaps years and several versions of the program later.                *)
(***************************************************************************)
EXTENDS BurnPipeline

CONSTANTS
    DefaultTypes,   \* defaultMediaTypes, in its order
    Databases,      \* the media_types tables an upgraded program may find
    NewTypes,       \* what is submitted to the config page
    Forms,          \* what is submitted to startBurn
    NoColumn,       \* a column the table of an older version does not have
    AlteredPrefix   \* the default of ALTER TABLE ... ADD COLUMN id_prefix

WriteKind == {"optical", "filesystem"}

(* A row as this version writes it, or as a version without prefixes did.  *)
MediaRow == [capacity : Nat \ {0}, prefix : Prefix, kind : WriteKind]
OldRow == [capacity : Nat \ {0}, prefix : {NoColumn}, kind : {NoColumn}]

Capacities ==
    {c \in {DefaultTypes[i].capacity : i \in DOMAIN DefaultTypes}
            \cup {t.capacity : t \in NewTypes}
            \cup UNION {{table[n].capacity : n \in DOMAIN table} : table \in Databases} : c > 0}

ASSUME ColumnAssumption == NoColumn \notin Prefix /\ AlteredPrefix \in Prefix
ASSUME DefaultsAssumption ==
    /\ DefaultTypes \in Seq({DefaultTypes[i] : i \in DOMAIN DefaultTypes})
    /\ \A i \in DOMAIN DefaultTypes : /\ DefaultTypes[i].capacity \in Nat \ {0}
                                      /\ DefaultTypes[i].prefix \in Prefix
                                      /\ DefaultTypes[i].kind \in WriteKind
    /\ \A i, j \in DOMAIN DefaultTypes : DefaultTypes[i].name = DefaultTypes[j].name => i = j
ASSUME DatabasesAssumption ==
    \A table \in Databases : \A n \in DOMAIN table : table[n] \in MediaRow \cup OldRow
ASSUME PagesAssumption ==
    /\ \A t \in NewTypes : t.capacity \in Int
    /\ \A f \in Forms : /\ f.parityPercent \in Int /\ f.groupSize \in Int
                        /\ f.crossDiscParity \in BOOLEAN /\ f.dryRun \in BOOLEAN

(* The planner is studied for every well-formed combination of what there  *)
(* is on the pages.                                                        *)
ASSUME OptionsCoverage ==
    [prefix : Prefix, kind : Kind, capacity : Capacities, parityPercent : 5..50,
     crossDiscParity : BOOLEAN, groupSize : {f.groupSize : f \in Forms}] \subseteq Options

VARIABLES
    mediaTypes,     \* the media_types table, by name
    server,         \* "down", "seeding" or "serving", and the row to seed next
    request,        \* the locals of a startBurn request
    used            \* history: the rows jobs were started with, by name

dashboardVars == <<mediaTypes, server, request, used>>
allVars == <<vars, dashboardVars>>

Down == [phase |-> "down", next |-> 1]
NoRequest == [phase |-> "idle"]

DashboardInit ==
    /\ Init
    /\ mediaTypes \in Databases
    /\ server = Down
    /\ request = NoRequest
    /\ used = {}

-----------------------------------------------------------------------------
Row(t) == [capacity |-> t.capacity, prefix |-> t.prefix, kind |-> t.kind]
DefaultNames == {DefaultTypes[i].name : i \in DOMAIN DefaultTypes}
Default(name) == CHOOSE t \in {DefaultTypes[i] : i \in DOMAIN DefaultTypes} : t.name = name

(* ALTER TABLE: rows that have no prefix get its default.                  *)
WithColumns(row) ==
    IF row.prefix = NoColumn
    THEN [row EXCEPT !.prefix = AlteredPrefix, !.kind = "optical"] ELSE row

(* The two UPDATEs, guarded by that default.                               *)
Backfilled(name, row) ==
    IF name \in DefaultNames /\ row.prefix = AlteredPrefix
    THEN [row EXCEPT !.prefix = Default(name).prefix, !.kind = "optical"]
    ELSE row

(* db.Connect: schema.sql is one Exec without parameters, which PostgreSQL *)
(* runs as one transaction.                                                *)
Connect ==
    /\ server.phase = "down"
    /\ mediaTypes' = [n \in DOMAIN mediaTypes |->
                        Backfilled(n, WithColumns(mediaTypes[n]))]
    /\ server' = [phase |-> "seeding", next |-> 1]
    /\ UNCHANGED <<vars, request, used>>

(* INSERT ... ON CONFLICT (name) DO NOTHING                                *)
Seed(t) ==
    mediaTypes' = IF t.name \in DOMAIN mediaTypes THEN mediaTypes
                  ELSE Extend(mediaTypes, t.name, Row(t))

(* One iteration of SeedMediaTypes.                                        *)
SeedMediaType ==
    /\ server.phase = "seeding"
    /\ server.next \in DOMAIN DefaultTypes
    /\ Seed(DefaultTypes[server.next])
    /\ server' = [server EXCEPT !.next = @ + 1]
    /\ UNCHANGED <<vars, request, used>>

ServeUnseeded ==
    /\ server.phase = "seeding"
    /\ server' = [server EXCEPT !.phase = "serving"]
    /\ UNCHANGED <<vars, mediaTypes, request, used>>

(* ListenAndServe, once every default is there.                            *)
Serve ==
    /\ server.phase = "seeding"
    /\ server.next \notin DOMAIN DefaultTypes
    /\ server' = [server EXCEPT !.phase = "serving"]
    /\ UNCHANGED <<vars, mediaTypes, request, used>>

(* log.Fatalf: the process ends before it serves.                          *)
SeedFails ==
    /\ server.phase = "seeding"
    /\ Fault
    /\ server' = Down
    /\ UNCHANGED <<catalogVars, plannerVars, run, isos, vols, media, dryRun,
                   removed, edits, mediaTypes, request, used>>

-----------------------------------------------------------------------------
AcceptsAnyCapacity(t) ==
    /\ t.kind \in WriteKind
    /\ t.prefix \in Prefix

(* The checks of addMediaType; Prefix is what idPrefixPattern matches.     *)
Acceptable(t) ==
    /\ t.capacity > 0
    /\ t.kind \in WriteKind
    /\ t.prefix \in Prefix

(* An existing name violates the primary key.                              *)
InsertMediaType(t) ==
    /\ t.name \notin DOMAIN mediaTypes
    /\ mediaTypes' = Extend(mediaTypes, t.name, Row(t))

(* addMediaType.                                                           *)
AddMediaType(t) ==
    /\ server.phase = "serving"
    /\ Acceptable(t)
    /\ InsertMediaType(t)
    /\ UNCHANGED <<vars, server, request, used>>

GetMediaType(name) == mediaTypes[name]
GetMediaTypeCapacity(name) == mediaTypes[name].capacity

(* startBurn up to the end of the form validation.                         *)
ValidateForm(form) ==
    /\ server.phase = "serving"
    /\ request = NoRequest
    /\ form.name \in DOMAIN mediaTypes
    /\ form.parityPercent \in 5..50
    /\ request' = [phase |-> "validated", form |-> form, row |-> GetMediaType(form.name)]
    /\ UNCHANGED <<vars, mediaTypes, server, used>>

OptionsOf(form, row) ==
    [prefix |-> row.prefix, capacity |-> row.capacity,
     kind |-> IF form.dryRun THEN "dryrun" ELSE row.kind,
     parityPercent |-> form.parityPercent,
     crossDiscParity |-> form.crossDiscParity, groupSize |-> form.groupSize]

(* startBurn: burnMgr.Start.                                               *)
StartBurn ==
    /\ request # NoRequest
    /\ Start(OptionsOf(request.form, request.row))
    /\ request' = NoRequest
    /\ used' = used \cup {[name |-> request.form.name, row |-> request.row]}
    /\ UNCHANGED <<mediaTypes, server>>

(* Start refuses, or the retrieval manager was busy.                       *)
StartRefused ==
    /\ request # NoRequest
    /\ request' = NoRequest
    /\ UNCHANGED <<vars, mediaTypes, server, used>>

(* The rest of planJob, within the request.                                *)
PlannerStep ==
    /\ server.phase = "serving"
    /\ PlanStep \/ PlanningFails
    /\ UNCHANGED dashboardVars

Restart ==
    /\ Crash
    /\ server' = Down
    /\ request' = NoRequest
    /\ UNCHANGED <<mediaTypes, used>>

DashboardNext ==
    \/ Connect
    \/ SeedMediaType
    \/ Serve
    \/ SeedFails
    \/ \E t \in NewTypes : AddMediaType(t)
    \/ \E form \in Forms : ValidateForm(form)
    \/ StartBurn
    \/ StartRefused
    \/ PlannerStep
    \/ Restart

DashboardSpec == DashboardInit /\ [][DashboardNext]_allVars

-----------------------------------------------------------------------------
(* Whatever a user has submitted to the two pages, the options that Start  *)
(* gets are among those the planner's results are about: a type with a     *)
(* positive capacity, a prefix that makes disc IDs unambiguous, 5 to 50    *)
(* percent, and no stale or half-migrated row.                             *)
OptionsAdmissible == planning.phase # "idle" => planning.opts \in Options

(* A media type a job was started with stays what it was, over restarts,   *)
(* upgrades, seeding and additions: the XOR length that a reconstruction   *)
(* looks up by name is the capacity the parity disc was built with, and    *)
(* the type's discs go on in one sequence of numbers.                      *)
UsedTypesFrozen ==
    \A u \in used :
        /\ u.name \in DOMAIN mediaTypes
        /\ GetMediaTypeCapacity(u.name) = u.row.capacity
        /\ GetMediaType(u.name).prefix = u.row.prefix
=============================================================================

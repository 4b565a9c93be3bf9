------------------------------ MODULE Startup ------------------------------
(***************************************************************************)
(* Commands from their configuration to their engine: cmd/common.go,      *)
(* LoadConfigAndEngineFromFlags, and cmd/auth.go, RunAuth.  ConfigParse    *)
(* comes first, then the processes of EngineBoot.  Every process parses    *)
(* the same document; as the verdict does not depend on the order of its   *)
(* maps, it is parsed once here.                                           *)
(***************************************************************************)
EXTENDS ConfigParse

CONSTANTS Environments, Processes, MaxLogins,
          Booted  \* bound: the documents that commands are run with, once accepted

ASSUME LoginsAssumption == MaxLogins \in Nat

VARIABLES env, command, place, todo, session, disk, logins, newest, floor

parsing == <<wellFormed, unread, s3Profile, sheetProfile, sheetSeen, pc>>
booting == <<env, command, place, todo, session, disk, logins, newest, floor>>
all     == <<config, parsing, booting>>

Engine == INSTANCE EngineBoot WITH pc <- place

StartupInit == Init /\ Engine!Idle

ParseStep == Next /\ UNCHANGED booting

\* An error of ParseConfig ends the command: only what it accepts is booted.
EngineStep == /\ pc = "accepted" /\ config \in Booted
              /\ Engine!Next
              /\ UNCHANGED parsing

StartupNext == ParseStep \/ EngineStep

StartupSpec == StartupInit /\ [][StartupNext]_all

\* A statement returns, with or without an error.  The user who signs in owes nothing.
FairSpec ==
  StartupSpec /\ \A p \in Processes : WF_all(Engine!Step(p) /\ UNCHANGED parsing)

-----------------------------------------------------------------------------
\* The types of both components.
StartupTypeOK == TypeOK /\ Engine!TypeOK

\* New implements EngineService for every configuration ParseConfig accepts: an engine
\* that is returned serves every source, and no failure leaves a database open.
ServiceSpec == Engine!ServiceSpec

\* An engine started after a completed sign-in is not given an older secret, nor one
\* that an earlier aborted sign-in left (queryengine/engine.go:180-201).
LaterBootsSeeLogin == Engine!LaterBootsSeeLogin

\* auth refuses a configuration exactly when its boots do without a sign-in: no boot
\* waits for one or uses one where it refuses, and where it does not, no boot uses a key
\* file and every engine uses a sign-in (cmd/auth.go:45-60, queryengine/engine.go:166-197).
AuthMatchesBoot == Engine!AuthMatchesBoot

\* A boot comes to an end by itself, unless a sheet without a key file makes it wait
\* for the user (queryengine/engine.go:190).
UnattendedBootSettles == Engine!UnattendedBootSettles

\* specs/query_engine_connection_lifecycle.md "For each s3 source ... SET
\* s3_region='<region_field>'".  Refuted: one region is set, that of any S3 source.
EverySourceInItsRegion ==
  \A p \in Processes : place[p] = "ready" =>
    \A k \in SourcesOf(config, "s3") :
      session[p].s3.region = config.databases[k].region
=============================================================================

----------------------------- MODULE EngineBoot -----------------------------
(***************************************************************************)
(* Booting the query engine: New (queryengine/engine.go, connection.go)    *)
(* for a configuration ParseConfig accepts, and the auth command           *)
(* (cmd/auth.go, AuthGSheet).                                              *)
(*                                                                         *)
(* Commands run one after the other or at the same time, as processes that *)
(* share the environment and one thing on disk: the OAuth secret           *)
(* __plydb_gsheet, which DuckDB persists and loads by itself.  DuckDB, its *)
(* extensions, the remote databases and the user who signs in are external.*)
(***************************************************************************)
EXTENDS Config

CONSTANTS Documents,     \* configurations, acceptable or not
          Environments,  \* sets of the variables that are set and not empty
          Processes,
          MaxLogins      \* bound: how many sign-ins may be started

VARIABLES
  config, env,  \* input
  command,      \* of each process: engine (a command that needs one) or auth
  pc,           \* of each process: where it is
  todo,         \* of each process: the keys New's loop has not finished
  session,      \* of each process: its DuckDB instance
  disk,         \* the sign-in whose secret is persisted, 0 if none is
  logins,       \* the number of sign-ins so far, completed or not
  newest,       \* history: the last one that was completed
  floor         \* history, of each process: newest when it was started

process == <<command, pc, todo, session>>
secret  == <<disk, logins, newest>>
vars    == <<config, env, process, secret, floor>>

NoS3   == [profile |-> "", region |-> ""]
NoAuth == [mode |-> "none", login |-> 0]
Closed == [open |-> FALSE, loaded |-> {}, s3 |-> NoS3, sheets |-> NoAuth,
           attached |-> {}, active |-> {}]

\* No command has run yet.
Idle == /\ env \in Environments
        /\ command = [p \in Processes |-> "engine"]
        /\ pc = [p \in Processes |-> "ended"]
        /\ todo = [p \in Processes |-> {}]
        /\ session = [p \in Processes |-> Closed]
        /\ disk = 0 /\ logins = 0 /\ newest = 0
        /\ floor = [p \in Processes |-> 0]

Init == config \in {d \in Documents : Acceptable(d)} /\ Idle

Booting(p) == pc[p] \notin {"ended", "refused", "ready"}

-----------------------------------------------------------------------------
(* What the configuration asks for.                                        *)

Keys == DOMAIN config.databases
TypeOf(k) == config.databases[k].type

\* requiredExtensions.
ExtensionOf(type) == CASE type = "postgresql" -> {"postgres"}
                       [] type \in {"mysql", "sqlite"} -> {type}
                       [] type = "s3" -> {"httpfs"}
                       [] type = "gsheet" -> {"gsheets"}
                       [] OTHER -> {}

Networked == {"postgresql", "mysql"}
Attachable == Networked \cup {"sqlite", "duckdb"}

\* The key file of a sheet: a profile is looked up as it is written, and a Go
\* map gives the empty credential for a key it does not have.
KeyFileOf(source) ==
  IF source.profile # "" /\ source.profile \in DOMAIN config.credentials
    THEN config.credentials[source.profile].key_file ELSE ""

\* Mutants of HasSheetOAuth: what ParseConfig has found for the trimmed profile is
\* trusted; any sheet will do.
HasSheetOAuth_Trimmed ==
  \E k \in SourcesOf(config, "gsheet") : Blank(config.databases[k].profile)
HasSheetOAuth_AnySheet == SourcesOf(config, "gsheet") # {}

\* hasGSheetOAuth.
HasSheetOAuth ==
  \E k \in SourcesOf(config, "gsheet") :
    \/ config.databases[k].profile = ""
    \/ KeyFileOf(config.databases[k]) = ""

-----------------------------------------------------------------------------
Enter(p, place) == pc' = [pc EXCEPT ![p] = place]

\* p ends, and the deferred Close closes its database.
End(p, place) == /\ Enter(p, place)
                 /\ session' = [session EXCEPT ![p] = Closed]
                 /\ todo' = [todo EXCEPT ![p] = {}]
                 /\ UNCHANGED command

\* Mutant of Fail: success is not reset, the deferred function leaves the database open.
Fail_LeavesOpen(p) == Enter(p, "ended") /\ UNCHANGED <<command, todo, session>>

\* New or AuthGSheet returns an error.
Fail(p) == End(p, "ended")

\* A command is run; it opens an in-memory DuckDB.  auth has nothing to do
\* without a sheet that needs it.
Start(p) ==
  /\ pc[p] \in {"ended", "refused"}
  /\ \E c \in {"engine", "auth"} :
       /\ command' = [command EXCEPT ![p] = c]
       /\ IF c = "auth" /\ ~HasSheetOAuth
            THEN Enter(p, "refused") /\ UNCHANGED session
            ELSE /\ Enter(p, "extensions")
                 /\ session' = [session EXCEPT ![p].open = TRUE]
  /\ todo' = [todo EXCEPT ![p] = Keys]
  /\ floor' = [floor EXCEPT ![p] = newest]
  /\ UNCHANGED <<config, env, secret>>

LoadExtensions(p) ==
  /\ pc[p] = "extensions"
  /\ LET needed == IF command[p] = "auth" THEN {"gsheets"}
                   ELSE UNION {ExtensionOf(TypeOf(k)) : k \in Keys}
     IN session' = [session EXCEPT ![p].loaded = needed]
  /\ Enter(p, IF command[p] = "auth" THEN "oauth" ELSE "s3")
  /\ UNCHANGED <<config, env, command, todo, secret, floor>>

\* configureS3: the first S3 source of a map, whichever that is.
ConfigureS3(p) ==
  /\ pc[p] = "s3"
  /\ \/ /\ SourcesOf(config, "s3") = {}
        /\ Enter(p, "gsheet") /\ UNCHANGED <<command, todo, session>>
     \/ \E k \in SourcesOf(config, "s3") :
          LET source == config.databases[k]
              cred   == config.credentials[source.profile]
          IN IF {cred.access_key_env, cred.secret_key_env} \subseteq env
               THEN /\ session' = [session EXCEPT ![p].s3 =
                                     [profile |-> source.profile, region |-> source.region]]
                    /\ Enter(p, "gsheet") /\ UNCHANGED <<command, todo>>
               ELSE Fail(p)
  /\ UNCHANGED <<config, env, secret, floor>>

UseAuth(p, mode, login) ==
  /\ session' = [session EXCEPT ![p].sheets = [mode |-> mode, login |-> login]]
  /\ Enter(p, "attach")

\* Mutant of ConfigureGSheet: the key file is not looked at.
ConfigureGSheet_IgnoresKeyFile(p) ==
  /\ pc[p] = "gsheet"
  /\ IF SourcesOf(config, "gsheet") = {} THEN Enter(p, "attach") /\ UNCHANGED session
     ELSE IF disk # 0 THEN UseAuth(p, "oauth", disk) ELSE Enter(p, "oauth") /\ UNCHANGED session
  /\ UNCHANGED <<config, env, command, todo, secret, floor>>

\* configureGSheet: any sheet's key file, else the persisted secret, else OAuth.
ConfigureGSheet(p) ==
  /\ pc[p] = "gsheet"
  /\ \/ /\ SourcesOf(config, "gsheet") = {}
        /\ Enter(p, "attach") /\ UNCHANGED session
     \/ \E k \in SourcesOf(config, "gsheet") :
          IF KeyFileOf(config.databases[k]) # "" THEN UseAuth(p, "key_file", 0)
          ELSE IF disk # 0 THEN UseAuth(p, "oauth", disk)
          ELSE Enter(p, "oauth") /\ UNCHANGED session
  /\ UNCHANGED <<config, env, command, todo, secret, floor>>

\* The query that looks for the persisted secret fails: it is taken for absent.
SecretNotFound(p) ==
  /\ pc[p] = "gsheet"
  /\ \E k \in SourcesOf(config, "gsheet") : KeyFileOf(config.databases[k]) = ""
  /\ Enter(p, "oauth")
  /\ UNCHANGED <<config, env, command, todo, session, secret, floor>>

Login == logins < MaxLogins /\ logins' = logins + 1

\* Mutant of SignIn: CREATE SECRET IF NOT EXISTS.
SignIn_KeepsOld(p) ==
  /\ pc[p] = "oauth" /\ Login
  /\ newest' = logins'
  /\ disk' = IF disk = 0 THEN logins' ELSE disk
  /\ IF command[p] = "auth" THEN End(p, "ended")
                            ELSE UseAuth(p, "oauth", disk') /\ UNCHANGED <<command, todo>>
  /\ UNCHANGED <<config, env, floor>>

\* CREATE OR REPLACE PERSISTENT SECRET: the user signs in with the browser.
SignIn(p) ==
  /\ pc[p] = "oauth" /\ Login
  /\ disk' = logins' /\ newest' = logins'
  /\ IF command[p] = "auth" THEN End(p, "ended")
                            ELSE UseAuth(p, "oauth", logins') /\ UNCHANGED <<command, todo>>
  /\ UNCHANGED <<config, env, floor>>

\* The sign-in is aborted, by the user or with the process: it may have left a
\* secret that does not work (engine.go:199-201).
AbortSignIn(p) ==
  /\ pc[p] = "oauth" /\ Login
  /\ disk' = logins'
  /\ Fail(p)
  /\ UNCHANGED <<config, env, newest, floor>>

NextKey(p) == CHOOSE k \in todo[p] : \A j \in todo[p] : k <= j

Activate(p, k) ==
  /\ session' = [session EXCEPT ![p].active = @ \cup {k}]
  /\ todo' = [todo EXCEPT ![p] = @ \ {k}]

\* One iteration of New's loop, up to the ATTACH of a source that has one.
Attach(p) ==
  /\ pc[p] = "attach" /\ todo[p] # {}
  /\ LET k == NextKey(p)
         source == config.databases[k]
     IN IF TypeOf(k) \notin Attachable
          THEN Activate(p, k) /\ UNCHANGED <<command, pc>>
        ELSE IF TypeOf(k) \in Networked /\ source.password_env_var \notin env
          THEN Fail(p)
        ELSE /\ session' = [session EXCEPT ![p].attached = @ \cup {k}]
             /\ Enter(p, "validate") /\ UNCHANGED <<command, todo>>
  /\ UNCHANGED <<config, env, secret, floor>>

\* The query that validates the connection succeeds.
Validate(p) ==
  /\ pc[p] = "validate"
  /\ Activate(p, NextKey(p)) /\ Enter(p, "attach")
  /\ UNCHANGED <<config, env, command, secret, floor>>

ReturnEngine(p) ==
  /\ pc[p] = "attach" /\ todo[p] = {}
  /\ Enter(p, "ready")
  /\ UNCHANGED <<config, env, command, todo, session, secret, floor>>

\* Any statement of New may fail.
StatementFails(p) ==
  /\ \/ pc[p] \in {"extensions", "validate", "oauth"}
     \/ pc[p] = "s3" /\ SourcesOf(config, "s3") # {}
     \/ pc[p] = "gsheet" /\ SourcesOf(config, "gsheet") # {}
     \/ pc[p] = "attach" /\ todo[p] # {} /\ TypeOf(NextKey(p)) \in Attachable
  /\ Fail(p)
  /\ UNCHANGED <<config, env, secret, floor>>

\* The command is done with its engine, or the process dies, at any point.
Exit(p) ==
  /\ Booting(p) \/ pc[p] = "ready"
  /\ End(p, "ended")
  /\ UNCHANGED <<config, env, secret, floor>>

-----------------------------------------------------------------------------
\* The steps New and AuthGSheet take by themselves.
Step(p) == \/ LoadExtensions(p) \/ ConfigureS3(p) \/ ConfigureGSheet(p) \/ SecretNotFound(p)
           \/ Attach(p) \/ Validate(p) \/ ReturnEngine(p)

Next == \/ \E p \in Processes : \/ Start(p) \/ Step(p) \/ StatementFails(p) \/ SignIn(p)
                                \/ AbortSignIn(p) \/ Exit(p)

Spec == Init /\ [][Next]_vars

-----------------------------------------------------------------------------
(* Properties.                                                             *)

Places == {"ended", "refused", "extensions", "s3", "gsheet", "oauth", "attach", "validate",
           "ready"}

TypeOK ==
  /\ config \in Documents /\ env \in Environments
  /\ command \in [Processes -> {"engine", "auth"}]
  /\ pc \in [Processes -> Places]
  /\ todo \in [Processes -> SUBSET Keys]
  /\ \A p \in Processes : /\ session[p].attached \subseteq session[p].active \cup todo[p]
                          /\ session[p].active \cap todo[p] = {}
                          /\ session[p].sheets.login \in 0..logins
  /\ logins \in 0..MaxLogins
  /\ disk \in 0..logins /\ newest \in 0..logins /\ floor \in [Processes -> 0..newest]

\* The sources a query can read through the session of p: activated, with their
\* extension, attached where that is needed, under their own credentials.
Served(p) ==
  LET s == session[p] IN
  {k \in s.active :
     /\ ExtensionOf(TypeOf(k)) \subseteq s.loaded
     /\ TypeOf(k) \in Attachable => k \in s.attached
     /\ TypeOf(k) = "s3" => s.s3.profile = config.databases[k].profile
     /\ TypeOf(k) = "gsheet" =>
          s.sheets.mode = IF KeyFileOf(config.databases[k]) = "" THEN "oauth" ELSE "key_file"}

\* New implements the service: every source is served, or nothing is left open.
\* That one S3 and one sheet configuration serve all rests on ParseConfig.
Service == INSTANCE EngineService WITH
  catalogs <- Keys,
  phase    <- [p \in Processes |-> CASE pc[p] \in {"ended", "refused"} -> "none"
                                     [] pc[p] = "ready" -> "ready"
                                     [] OTHER -> "booting"],
  served   <- [p \in Processes |-> IF pc[p] = "ready" THEN Served(p) ELSE {}],
  held     <- {p \in Processes : session[p].open}
ServiceSpec == Service!Spec

\* After a completed sign-in, whoever asked for it, an engine that is started is
\* not given an older secret, nor one an earlier aborted sign-in left: what the auth
\* command is for (engine.go:199-201), as boot does not check the secret it finds.
LaterBootsSeeLogin ==
  \A p \in Processes :
    pc[p] = "ready" /\ session[p].sheets.mode = "oauth" => session[p].sheets.login >= floor[p]

\* auth agrees with the boots of the same configuration: when it refuses, no boot waits
\* for a sign-in or uses one; when it does not, no boot uses a key file and every engine
\* uses a sign-in.  hasGSheetOAuth looks at all the sheets, configureGSheet at any one.
AuthMatchesBoot ==
  \A p, q \in Processes :
    /\ pc[p] = "refused" => pc[q] # "oauth" /\ session[q].sheets.mode # "oauth"
    /\ command[p] = "auth" /\ Booting(p) =>
         /\ session[q].sheets.mode # "key_file"
         /\ pc[q] = "ready" => session[q].sheets.mode = "oauth"

\* A boot comes to an end by itself, unless a sheet without a key file makes it
\* wait for the user.
UnattendedBootSettles ==
  \A p \in Processes :
    Booting(p) ~> ~Booting(p) \/ (pc[p] = "oauth" /\ HasSheetOAuth)
=============================================================================

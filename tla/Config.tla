------------------------------- MODULE Config -------------------------------
(***************************************************************************)
(* The configuration document (queryengine/config.go) and what ParseConfig *)
(* asks of each part of it.                                                *)
(*                                                                         *)
(* credentials maps profiles to credentials, databases maps keys to        *)
(* sources; both are Go maps.  Keys are numbered in the order sort.Strings *)
(* gives them.  A source has                                               *)
(*   type     one of the types below, or any other string                  *)
(*   fields   the fields of its type that are not blank                    *)
(*   profile  its credential_profile, as written                           *)
(*   region   its region (S3)                                              *)
(*   password_env_var  the variable that holds its password (networked)    *)
(***************************************************************************)
EXTENDS Naturals

CONSTANT Padding  \* the strings with blanks around them, each with what TrimSpace leaves

ASSUME PaddingAssumption == /\ "" \notin DOMAIN Padding
                            /\ \A s \in DOMAIN Padding : Padding[s] \notin DOMAIN Padding

Trim(s) == IF s \in DOMAIN Padding THEN Padding[s] ELSE s
Blank(s) == Trim(s) = ""

\* The fields that must not be blank, by type.
Required ==
  LET networked == {"host", "port", "database_name", "username", "password_env_var"}
  IN [type \in {"postgresql", "mysql", "file", "sqlite", "duckdb", "s3", "gsheet"} |->
        CASE type \in {"postgresql", "mysql"}       -> networked
          [] type \in {"file", "sqlite", "duckdb"} -> {"path"}
          [] type = "s3"                           -> {"uri", "region", "format"}
          [] type = "gsheet"                       -> {"spreadsheet_id"}]

HasS3(cred) == ~Blank(cred.access_key_env) \/ ~Blank(cred.secret_key_env)
HasKeyFile(cred) == ~Blank(cred.key_file)

\* Either S3 fields, both of them, or a key file.
CredentialOk(cred) ==
  /\ HasS3(cred) # HasKeyFile(cred)
  /\ HasS3(cred) => ~Blank(cred.access_key_env) /\ ~Blank(cred.secret_key_env)

\* validateS3 looks the profile up as it is written, validateGSheet trimmed.
ProfileOk(source, credentials) ==
  CASE source.type = "s3" ->
         ~Blank(source.profile) /\ source.profile \in DOMAIN credentials
    [] source.type = "gsheet" ->
         \/ Blank(source.profile)
         \/ /\ Trim(source.profile) \in DOMAIN credentials
            /\ HasKeyFile(credentials[Trim(source.profile)])
    [] OTHER -> TRUE

SourceOk(source, credentials) ==
  /\ source.type \in DOMAIN Required
  /\ Required[source.type] \subseteq source.fields
  /\ ProfileOk(source, credentials)

-----------------------------------------------------------------------------
(* What ParseConfig promises, whatever the order of its maps.              *)

SourcesOf(config, type) ==
  {k \in DOMAIN config.databases : config.databases[k].type = type}

ProfilesAgree(config, type) ==
  \A j, k \in SourcesOf(config, type) :
    config.databases[j].profile = config.databases[k].profile

Acceptable(config) ==
  /\ \A c \in DOMAIN config.credentials : CredentialOk(config.credentials[c])
  /\ \A k \in DOMAIN config.databases : SourceOk(config.databases[k], config.credentials)
  /\ ProfilesAgree(config, "s3") /\ ProfilesAgree(config, "gsheet")
=============================================================================

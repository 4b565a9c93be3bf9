----------------------------- MODULE MCStartup -----------------------------
(***************************************************************************)
(* Startup on documents of two kinds.  Those of MCParsed have up to three  *)
(* sources, every kind of credential, missing fields, padded and unknown   *)
(* profiles, and are only parsed.  Those of MCBooted have one to three     *)
(* sources, of each type, two S3 sources, two sheets, sheets with a key    *)
(* file, without one, with a padded profile, or mixtures that ParseConfig  *)
(* must reject; commands are run with them.                                *)
(***************************************************************************)
EXTENDS Startup, Sequences, TLC

MCPadding == (" " :> "") @@ (" sa " :> "sa")

Credential(access, secretVar, file) ==
  [access_key_env |-> access, secret_key_env |-> secretVar, key_file |-> file]

Source(type, fields, profile, region) ==
  [type |-> type, fields |-> fields, profile |-> profile, region |-> region,
   password_env_var |-> "P"]
Full(type, profile) == Source(type, Required[type], profile, "r1")

-----------------------------------------------------------------------------
\* Two of each kind, S3 ones with a blank key file; alone or beside an invalid one.
Valid == [p \in {"aws", "aws2", "sa", "sb"} |->
            IF p \in {"aws", "aws2"} THEN Credential("a", "s", " ") ELSE Credential("", "", "f")]
CredentialMaps ==
  {Valid} \cup {("bad" :> c) @@ Valid :
                  c \in {Credential("a", "", ""), Credential("a", "s", "f"), Credential("", " ", "")}}

Shared == {Full("s3", p) : p \in {"aws", "aws2", "sa"}}
          \cup {Full("gsheet", p) : p \in {"", "sa", " sa ", "sb"}}
Others == {Full("s3", p) : p \in {"", " ", "ghost"}}
          \cup {Full("gsheet", p) : p \in {" ", "aws", "ghost"}}
          \cup {Full("postgresql", ""), Source("mysql", Required["mysql"] \ {"port"}, "", "r1"),
                Full("sqlite", ""), Source("file", {}, "", "r1"), Full("duckdb", ""),
                Source("oracle", {"host"}, "", "r1")}

ParsedMaps == [1..3 -> Shared \cup {Full("postgresql", "")}]
              \cup [{2, 3} -> Shared \cup Others] \cup [{} -> Shared]

MCParsed == [credentials : {Valid}, databases : ParsedMaps]
            \cup [credentials : CredentialMaps, databases : [{1} -> Shared]]

-----------------------------------------------------------------------------
Keys == ("aws" :> Credential("A", "S", "")) @@ ("aws2" :> Credential("A2", "S", ""))
        @@ ("sa" :> Credential("", "", "f"))
Plain(type) == Full(type, "")
Sheet(profile) == Full("gsheet", profile)
Bucket(profile, region) == Source("s3", Required["s3"], profile, region)

BootedMaps ==
  {<<>>, <<Plain("mysql"), Plain("sqlite")>>, <<Plain("postgresql"), Plain("duckdb")>>,
   <<Bucket("aws", "r1"), Plain("file")>>, <<Bucket("sa", "r1")>>,
   <<Bucket("aws", "r1"), Plain("file"), Bucket("aws", "r2")>>,
   <<Bucket("aws", "r1"), Bucket("aws2", "r1")>>,
   <<Sheet(""), Plain("sqlite")>>, <<Sheet("sa"), Sheet("sa")>>, <<Sheet(" sa ")>>,
   <<Sheet(""), Sheet("")>>, <<Sheet(""), Sheet("sa")>>}

MCBooted == [credentials : {Keys}, databases : BootedMaps]

MCDocuments == MCParsed \cup MCBooted
MCEnvironments == {{"P", "A", "S"}, {"A", "A2"}}
=============================================================================

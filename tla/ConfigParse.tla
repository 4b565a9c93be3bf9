----------------------------- MODULE ConfigParse -----------------------------
(***************************************************************************)
(* ParseConfig (queryengine/config.go): two loops over Go maps, whose      *)
(* order is not specified, with early returns.  The second loop remembers  *)
(* the first profile it meets of each kind that may have only one.         *)
(***************************************************************************)
EXTENDS Config

CONSTANT Documents   \* what json.Unmarshal may yield

\* Keys are numbered in their order.
ASSUME KeysAssumption == \A d \in Documents : DOMAIN d.databases \subseteq Nat

VARIABLES config,        \* input: the document
          wellFormed,    \* input: json.Unmarshal succeeds
          unread,        \* the keys the current loop has not visited
          s3Profile,     \* s3CredProfile: "" until an S3 source is seen
          sheetProfile,  \* gsheetCredProfile
          sheetSeen,     \* gsheetCredProfileSet
          pc

vars == <<config, wellFormed, unread, s3Profile, sheetProfile, sheetSeen, pc>>

Init == /\ config \in Documents /\ wellFormed \in BOOLEAN
        /\ unread = {}
        /\ s3Profile = "" /\ sheetProfile = "" /\ sheetSeen = FALSE
        /\ pc = "unmarshal"

Unmarshal ==
  /\ pc = "unmarshal"
  /\ IF wellFormed
       THEN pc' = "credentials" /\ unread' = DOMAIN config.credentials
       ELSE pc' = "rejected" /\ UNCHANGED unread
  /\ UNCHANGED <<config, wellFormed, s3Profile, sheetProfile, sheetSeen>>

\* An early return: what is left of the loop does not matter.
Reject == pc' = "rejected" /\ unread' = {} /\ UNCHANGED <<s3Profile, sheetProfile, sheetSeen>>

CheckCredential(c) ==
  /\ pc = "credentials" /\ c \in unread
  /\ IF CredentialOk(config.credentials[c])
       THEN unread' = unread \ {c} /\ UNCHANGED <<s3Profile, sheetProfile, sheetSeen, pc>>
       ELSE Reject
  /\ UNCHANGED <<config, wellFormed>>

StartSources ==
  /\ pc = "credentials" /\ unread = {}
  /\ pc' = "sources" /\ unread' = DOMAIN config.databases
  /\ UNCHANGED <<config, wellFormed, s3Profile, sheetProfile, sheetSeen>>

\* Mutant of Conflicts: "" means no profile yet, for sheets as for S3.
Conflicts_EmptyIsUnset(source) ==
  \/ source.type = "s3" /\ s3Profile # "" /\ s3Profile # source.profile
  \/ source.type = "gsheet" /\ sheetProfile # "" /\ sheetProfile # source.profile

\* A source with another profile than the first one of its kind.
Conflicts(source) ==
  \/ source.type = "s3" /\ s3Profile # "" /\ s3Profile # source.profile
  \/ source.type = "gsheet" /\ sheetSeen /\ sheetProfile # source.profile

\* Mutant of Remember: the first S3 profile is forgotten for each new one.
Remember_Last(source) ==
  /\ s3Profile' = source.profile
  /\ sheetProfile' = IF source.type = "gsheet" THEN source.profile ELSE sheetProfile
  /\ sheetSeen' = (sheetSeen \/ source.type = "gsheet")

Remember(source) ==
  /\ s3Profile' = IF source.type = "s3" /\ s3Profile = "" THEN source.profile ELSE s3Profile
  /\ sheetProfile' = IF source.type = "gsheet" /\ ~sheetSeen
                       THEN source.profile ELSE sheetProfile
  /\ sheetSeen' = (sheetSeen \/ source.type = "gsheet")

CheckSource(k) ==
  /\ pc = "sources" /\ k \in unread
  /\ LET source == config.databases[k] IN
       IF SourceOk(source, config.credentials) /\ ~Conflicts(source)
         THEN Remember(source) /\ unread' = unread \ {k} /\ UNCHANGED pc
         ELSE Reject
  /\ UNCHANGED <<config, wellFormed>>

Accept ==
  /\ pc = "sources" /\ unread = {}
  /\ pc' = "accepted"
  /\ UNCHANGED <<config, wellFormed, unread, s3Profile, sheetProfile, sheetSeen>>

Next == \/ Unmarshal \/ StartSources \/ Accept
        \/ \E c \in DOMAIN config.credentials : CheckCredential(c)
        \/ \E k \in DOMAIN config.databases : CheckSource(k)

Spec == Init /\ [][Next]_vars

-----------------------------------------------------------------------------
Profiles(type) == {config.databases[k].profile : k \in SourcesOf(config, type)}

TypeOK == /\ config \in Documents /\ wellFormed \in BOOLEAN /\ sheetSeen \in BOOLEAN
          /\ s3Profile \in {""} \cup Profiles("s3")
          /\ sheetProfile \in {""} \cup Profiles("gsheet")
          /\ pc \in {"unmarshal", "credentials", "sources", "accepted", "rejected"}
          /\ unread \subseteq IF pc = "credentials" THEN DOMAIN config.credentials
                                                   ELSE DOMAIN config.databases

\* The verdict depends on the document only, not on the order in which Go ranges
\* over its maps: a configuration is accepted exactly when every credential and
\* every source is valid and the sources of a kind share one profile.
VerdictIgnoresOrder ==
  /\ pc = "accepted" => wellFormed /\ Acceptable(config)
  /\ pc = "rejected" => ~(wellFormed /\ Acceptable(config))

\* The sources the second loop has visited.
Visited == DOMAIN config.databases \ unread

\* What VerdictIgnoresOrder rests on: the remembered profile is that of every
\* source visited, and is remembered as soon as there is one (config.go:117-170).
ProfilesRemembered ==
  pc = "sources" =>
    /\ \A k \in Visited : config.databases[k].type = "s3" =>
         s3Profile # "" /\ s3Profile = config.databases[k].profile
    /\ \A k \in Visited : config.databases[k].type = "gsheet" =>
         sheetSeen /\ sheetProfile = config.databases[k].profile
    /\ s3Profile # "" => \E k \in Visited : /\ config.databases[k].type = "s3"
                                            /\ s3Profile = config.databases[k].profile
    /\ sheetSeen => \E k \in Visited : /\ config.databases[k].type = "gsheet"
                                       /\ sheetProfile = config.databases[k].profile

\* What VerdictIgnoresOrder rests on, too: what has been visited is valid.
VisitedAreOk ==
  /\ pc \in {"credentials", "sources", "accepted"} => wellFormed
  /\ pc \in {"unmarshal", "credentials"} => s3Profile = "" /\ ~sheetSeen
  /\ pc = "credentials" =>
       \A c \in DOMAIN config.credentials \ unread : CredentialOk(config.credentials[c])
  /\ pc = "sources" =>
       /\ \A c \in DOMAIN config.credentials : CredentialOk(config.credentials[c])
       /\ \A k \in Visited : SourceOk(config.databases[k], config.credentials)

Inv == TypeOK /\ ProfilesRemembered /\ VisitedAreOk /\ VerdictIgnoresOrder
=============================================================================

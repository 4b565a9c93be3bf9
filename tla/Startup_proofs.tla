--------------------------- MODULE Startup_proofs ---------------------------
(***************************************************************************)
(* For any set of documents, environments and processes, and any number of *)
(* sign-ins: what is booted has been validated, and an engine started      *)
(* after a completed sign-in has that sign-in's secret or a later one.     *)
(***************************************************************************)
EXTENDS Startup, WellFoundedInduction, TLAPS

-----------------------------------------------------------------------------
(* The parser alone: for every set of documents, of any size, the verdict  *)
(* of ParseConfig is that of Acceptable, whatever the order in which Go    *)
(* ranges over its maps.                                                   *)

\* A valid S3 source has a profile: "" can stand for "none seen yet".
LEMMA BucketsHaveProfiles ==
  ASSUME NEW source, NEW credentials, SourceOk(source, credentials), source.type = "s3"
  PROVE  source.profile # ""
<1>1. ~Blank(source.profile)
  BY DEF SourceOk, ProfileOk
<1>2. Blank("")
  BY PaddingAssumption DEF Blank, Trim
<1> QED
  BY <1>1, <1>2

LEMMA InitInv == Init => Inv
BY DEF Init, Inv, TypeOK, ProfilesRemembered, VisitedAreOk, VerdictIgnoresOrder

LEMMA UnmarshalInv ==
  ASSUME Inv, Unmarshal
  PROVE  Inv'
<1>1. TypeOK'
  BY DEF Inv, TypeOK, Unmarshal, Profiles, SourcesOf
<1>2. ProfilesRemembered' /\ VisitedAreOk'
  BY DEF Inv, TypeOK, ProfilesRemembered, VisitedAreOk, Unmarshal, Visited
<1>3. VerdictIgnoresOrder'
  BY DEF Inv, VerdictIgnoresOrder, Unmarshal
<1> QED
  BY <1>1, <1>2, <1>3 DEF Inv

\* An early return is right when the document is not acceptable.
LEMMA RejectInv ==
  ASSUME Inv, Reject, UNCHANGED <<config, wellFormed>>, ~Acceptable(config)
  PROVE  Inv'
<1>1. TypeOK'
  BY DEF Inv, TypeOK, Reject, Profiles, SourcesOf
<1>2. ProfilesRemembered' /\ VisitedAreOk'
  BY DEF ProfilesRemembered, VisitedAreOk, Reject
<1>3. VerdictIgnoresOrder'
  BY DEF VerdictIgnoresOrder, Reject, Acceptable
<1> QED
  BY <1>1, <1>2, <1>3 DEF Inv

LEMMA CheckCredentialInv ==
  ASSUME Inv, NEW c \in DOMAIN config.credentials, CheckCredential(c)
  PROVE  Inv'
<1>1. CASE CredentialOk(config.credentials[c])
  <2>1. /\ pc = "credentials" /\ pc' = pc /\ unread' = unread \ {c}
        /\ UNCHANGED <<config, wellFormed, s3Profile, sheetProfile, sheetSeen>>
    BY <1>1 DEF CheckCredential
  <2>2. TypeOK'
    BY <2>1 DEF Inv, TypeOK, Profiles, SourcesOf
  <2>3. VisitedAreOk'
    BY <1>1, <2>1 DEF Inv, VisitedAreOk
  <2>4. ProfilesRemembered' /\ VerdictIgnoresOrder'
    BY <2>1 DEF ProfilesRemembered, VerdictIgnoresOrder
  <2> QED
    BY <2>2, <2>3, <2>4 DEF Inv
<1>2. CASE ~CredentialOk(config.credentials[c])
  <2>1. ~Acceptable(config)
    BY <1>2 DEF Acceptable
  <2> QED
    BY <1>2, <2>1, RejectInv DEF CheckCredential
<1> QED
  BY <1>1, <1>2

LEMMA StartSourcesInv ==
  ASSUME Inv, StartSources
  PROVE  Inv'
<1>1. TypeOK'
  BY DEF Inv, TypeOK, StartSources, Profiles, SourcesOf
<1>2. ProfilesRemembered' /\ VisitedAreOk'
  BY DEF Inv, ProfilesRemembered, VisitedAreOk, StartSources, Visited
<1>3. VerdictIgnoresOrder'
  BY DEF VerdictIgnoresOrder, StartSources
<1> QED
  BY <1>1, <1>2, <1>3 DEF Inv

\* A source is remembered: the profiles of all the visited ones stay the same.
LEMMA RememberInv ==
  ASSUME Inv, NEW k \in DOMAIN config.databases, pc = "sources", pc' = "sources",
         k \in unread, unread' = unread \ {k}, UNCHANGED <<config, wellFormed>>,
         SourceOk(config.databases[k], config.credentials),
         ~Conflicts(config.databases[k]), Remember(config.databases[k])
  PROVE  Inv'
<1> DEFINE source == config.databases[k]
<1>1. Visited' = Visited \cup {k}
  BY DEF Visited, Inv, TypeOK
<1>2. TypeOK'
  <2>1. source.type \in {"s3", "gsheet"} => source.profile \in Profiles(source.type)
    BY DEF Profiles, SourcesOf
  <2>2. Profiles("s3")' = Profiles("s3") /\ Profiles("gsheet")' = Profiles("gsheet")
    BY DEF Profiles, SourcesOf
  <2>3. /\ s3Profile' \in {""} \cup Profiles("s3")
        /\ sheetProfile' \in {""} \cup Profiles("gsheet")
        /\ sheetSeen' \in BOOLEAN
    BY <2>1 DEF Inv, TypeOK, Remember
  <2> QED
    BY <2>2, <2>3 DEF Inv, TypeOK
<1>3. VisitedAreOk'
  BY <1>1 DEF Inv, VisitedAreOk
<1>4. ProfilesRemembered'
  <2>1. ASSUME NEW j \in Visited', config.databases[j].type = "s3"
        PROVE  s3Profile' # "" /\ s3Profile' = config.databases[j].profile
    <3>1. CASE j = k
      BY <2>1, <3>1, BucketsHaveProfiles DEF Conflicts, Remember
    <3>2. CASE j # k
      BY <1>1, <2>1, <3>2 DEF Inv, ProfilesRemembered, Remember
    <3> QED
      BY <3>1, <3>2
  <2>2. ASSUME NEW j \in Visited', config.databases[j].type = "gsheet"
        PROVE  sheetSeen' /\ sheetProfile' = config.databases[j].profile
    <3>1. CASE j = k
      BY <2>2, <3>1 DEF Conflicts, Remember
    <3>2. CASE j # k
      BY <1>1, <2>2, <3>2 DEF Inv, ProfilesRemembered, Remember
    <3> QED
      BY <3>1, <3>2
  <2>3. s3Profile' # "" => \E j \in Visited' : /\ config.databases[j].type = "s3"
                                               /\ s3Profile' = config.databases[j].profile
    BY <1>1 DEF Inv, ProfilesRemembered, Remember
  <2>4. sheetSeen' => \E j \in Visited' : /\ config.databases[j].type = "gsheet"
                                          /\ sheetProfile' = config.databases[j].profile
    BY <1>1 DEF Inv, ProfilesRemembered, Remember
  <2> QED
    BY <2>1, <2>2, <2>3, <2>4 DEF ProfilesRemembered
<1>5. VerdictIgnoresOrder'
  BY DEF VerdictIgnoresOrder
<1> QED
  BY <1>2, <1>3, <1>4, <1>5 DEF Inv

\* A source that conflicts does so with one that has been visited.
LEMMA ConflictRefutes ==
  ASSUME Inv, NEW k \in DOMAIN config.databases, pc = "sources",
         Conflicts(config.databases[k])
  PROVE  ~Acceptable(config)
<1>1. CASE config.databases[k].type = "s3" /\ s3Profile # "" /\ s3Profile # config.databases[k].profile
  <2>1. PICK j \in Visited : /\ config.databases[j].type = "s3"
                             /\ s3Profile = config.databases[j].profile
    BY <1>1 DEF Inv, ProfilesRemembered
  <2>2. ~ProfilesAgree(config, "s3")
    BY <1>1, <2>1 DEF ProfilesAgree, SourcesOf, Visited
  <2> QED
    BY <2>2 DEF Acceptable
<1>2. CASE config.databases[k].type = "gsheet" /\ sheetSeen /\ sheetProfile # config.databases[k].profile
  <2>1. PICK j \in Visited : /\ config.databases[j].type = "gsheet"
                             /\ sheetProfile = config.databases[j].profile
    BY <1>2 DEF Inv, ProfilesRemembered
  <2>2. ~ProfilesAgree(config, "gsheet")
    BY <1>2, <2>1 DEF ProfilesAgree, SourcesOf, Visited
  <2> QED
    BY <2>2 DEF Acceptable
<1> QED
  BY <1>1, <1>2 DEF Conflicts

LEMMA CheckSourceInv ==
  ASSUME Inv, NEW k \in DOMAIN config.databases, CheckSource(k)
  PROVE  Inv'
<1>0. pc = "sources" /\ k \in unread /\ UNCHANGED <<config, wellFormed>>
  BY DEF CheckSource
<1>1. CASE SourceOk(config.databases[k], config.credentials) /\ ~Conflicts(config.databases[k])
  <2>1. Remember(config.databases[k]) /\ unread' = unread \ {k} /\ pc' = "sources"
    BY <1>0, <1>1 DEF CheckSource
  <2> QED
    BY <1>0, <1>1, <2>1, RememberInv
<1>2. CASE ~SourceOk(config.databases[k], config.credentials) \/ Conflicts(config.databases[k])
  <2>1. ~Acceptable(config)
    BY <1>0, <1>2, ConflictRefutes DEF Acceptable
  <2>2. Reject
    BY <1>2 DEF CheckSource
  <2> QED
    BY <1>0, <2>1, <2>2, RejectInv
<1> QED
  BY <1>1, <1>2

\* All sources have been visited: nothing is left that could be wrong.
LEMMA AcceptInv ==
  ASSUME Inv, Accept
  PROVE  Inv'
<1>1. Visited = DOMAIN config.databases
  BY DEF Visited, Accept
<1>2. ProfilesAgree(config, "s3") /\ ProfilesAgree(config, "gsheet")
  BY <1>1 DEF Inv, ProfilesRemembered, ProfilesAgree, SourcesOf, Accept
<1>3. wellFormed /\ Acceptable(config)
  BY <1>1, <1>2 DEF Inv, VisitedAreOk, Acceptable, Accept
<1>4. TypeOK'
  BY DEF Inv, TypeOK, Accept, Profiles, SourcesOf
<1>5. ProfilesRemembered' /\ VisitedAreOk'
  BY <1>3 DEF ProfilesRemembered, VisitedAreOk, Accept
<1>6. UNCHANGED <<config, wellFormed>> /\ pc' = "accepted"
  BY DEF Accept
<1>7. Acceptable(config)'
  BY <1>3, <1>6 DEF Acceptable, ProfilesAgree, SourcesOf
<1>8. VerdictIgnoresOrder'
  BY <1>3, <1>6, <1>7 DEF VerdictIgnoresOrder
<1> QED
  BY <1>4, <1>5, <1>8 DEF Inv

LEMMA StutterInv ==
  ASSUME Inv, UNCHANGED vars
  PROVE  Inv'
<1>1. TypeOK' /\ VisitedAreOk' /\ ProfilesRemembered'
  BY DEF vars, Inv, TypeOK, VisitedAreOk, ProfilesRemembered, Visited, Profiles, SourcesOf
<1>2. VerdictIgnoresOrder'
  BY DEF vars, Inv, VerdictIgnoresOrder, Acceptable, ProfilesAgree, SourcesOf
<1> QED
  BY <1>1, <1>2 DEF Inv

\* ParseConfig keeps its invariant, for any number of credentials and sources.
THEOREM Invariance == Spec => []Inv
<1>1. Init => Inv
  BY InitInv
<1>2. Inv /\ [Next]_vars => Inv'
  BY UnmarshalInv, CheckCredentialInv, StartSourcesInv, CheckSourceInv, AcceptInv, StutterInv
     DEF Next
<1> QED
  BY <1>1, <1>2, PTL DEF Spec

\* Whatever the order of the two maps, a configuration is accepted exactly when it
\* is acceptable (config.go:97-177).
THEOREM OrderDoesNotMatter == Spec => []VerdictIgnoresOrder
BY Invariance, PTL DEF Inv

\* The profile that is remembered is that of every source visited (config.go:148-170).
THEOREM OneProfileRemembered == Spec => []ProfilesRemembered
BY Invariance, PTL DEF Inv

-----------------------------------------------------------------------------
(* The parser is not disturbed by the engines.                             *)

LEMMA EngineKeepsConfig ==
  ASSUME Engine!Next
  PROVE  config' = config
BY DEF Engine!Next, Engine!Start, Engine!Step, Engine!StatementFails, Engine!SignIn,
       Engine!AbortSignIn, Engine!Exit, Engine!LoadExtensions, Engine!ConfigureS3,
       Engine!ConfigureGSheet, Engine!SecretNotFound, Engine!Attach, Engine!Validate,
       Engine!ReturnEngine

LEMMA StepParses == [StartupNext]_all => [Next]_vars
BY EngineKeepsConfig DEF StartupNext, ParseStep, EngineStep, all, vars, parsing

\* A configuration commands are run with is acceptable, whatever the order in which it
\* was parsed (cmd/common.go:53-67): OrderDoesNotMatter, for the whole.
THEOREM ParsedInAnyOrder == StartupSpec => []VerdictIgnoresOrder
<1>1. StartupInit => Init
  BY DEF StartupInit
<1>2. StartupSpec => Spec
  BY <1>1, StepParses, PTL DEF StartupSpec, Spec
<1> QED
  BY <1>2, OrderDoesNotMatter, PTL

-----------------------------------------------------------------------------
(* What holds of each process.                                             *)

Keys == Engine!Keys
Gone(p) == place[p] \in {"ended", "refused"}
Attaching == {"attach", "validate", "ready"}
SheetMode(k) == IF Engine!KeyFileOf(config.databases[k]) = "" THEN "oauth" ELSE "key_file"

\* The shape of a process's state, and which statements its command has.
Shape(p) ==
  /\ place[p] \in Engine!Places /\ command[p] \in {"engine", "auth"}
  /\ command[p] = "auth" => Gone(p) \/ place[p] \in {"extensions", "oauth"}
  /\ DOMAIN session[p] = DOMAIN Engine!Closed
  /\ IF Gone(p) THEN session[p] = Engine!Closed ELSE session[p].open = TRUE

\* What New has configured before it attaches the sources.
Configured(p) ==
  command[p] = "engine" /\ ~Gone(p) =>
    /\ place[p] # "extensions" =>
         session[p].loaded = UNION {Engine!ExtensionOf(Engine!TypeOf(k)) : k \in Keys}
    /\ place[p] \notin {"extensions", "s3"} =>
         \A k \in SourcesOf(config, "s3") : session[p].s3.profile = config.databases[k].profile
    /\ place[p] = "oauth" =>
         \A k \in SourcesOf(config, "gsheet") : SheetMode(k) = "oauth"
    /\ place[p] \in Attaching =>
         \A k \in SourcesOf(config, "gsheet") : session[p].sheets.mode = SheetMode(k)

\* Where its loop over the sources is.
Looping(p) ==
  /\ todo[p] \subseteq Keys /\ session[p].active \subseteq Keys
  /\ ~Gone(p) /\ place[p] \notin Attaching => todo[p] = Keys
  /\ place[p] \in Attaching => Keys \subseteq session[p].active \cup todo[p]
  /\ \A k \in session[p].active :
       Engine!TypeOf(k) \in Engine!Attachable => k \in session[p].attached
  /\ place[p] = "validate" => /\ Engine!NextKey(p) \in todo[p]
                              /\ Engine!NextKey(p) \in session[p].attached
  /\ place[p] = "ready" => todo[p] = {}

\* A session that uses the secret took it after its command was started.
Recent(p) ==
  /\ floor[p] \in Nat /\ floor[p] <= newest
  /\ session[p].sheets.mode = "oauth" =>
       session[p].sheets.login \in Nat /\ session[p].sheets.login >= floor[p]

ProcessOK(p) == Shape(p) /\ Configured(p) /\ Looping(p) /\ Recent(p)

\* What is persisted is at least as new as the last completed sign-in.
Disk == /\ disk \in Nat /\ logins \in Nat /\ newest \in Nat
        /\ newest <= disk /\ disk <= logins

Domains == /\ DOMAIN place = Processes /\ DOMAIN command = Processes
           /\ DOMAIN todo = Processes /\ DOMAIN session = Processes
           /\ DOMAIN floor = Processes

BootInv == Domains /\ Disk /\ \A p \in Processes : ProcessOK(p)

\* p took a step that is no other's, and no completed sign-in is forgotten.
Only(p) ==
  /\ config' = config /\ Domains'
  /\ \A q \in Processes \ {p} :
       /\ place'[q] = place[q] /\ command'[q] = command[q] /\ todo'[q] = todo[q]
       /\ session'[q] = session[q] /\ floor'[q] = floor[q]

LEMMA OnlyInv ==
  ASSUME BootInv, NEW p \in Processes, Only(p), ProcessOK(p)', Disk', newest <= newest'
  PROVE  BootInv'
<1> SUFFICES ASSUME NEW q \in Processes \ {p}
             PROVE  ProcessOK(q)'
  BY DEF BootInv, Only
<1>1. ProcessOK(q)
  BY DEF BootInv
<1>2. /\ config' = config /\ place'[q] = place[q] /\ command'[q] = command[q]
      /\ todo'[q] = todo[q] /\ session'[q] = session[q] /\ floor'[q] = floor[q]
  BY DEF Only
<1>3. Keys' = Keys /\ Gone(q)' = Gone(q) /\ Engine!NextKey(q)' = Engine!NextKey(q)
      /\ \A k : Engine!TypeOf(k)' = Engine!TypeOf(k) /\ SheetMode(k)' = SheetMode(k)
  BY <1>2 DEF Keys, Engine!Keys, Gone, Engine!NextKey, Engine!TypeOf, SheetMode, Engine!KeyFileOf
<1>4. Shape(q)' /\ Configured(q)'
  BY <1>1, <1>2, <1>3 DEF ProcessOK, Shape, Configured
<1>5. Looping(q)'
  BY <1>1, <1>2, <1>3 DEF ProcessOK, Looping
<1>6. Recent(q)'
  <2>1. newest \in Nat /\ newest' \in Nat /\ floor[q] \in Nat /\ floor[q] <= newest
    BY <1>1 DEF ProcessOK, Recent, BootInv, Disk
  <2> QED
    BY <1>1, <1>2, <2>1 DEF ProcessOK, Recent
<1> QED
  BY <1>4, <1>5, <1>6 DEF ProcessOK

-----------------------------------------------------------------------------
(* Each step leaves its process in order, and moves it as the service      *)
(* allows: no command is given an engine at once, none boots twice.        *)

Moves(p) == /\ Gone(p) => place'[p] # "ready"
            /\ place[p] = "ready" => Gone(p)'

Kept(p) == Only(p) /\ ProcessOK(p)' /\ Moves(p)

LEMMA EndKeeps ==
  ASSUME BootInv, NEW p \in Processes, Engine!End(p, "ended"), UNCHANGED <<config, floor>>,
         Disk', newest <= newest'
  PROVE  Kept(p)
<1>1. /\ place' = [place EXCEPT ![p] = "ended"] /\ session' = [session EXCEPT ![p] = Engine!Closed]
      /\ todo' = [todo EXCEPT ![p] = {}] /\ command' = command
  BY DEF Engine!End, Engine!Enter
<1>2. Only(p) /\ Moves(p)
  BY <1>1 DEF Only, BootInv, Domains, Moves, Gone
<1>3. place'[p] = "ended" /\ session'[p] = Engine!Closed /\ todo'[p] = {}
  BY <1>1 DEF BootInv, Domains
<1>4. Shape(p)' /\ Configured(p)'
  BY <1>1, <1>3 DEF BootInv, ProcessOK, Shape, Configured, Gone, Engine!Places
<1>5. Looping(p)'
  BY <1>3 DEF Looping, Gone, Attaching, Engine!Closed
<1>6. Recent(p)'
  <2>1. floor[p] \in Nat /\ floor[p] <= newest /\ newest \in Nat /\ newest' \in Nat
    BY DEF BootInv, ProcessOK, Recent, Disk
  <2> QED
    BY <1>3, <2>1 DEF Recent, Engine!Closed, Engine!NoAuth
<1> QED
  BY <1>2, <1>4, <1>5, <1>6 DEF Kept, ProcessOK

LEMMA StartKeeps ==
  ASSUME BootInv, NEW p \in Processes, Engine!Start(p)
  PROVE  Kept(p)
<1>1. Gone(p) /\ session[p] = Engine!Closed
  BY DEF Engine!Start, Gone, BootInv, ProcessOK, Shape
<1>2. PICK c \in {"engine", "auth"} :
        /\ command' = [command EXCEPT ![p] = c]
        /\ \/ /\ place' = [place EXCEPT ![p] = "refused"] /\ session' = session
           \/ /\ place' = [place EXCEPT ![p] = "extensions"]
              /\ session' = [session EXCEPT ![p].open = TRUE]
  BY DEF Engine!Start, Engine!Enter
<1>3. /\ todo' = [todo EXCEPT ![p] = Keys] /\ floor' = [floor EXCEPT ![p] = newest]
      /\ config' = config /\ newest' = newest
  BY DEF Engine!Start, Keys, Engine!secret
<1>4. Only(p) /\ Moves(p)
  BY <1>1, <1>2, <1>3 DEF Only, BootInv, Domains, Moves, Gone
<1>5. /\ command'[p] = c /\ todo'[p] = Keys /\ floor'[p] = newest
      /\ \/ place'[p] = "refused" /\ session'[p] = Engine!Closed
         \/ /\ place'[p] = "extensions"
            /\ session'[p] = [Engine!Closed EXCEPT !.open = TRUE]
  BY <1>1, <1>2, <1>3 DEF BootInv, Domains
<1>6. Shape(p)' /\ Configured(p)'
  BY <1>5 DEF Shape, Configured, Gone, Engine!Places, Engine!Closed, Attaching
<1>7. Looping(p)'
  <2>1. Keys' = Keys
    BY <1>3 DEF Keys, Engine!Keys
  <2> QED
    BY <1>5, <2>1 DEF Looping, Gone, Attaching, Engine!Closed
<1>8. Recent(p)'
  BY <1>3, <1>5 DEF Recent, Engine!Closed, Engine!NoAuth, BootInv, Disk
<1> QED
  BY <1>4, <1>6, <1>7, <1>8 DEF Kept, ProcessOK

\* A step that only changes where p is and what its session has configured.
LEMMA ConfigureKeeps ==
  ASSUME BootInv, NEW p \in Processes, UNCHANGED <<config, command, todo, floor>>,
         Disk', newest <= newest', ~Gone(p), place[p] \notin Attaching,
         NEW there \in {"s3", "gsheet", "oauth", "attach"},
         place' = [place EXCEPT ![p] = there],
         command[p] = "auth" => there = "oauth",
         DOMAIN session' = Processes, \A q \in Processes \ {p} : session'[q] = session[q],
         DOMAIN session'[p] = DOMAIN session[p],
         session'[p].open = session[p].open,
         session'[p].active = session[p].active, session'[p].attached = session[p].attached,
         session'[p].sheets.mode = "oauth" =>
           session'[p].sheets.login \in Nat /\ session'[p].sheets.login >= floor[p],
         Configured(p)'
  PROVE  Kept(p)
<1>1. place'[p] = there /\ command'[p] = command[p] /\ todo'[p] = todo[p] /\ floor'[p] = floor[p]
  BY DEF BootInv, Domains
<1>2. Only(p) /\ Moves(p)
  BY DEF Only, BootInv, Domains, Moves, Gone, Attaching
<1>3. Shape(p)'
  BY <1>1 DEF BootInv, ProcessOK, Shape, Gone, Engine!Places
<1>4. Looping(p)'
  <2>1. Keys' = Keys /\ \A k : Engine!TypeOf(k)' = Engine!TypeOf(k)
    BY DEF Keys, Engine!Keys, Engine!TypeOf
  <2>2. Looping(p) /\ todo[p] = Keys
    BY DEF BootInv, ProcessOK, Looping
  <2> QED
    BY <1>1, <2>1, <2>2 DEF Looping, Gone, Attaching
<1>5. Recent(p)'
  <2>1. floor[p] \in Nat /\ floor[p] <= newest /\ newest \in Nat /\ newest' \in Nat
    BY DEF BootInv, ProcessOK, Recent, Disk
  <2> QED
    BY <1>1, <2>1 DEF Recent
<1> QED
  BY <1>2, <1>3, <1>4, <1>5 DEF Kept, ProcessOK

LEMMA LoadKeeps ==
  ASSUME BootInv, NEW p \in Processes, Engine!LoadExtensions(p)
  PROVE  Kept(p)
<1> DEFINE there == IF command[p] = "auth" THEN "oauth" ELSE "s3"
<1>1. /\ place[p] = "extensions" /\ place' = [place EXCEPT ![p] = there]
      /\ UNCHANGED <<config, command, todo, floor, disk, logins, newest>>
  BY DEF Engine!LoadExtensions, Engine!Enter, Engine!secret
<1>2. PICK needed :
        /\ session' = [session EXCEPT ![p].loaded = needed]
        /\ command[p] = "engine" =>
             needed = UNION {Engine!ExtensionOf(Engine!TypeOf(k)) : k \in Keys}
  BY DEF Engine!LoadExtensions, Keys
<1>3. /\ DOMAIN session' = Processes /\ \A q \in Processes \ {p} : session'[q] = session[q]
      /\ session'[p] = [session[p] EXCEPT !.loaded = needed]
  BY <1>2 DEF BootInv, Domains
<1>4. /\ DOMAIN session'[p] = DOMAIN session[p] /\ session'[p].loaded = needed
      /\ session'[p].open = session[p].open /\ session'[p].active = session[p].active
      /\ session'[p].attached = session[p].attached /\ session'[p].sheets = session[p].sheets
  BY <1>3 DEF BootInv, ProcessOK, Shape, Engine!Closed
<1>5. Configured(p)'
  <2>1. Keys' = Keys /\ \A k : Engine!TypeOf(k)' = Engine!TypeOf(k)
    BY <1>1 DEF Keys, Engine!Keys, Engine!TypeOf
  <2>2. command'[p] = "engine" => place'[p] = "s3" /\ command[p] = "engine"
    BY <1>1 DEF BootInv, Domains
  <2> QED
    BY <1>2, <1>4, <2>1, <2>2 DEF Configured, Attaching
<1>6. session[p].sheets.mode = "oauth" =>
        session[p].sheets.login \in Nat /\ session[p].sheets.login >= floor[p]
  BY DEF BootInv, ProcessOK, Recent
<1>7. Disk' /\ newest <= newest'
  BY <1>1 DEF BootInv, Disk
<1> QED
  BY <1>1, <1>3, <1>4, <1>5, <1>6, <1>7, ConfigureKeeps DEF Gone, Attaching

LEMMA FailKeeps ==
  ASSUME BootInv, NEW p \in Processes, Engine!Fail(p),
         UNCHANGED <<config, floor, disk, logins, newest>>
  PROVE  Kept(p)
<1>1. Disk' /\ newest <= newest'
  BY DEF BootInv, Disk
<1> QED
  BY <1>1, EndKeeps DEF Engine!Fail

LEMMA S3Keeps ==
  ASSUME BootInv, Acceptable(config), NEW p \in Processes, Engine!ConfigureS3(p)
  PROVE  Kept(p)
<1>1. place[p] = "s3" /\ UNCHANGED <<config, floor, disk, logins, newest>>
  BY DEF Engine!ConfigureS3, Engine!secret
<1>2. Disk' /\ newest <= newest'
  BY <1>1 DEF BootInv, Disk
<1>3. command[p] = "engine"
  BY <1>1 DEF BootInv, ProcessOK, Shape, Gone
<1>4. ASSUME place' = [place EXCEPT ![p] = "gsheet"], UNCHANGED <<command, todo>>,
             DOMAIN session' = Processes, \A q \in Processes \ {p} : session'[q] = session[q],
             DOMAIN session'[p] = DOMAIN session[p], session'[p].loaded = session[p].loaded,
             session'[p].open = session[p].open, session'[p].active = session[p].active,
             session'[p].attached = session[p].attached, session'[p].sheets = session[p].sheets,
             \A k \in SourcesOf(config, "s3") :
               session'[p].s3.profile = config.databases[k].profile
      PROVE  Kept(p)
  <2>1. Keys' = Keys /\ \A k : Engine!TypeOf(k)' = Engine!TypeOf(k)
    BY <1>1 DEF Keys, Engine!Keys, Engine!TypeOf
  <2>2. place'[p] = "gsheet"
    BY <1>4 DEF BootInv, Domains
  <2>3. session[p].loaded = UNION {Engine!ExtensionOf(Engine!TypeOf(k)) : k \in Keys}
    BY <1>1, <1>3 DEF BootInv, ProcessOK, Configured, Gone
  <2>4. Configured(p)'
    BY <1>1, <1>4, <2>1, <2>2, <2>3 DEF Configured, Attaching
  <2>5. session[p].sheets.mode = "oauth" =>
          session[p].sheets.login \in Nat /\ session[p].sheets.login >= floor[p]
    BY DEF BootInv, ProcessOK, Recent
  <2> QED
    BY <1>1, <1>2, <1>3, <1>4, <2>4, <2>5, ConfigureKeeps DEF Gone, Attaching
<1>5. CASE /\ SourcesOf(config, "s3") = {}
           /\ place' = [place EXCEPT ![p] = "gsheet"] /\ UNCHANGED <<command, todo, session>>
  BY <1>4, <1>5 DEF BootInv, Domains
<1>6. ASSUME NEW k \in SourcesOf(config, "s3"), NEW region,
             session' = [session EXCEPT ![p].s3 =
                           [profile |-> config.databases[k].profile, region |-> region]],
             place' = [place EXCEPT ![p] = "gsheet"], UNCHANGED <<command, todo>>
      PROVE  Kept(p)
  <2>1. \A j \in SourcesOf(config, "s3") :
          config.databases[k].profile = config.databases[j].profile
    BY DEF Acceptable, ProfilesAgree
  <2>2. /\ DOMAIN session' = Processes /\ \A q \in Processes \ {p} : session'[q] = session[q]
        /\ session'[p] = [session[p] EXCEPT !.s3 =
                            [profile |-> config.databases[k].profile, region |-> region]]
    BY <1>6 DEF BootInv, Domains
  <2>3. /\ DOMAIN session'[p] = DOMAIN session[p] /\ session'[p].loaded = session[p].loaded
        /\ session'[p].open = session[p].open /\ session'[p].active = session[p].active
        /\ session'[p].attached = session[p].attached /\ session'[p].sheets = session[p].sheets
        /\ session'[p].s3.profile = config.databases[k].profile
    BY <2>2 DEF BootInv, ProcessOK, Shape, Engine!Closed
  <2> QED
    BY <1>4, <1>6, <2>1, <2>2, <2>3
<1>7. CASE Engine!Fail(p)
  BY <1>1, <1>7, FailKeeps
<1>8. Engine!SourcesOf(config, "s3") = SourcesOf(config, "s3")
  BY DEF Engine!SourcesOf, SourcesOf
<1> QED
  BY <1>5, <1>6, <1>7, <1>8 DEF Engine!ConfigureS3, Engine!Enter

\* Where the sheets are authorised, the session already has what comes before.
LEMMA BeforeSheets ==
  ASSUME BootInv, NEW p \in Processes, place[p] \in {"gsheet", "oauth"}, command[p] = "engine",
         config' = config, command' = command,
         DOMAIN session' = Processes,
         session'[p].loaded = session[p].loaded, session'[p].s3 = session[p].s3,
         place'[p] \in {"oauth", "attach"},
         place'[p] = "oauth" => \A k \in SourcesOf(config, "gsheet") : SheetMode(k) = "oauth",
         place'[p] = "attach" =>
           \A k \in SourcesOf(config, "gsheet") : session'[p].sheets.mode = SheetMode(k)
  PROVE  Configured(p)'
<1>1. Keys' = Keys /\ \A k : Engine!TypeOf(k)' = Engine!TypeOf(k) /\ SheetMode(k)' = SheetMode(k)
  BY DEF Keys, Engine!Keys, Engine!TypeOf, SheetMode, Engine!KeyFileOf
<1>2. /\ session[p].loaded = UNION {Engine!ExtensionOf(Engine!TypeOf(k)) : k \in Keys}
      /\ \A k \in SourcesOf(config, "s3") : session[p].s3.profile = config.databases[k].profile
  BY DEF BootInv, ProcessOK, Configured, Gone
<1> QED
  BY <1>1, <1>2 DEF Configured, Attaching

LEMMA UseAuthKeeps ==
  ASSUME BootInv, NEW p \in Processes, place[p] \in {"gsheet", "oauth"}, command[p] = "engine",
         NEW mode, NEW login, Engine!UseAuth(p, mode, login),
         UNCHANGED <<config, command, todo, floor>>, Disk', newest <= newest',
         mode = "oauth" => login \in Nat /\ login >= newest,
         \A k \in SourcesOf(config, "gsheet") : mode = SheetMode(k)
  PROVE  Kept(p)
<1>1. /\ place' = [place EXCEPT ![p] = "attach"]
      /\ session' = [session EXCEPT ![p].sheets = [mode |-> mode, login |-> login]]
  BY DEF Engine!UseAuth, Engine!Enter
<1>2. /\ DOMAIN session' = Processes /\ \A q \in Processes \ {p} : session'[q] = session[q]
      /\ session'[p] = [session[p] EXCEPT !.sheets = [mode |-> mode, login |-> login]]
      /\ place'[p] = "attach"
  BY <1>1 DEF BootInv, Domains
<1>3. /\ DOMAIN session'[p] = DOMAIN session[p] /\ session'[p].loaded = session[p].loaded
      /\ session'[p].open = session[p].open /\ session'[p].active = session[p].active
      /\ session'[p].attached = session[p].attached /\ session'[p].s3 = session[p].s3
      /\ session'[p].sheets = [mode |-> mode, login |-> login]
  BY <1>2 DEF BootInv, ProcessOK, Shape, Engine!Closed
<1>4. /\ config' = config /\ command' = command /\ session'[p].sheets.mode = mode
      /\ session'[p].sheets.login = login
  BY <1>3
<1>5. Configured(p)'
  <2>1. \A k \in SourcesOf(config, "gsheet") : session'[p].sheets.mode = SheetMode(k)
    BY <1>4
  <2>2. place'[p] \in {"oauth", "attach"} /\ place'[p] # "oauth"
    BY <1>2
  <2> QED
    BY <1>2, <1>3, <1>4, <2>1, <2>2, BeforeSheets
<1>6. session'[p].sheets.mode = "oauth" =>
        session'[p].sheets.login \in Nat /\ session'[p].sheets.login >= floor[p]
  <2>1. floor[p] \in Nat /\ floor[p] <= newest /\ newest \in Nat
    BY DEF BootInv, ProcessOK, Recent, Disk
  <2> QED
    BY <1>4, <2>1
<1>7. ~Gone(p) /\ place[p] \notin Attaching
  BY DEF Gone, Attaching
<1> QED
  BY <1>1, <1>2, <1>3, <1>5, <1>6, <1>7, ConfigureKeeps

LEMMA AskUserKeeps ==
  ASSUME BootInv, NEW p \in Processes, place[p] = "gsheet",
         Engine!Enter(p, "oauth"), UNCHANGED session,
         UNCHANGED <<config, command, todo, floor, disk, logins, newest>>,
         \A k \in SourcesOf(config, "gsheet") : SheetMode(k) = "oauth"
  PROVE  Kept(p)
<1>1. command[p] = "engine"
  BY DEF BootInv, ProcessOK, Shape, Gone
<1>2. place' = [place EXCEPT ![p] = "oauth"] /\ place'[p] = "oauth" /\ DOMAIN session' = Processes
  BY DEF Engine!Enter, BootInv, Domains
<1>3. Configured(p)'
  BY <1>1, <1>2, BeforeSheets
<1>4. session[p].sheets.mode = "oauth" =>
        session[p].sheets.login \in Nat /\ session[p].sheets.login >= floor[p]
  BY DEF BootInv, ProcessOK, Recent
<1>5. Disk' /\ newest <= newest'
  BY DEF BootInv, Disk
<1> QED
  BY <1>1, <1>2, <1>3, <1>4, <1>5, ConfigureKeeps DEF Gone, Attaching

\* The sheets of an acceptable configuration have one profile, so one key file.
LEMMA OneSheetMode ==
  ASSUME Acceptable(config), NEW j \in SourcesOf(config, "gsheet"),
         NEW k \in SourcesOf(config, "gsheet")
  PROVE  SheetMode(j) = SheetMode(k)
<1>1. config.databases[j].profile = config.databases[k].profile
  BY DEF Acceptable, ProfilesAgree
<1> QED
  BY <1>1 DEF SheetMode, Engine!KeyFileOf

LEMMA SheetsKeep ==
  ASSUME BootInv, Acceptable(config), NEW p \in Processes,
         Engine!ConfigureGSheet(p) \/ Engine!SecretNotFound(p)
  PROVE  Kept(p)
<1>1. /\ place[p] = "gsheet"
      /\ UNCHANGED <<config, command, todo, floor, disk, logins, newest>>
  BY DEF Engine!ConfigureGSheet, Engine!SecretNotFound, Engine!secret
<1>2. command[p] = "engine"
  BY <1>1 DEF BootInv, ProcessOK, Shape, Gone
<1>3. Disk' /\ newest <= newest' /\ disk \in Nat /\ disk >= newest
  BY <1>1 DEF BootInv, Disk
<1>4. CASE /\ SourcesOf(config, "gsheet") = {}
           /\ Engine!Enter(p, "attach") /\ UNCHANGED session
  <2>1. place' = [place EXCEPT ![p] = "attach"] /\ place'[p] = "attach"
        /\ DOMAIN session' = Processes
    BY <1>4 DEF Engine!Enter, BootInv, Domains
  <2>2. Configured(p)'
    BY <1>1, <1>2, <1>4, <2>1, BeforeSheets
  <2>3. session[p].sheets.mode = "oauth" =>
          session[p].sheets.login \in Nat /\ session[p].sheets.login >= floor[p]
    BY DEF BootInv, ProcessOK, Recent
  <2> QED
    BY <1>1, <1>2, <1>3, <1>4, <2>1, <2>2, <2>3, ConfigureKeeps DEF Gone, Attaching
<1>5. ASSUME NEW k \in SourcesOf(config, "gsheet"), SheetMode(k) = "key_file",
             Engine!UseAuth(p, "key_file", 0)
      PROVE  Kept(p)
  BY <1>1, <1>2, <1>3, <1>5, OneSheetMode, UseAuthKeeps
<1>6. ASSUME NEW k \in SourcesOf(config, "gsheet"), SheetMode(k) = "oauth",
             Engine!UseAuth(p, "oauth", disk)
      PROVE  Kept(p)
  BY <1>1, <1>2, <1>3, <1>6, OneSheetMode, UseAuthKeeps
<1>7. ASSUME NEW k \in SourcesOf(config, "gsheet"), SheetMode(k) = "oauth",
             Engine!Enter(p, "oauth"), UNCHANGED session
      PROVE  Kept(p)
  BY <1>1, <1>7, OneSheetMode, AskUserKeeps
<1>8. Engine!SourcesOf(config, "gsheet") = SourcesOf(config, "gsheet")
  BY DEF Engine!SourcesOf, SourcesOf
<1>9. CASE Engine!ConfigureGSheet(p)
  BY <1>4, <1>5, <1>6, <1>7, <1>8, <1>9 DEF Engine!ConfigureGSheet, SheetMode
<1>10. CASE Engine!SecretNotFound(p)
  BY <1>7, <1>8, <1>10 DEF Engine!SecretNotFound, SheetMode
<1> QED
  BY <1>9, <1>10

LEMMA SignInKeeps ==
  ASSUME BootInv, NEW p \in Processes, Engine!SignIn(p)
  PROVE  Kept(p)
<1>1. /\ place[p] = "oauth" /\ UNCHANGED <<config, floor>>
      /\ logins' = logins + 1 /\ disk' = logins' /\ newest' = logins'
  BY DEF Engine!SignIn, Engine!Login
<1>2. Disk' /\ newest <= newest' /\ logins' \in Nat /\ logins' >= newest
  BY <1>1 DEF BootInv, Disk
<1>3. CASE command[p] = "auth"
  BY <1>1, <1>2, <1>3, EndKeeps DEF Engine!SignIn
<1>4. CASE command[p] = "engine"
  <2>1. Engine!UseAuth(p, "oauth", logins') /\ UNCHANGED <<command, todo>>
    BY <1>4 DEF Engine!SignIn
  <2>2. \A k \in SourcesOf(config, "gsheet") : SheetMode(k) = "oauth"
    BY <1>1, <1>4 DEF BootInv, ProcessOK, Configured, Gone
  <2> QED
    BY <1>1, <1>2, <1>4, <2>1, <2>2, UseAuthKeeps
<1> QED
  BY <1>3, <1>4 DEF BootInv, ProcessOK, Shape

LEMMA AbortKeeps ==
  ASSUME BootInv, NEW p \in Processes, Engine!AbortSignIn(p)
  PROVE  Kept(p)
<1>1. /\ UNCHANGED <<config, floor, newest>> /\ logins' = logins + 1 /\ disk' = logins'
      /\ Engine!End(p, "ended")
  BY DEF Engine!AbortSignIn, Engine!Login, Engine!Fail
<1>2. Disk' /\ newest <= newest'
  BY <1>1 DEF BootInv, Disk
<1> QED
  BY <1>1, <1>2, EndKeeps

\* A step of the loop over the sources.
LEMMA LoopKeeps ==
  ASSUME BootInv, NEW p \in Processes, place[p] \in {"attach", "validate"},
         UNCHANGED <<config, command, floor, disk, logins, newest>>,
         NEW there \in Attaching, place'[p] = there,
         DOMAIN place' = Processes, \A q \in Processes \ {p} : place'[q] = place[q],
         DOMAIN session' = Processes, \A q \in Processes \ {p} : session'[q] = session[q],
         DOMAIN todo' = Processes, \A q \in Processes \ {p} : todo'[q] = todo[q],
         DOMAIN session'[p] = DOMAIN session[p], session'[p].open = session[p].open,
         session'[p].loaded = session[p].loaded, session'[p].s3 = session[p].s3,
         session'[p].sheets = session[p].sheets, Looping(p)'
  PROVE  Kept(p)
<1>1. place'[p] = there /\ command'[p] = command[p] /\ floor'[p] = floor[p]
  OBVIOUS
<1>2. Only(p) /\ Moves(p)
  BY DEF Only, BootInv, Domains, Moves, Gone
<1>3. command[p] = "engine" /\ ~Gone(p) /\ place[p] \in Attaching
  BY DEF BootInv, ProcessOK, Shape, Gone, Attaching
<1>4. Shape(p)'
  BY <1>1, <1>3 DEF BootInv, ProcessOK, Shape, Gone, Engine!Places, Attaching
<1>5. Configured(p)'
  <2>1. Keys' = Keys /\ \A k : Engine!TypeOf(k)' = Engine!TypeOf(k) /\ SheetMode(k)' = SheetMode(k)
    BY DEF Keys, Engine!Keys, Engine!TypeOf, SheetMode, Engine!KeyFileOf
  <2>2. Configured(p)
    BY DEF BootInv, ProcessOK
  <2> QED
    BY <1>1, <1>3, <2>1, <2>2 DEF Configured, Attaching, Gone
<1>6. Recent(p)'
  BY <1>1 DEF BootInv, ProcessOK, Recent
<1>7. Disk' /\ newest <= newest'
  BY DEF BootInv, Disk
<1> QED
  BY <1>2, <1>4, <1>5, <1>6, <1>7 DEF Kept, ProcessOK

\* New's loop goes on with a source it has not attached (keys are sorted, engine.go:58).
LEMMA NextKeyWaits ==
  ASSUME BootInv, config \in Documents, NEW p \in Processes, todo[p] # {}
  PROVE  Engine!NextKey(p) \in todo[p]
<1>1. todo[p] \subseteq Nat
  BY KeysAssumption DEF BootInv, ProcessOK, Looping, Keys, Engine!Keys
<1>2. PICK k \in todo[p] : \A j \in todo[p] : k <= j
  <2> DEFINE Less == {ss \in Nat \X Nat : ss[1] < ss[2]}
  <2>1. PICK k \in todo[p] : \A j \in todo[p] : ~(<<j, k>> \in Less)
    <3>1. IsWellFoundedOn(Less, Nat)
      BY NatLessThanWellFounded DEF OpToRel
    <3> QED
      BY <1>1, <3>1, WFMin
  <2>2. ASSUME NEW j \in todo[p] PROVE k <= j
    <3>1. ~(j < k)
      BY <1>1, <2>1
    <3> QED
      BY <1>1, <3>1
  <2> QED
    BY <2>2
<1> QED
  BY <1>2 DEF Engine!NextKey

LEMMA AttachKeeps ==
  ASSUME BootInv, config \in Documents, NEW p \in Processes, Engine!Attach(p)
  PROVE  Kept(p)
<1> DEFINE k == Engine!NextKey(p)
<1>1. /\ place[p] = "attach" /\ todo[p] # {}
      /\ UNCHANGED <<config, floor, disk, logins, newest>>
  BY DEF Engine!Attach, Engine!secret
<1>2. k \in todo[p]
  BY <1>1, NextKeyWaits
<1>3. Looping(p) /\ Shape(p)
  BY DEF BootInv, ProcessOK
<1>4. Keys' = Keys /\ \A j : Engine!TypeOf(j)' = Engine!TypeOf(j)
  BY <1>1 DEF Keys, Engine!Keys, Engine!TypeOf
<1>5. CASE Engine!TypeOf(k) \notin Engine!Attachable /\ Engine!Activate(p, k)
           /\ UNCHANGED <<command, place>>
  <2>1. /\ DOMAIN session' = Processes /\ \A q \in Processes \ {p} : session'[q] = session[q]
        /\ DOMAIN todo' = Processes /\ \A q \in Processes \ {p} : todo'[q] = todo[q]
        /\ todo'[p] = todo[p] \ {k}
        /\ session'[p] = [session[p] EXCEPT !.active = session[p].active \cup {k}]
    BY <1>5 DEF Engine!Activate, BootInv, Domains
  <2>2. /\ DOMAIN session'[p] = DOMAIN session[p] /\ session'[p].open = session[p].open
        /\ session'[p].loaded = session[p].loaded /\ session'[p].s3 = session[p].s3
        /\ session'[p].sheets = session[p].sheets /\ session'[p].attached = session[p].attached
        /\ session'[p].active = session[p].active \cup {k}
    BY <1>3, <2>1 DEF Shape, Engine!Closed
  <2>3. Looping(p)'
    BY <1>1, <1>2, <1>3, <1>4, <1>5, <2>1, <2>2 DEF Looping, Gone, Attaching
  <2>4. place'[p] = "attach" /\ DOMAIN place' = Processes
        /\ \A q \in Processes \ {p} : place'[q] = place[q]
    BY <1>1, <1>5 DEF BootInv, Domains
  <2> QED
    BY <1>1, <1>5, <2>1, <2>2, <2>3, <2>4, LoopKeeps DEF Attaching
<1>6. CASE Engine!Fail(p)
  BY <1>1, <1>6, FailKeeps
<1>7. CASE /\ session' = [session EXCEPT ![p].attached = session[p].attached \cup {k}]
           /\ Engine!Enter(p, "validate") /\ UNCHANGED <<command, todo>>
  <2>1. /\ DOMAIN session' = Processes /\ \A q \in Processes \ {p} : session'[q] = session[q]
        /\ DOMAIN todo' = Processes
        /\ place'[p] = "validate" /\ DOMAIN place' = Processes
        /\ \A q \in Processes \ {p} : place'[q] = place[q]
        /\ session'[p] = [session[p] EXCEPT !.attached = session[p].attached \cup {k}]
    BY <1>7 DEF Engine!Enter, BootInv, Domains
  <2>2. /\ DOMAIN session'[p] = DOMAIN session[p] /\ session'[p].open = session[p].open
        /\ session'[p].loaded = session[p].loaded /\ session'[p].s3 = session[p].s3
        /\ session'[p].sheets = session[p].sheets /\ session'[p].active = session[p].active
        /\ session'[p].attached = session[p].attached \cup {k}
    BY <1>3, <2>1 DEF Shape, Engine!Closed
  <2>3. Engine!NextKey(p)' = k
    BY <1>7 DEF Engine!NextKey
  <2>4. Looping(p)'
    BY <1>1, <1>2, <1>3, <1>4, <1>7, <2>1, <2>2, <2>3 DEF Looping, Gone, Attaching
  <2> QED
    BY <1>1, <1>7, <2>1, <2>2, <2>4, LoopKeeps DEF Attaching
<1> QED
  BY <1>5, <1>6, <1>7 DEF Engine!Attach

LEMMA ValidateKeeps ==
  ASSUME BootInv, NEW p \in Processes, Engine!Validate(p)
  PROVE  Kept(p)
<1> DEFINE k == Engine!NextKey(p)
<1>1. /\ place[p] = "validate" /\ UNCHANGED <<config, command, floor, disk, logins, newest>>
      /\ Engine!Activate(p, k) /\ place' = [place EXCEPT ![p] = "attach"]
  BY DEF Engine!Validate, Engine!Enter, Engine!secret
<1>2. Looping(p) /\ Shape(p)
  BY DEF BootInv, ProcessOK
<1>3. Keys' = Keys /\ \A j : Engine!TypeOf(j)' = Engine!TypeOf(j)
  BY <1>1 DEF Keys, Engine!Keys, Engine!TypeOf
<1>4. /\ DOMAIN session' = Processes /\ \A q \in Processes \ {p} : session'[q] = session[q]
      /\ DOMAIN todo' = Processes /\ \A q \in Processes \ {p} : todo'[q] = todo[q]
      /\ todo'[p] = todo[p] \ {k} /\ place'[p] = "attach"
      /\ DOMAIN place' = Processes /\ \A q \in Processes \ {p} : place'[q] = place[q]
      /\ session'[p] = [session[p] EXCEPT !.active = session[p].active \cup {k}]
  BY <1>1 DEF Engine!Activate, BootInv, Domains
<1>5. /\ DOMAIN session'[p] = DOMAIN session[p] /\ session'[p].open = session[p].open
      /\ session'[p].loaded = session[p].loaded /\ session'[p].s3 = session[p].s3
      /\ session'[p].sheets = session[p].sheets /\ session'[p].attached = session[p].attached
      /\ session'[p].active = session[p].active \cup {k}
  BY <1>2, <1>4 DEF Shape, Engine!Closed
<1>6. Looping(p)'
  BY <1>1, <1>2, <1>3, <1>4, <1>5 DEF Looping, Gone, Attaching
<1> QED
  BY <1>1, <1>4, <1>5, <1>6, LoopKeeps DEF Attaching

LEMMA ReturnKeeps ==
  ASSUME BootInv, NEW p \in Processes, Engine!ReturnEngine(p)
  PROVE  Kept(p)
<1>1. /\ place[p] = "attach" /\ todo[p] = {} /\ place' = [place EXCEPT ![p] = "ready"]
      /\ UNCHANGED <<config, command, todo, session, floor, disk, logins, newest>>
  BY DEF Engine!ReturnEngine, Engine!Enter, Engine!secret
<1>2. Keys' = Keys /\ \A j : Engine!TypeOf(j)' = Engine!TypeOf(j)
  BY <1>1 DEF Keys, Engine!Keys, Engine!TypeOf
<1>3. /\ place'[p] = "ready" /\ DOMAIN session' = Processes /\ DOMAIN todo' = Processes
      /\ DOMAIN place' = Processes /\ \A q \in Processes \ {p} : place'[q] = place[q]
  BY <1>1 DEF BootInv, Domains
<1>4. Looping(p)'
  <2>1. Looping(p)
    BY DEF BootInv, ProcessOK
  <2> QED
    BY <1>1, <1>2, <1>3, <2>1 DEF Looping, Gone, Attaching
<1> QED
  BY <1>1, <1>3, <1>4, LoopKeeps DEF Attaching

LEMMA StopKeeps ==
  ASSUME BootInv, NEW p \in Processes, Engine!StatementFails(p) \/ Engine!Exit(p)
  PROVE  Kept(p)
BY FailKeeps DEF Engine!StatementFails, Engine!Exit, Engine!Fail, Engine!secret

\* What process p may do.
Acts(p) == \/ Engine!Start(p) \/ Engine!Step(p) \/ Engine!StatementFails(p)
           \/ Engine!SignIn(p) \/ Engine!AbortSignIn(p) \/ Engine!Exit(p)

LEMMA ActKeeps ==
  ASSUME BootInv, Acceptable(config), config \in Documents, NEW p \in Processes, Acts(p)
  PROVE  Kept(p)
<1>1. CASE Engine!Step(p)
  BY <1>1, LoadKeeps, S3Keeps, SheetsKeep, AttachKeeps, ValidateKeeps, ReturnKeeps
     DEF Engine!Step
<1> QED
  BY <1>1, StartKeeps, StopKeeps, SignInKeeps, AbortKeeps DEF Acts

LEMMA NextKeeps ==
  ASSUME BootInv, Acceptable(config), config \in Documents, Engine!Next
  PROVE  \E p \in Processes : Kept(p)
BY ActKeeps DEF Engine!Next, Acts

LEMMA DiskGrows ==
  ASSUME BootInv, Engine!Next
  PROVE  Disk' /\ newest <= newest'
<1>1. Disk
  BY DEF BootInv
<1>2. \/ UNCHANGED <<disk, logins, newest>>
      \/ /\ logins' = logins + 1 /\ disk' = logins'
         /\ newest' = newest \/ newest' = logins'
  BY DEF Engine!Next, Engine!Start, Engine!Step, Engine!StatementFails, Engine!SignIn,
         Engine!AbortSignIn, Engine!Exit, Engine!LoadExtensions, Engine!ConfigureS3,
         Engine!ConfigureGSheet, Engine!SecretNotFound, Engine!Attach, Engine!Validate,
         Engine!ReturnEngine, Engine!Login, Engine!secret
<1> QED
  BY <1>1, <1>2 DEF Disk

-----------------------------------------------------------------------------
(* The invariant.                                                          *)

LEMMA InitBoot == StartupInit => BootInv
<1> SUFFICES ASSUME StartupInit PROVE BootInv
  OBVIOUS
<1>1. Domains /\ Disk
  BY DEF StartupInit, Engine!Idle, Domains, Disk
<1>2. ASSUME NEW p \in Processes PROVE ProcessOK(p)
  <2>1. /\ command[p] = "engine" /\ place[p] = "ended" /\ todo[p] = {}
        /\ session[p] = Engine!Closed /\ floor[p] = 0 /\ newest = 0
    BY DEF StartupInit, Engine!Idle
  <2>2. Shape(p) /\ Configured(p)
    BY <2>1 DEF Shape, Configured, Gone, Engine!Places
  <2>3. Looping(p)
    BY <2>1 DEF Looping, Gone, Attaching, Engine!Closed
  <2>4. Recent(p)
    BY <2>1 DEF Recent, Engine!Closed, Engine!NoAuth
  <2> QED
    BY <2>2, <2>3, <2>4 DEF ProcessOK
<1> QED
  BY <1>1, <1>2 DEF BootInv

LEMMA StillBoot ==
  ASSUME BootInv, UNCHANGED <<config, booting>>
  PROVE  BootInv'
<1>1. Domains' /\ Disk'
  BY DEF BootInv, Domains, Disk, booting
<1>2. ASSUME NEW p \in Processes PROVE ProcessOK(p)'
  <2>1. Keys' = Keys /\ Gone(p)' = Gone(p) /\ Engine!NextKey(p)' = Engine!NextKey(p)
        /\ \A k : Engine!TypeOf(k)' = Engine!TypeOf(k) /\ SheetMode(k)' = SheetMode(k)
    BY DEF booting, Keys, Engine!Keys, Gone, Engine!NextKey, Engine!TypeOf, SheetMode,
           Engine!KeyFileOf
  <2>2. ProcessOK(p)
    BY DEF BootInv
  <2>3. Shape(p)' /\ Configured(p)' /\ Recent(p)'
    BY <2>1, <2>2 DEF booting, ProcessOK, Shape, Configured, Recent
  <2>4. Looping(p)'
    BY <2>1, <2>2 DEF booting, ProcessOK, Looping
  <2> QED
    BY <2>3, <2>4 DEF ProcessOK
<1> QED
  BY <1>1, <1>2 DEF BootInv

LEMMA ParserKeepsConfig ==
  ASSUME Next
  PROVE  config' = config
BY DEF Next, Unmarshal, StartSources, Accept, CheckCredential, CheckSource

LEMMA StepBoot == BootInv /\ Inv /\ [StartupNext]_all => BootInv'
<1> SUFFICES ASSUME BootInv, Inv, [StartupNext]_all PROVE BootInv'
  OBVIOUS
<1>1. CASE EngineStep
  <2>1. Acceptable(config) /\ config \in Documents
    BY <1>1 DEF EngineStep, Inv, VerdictIgnoresOrder, TypeOK
  <2>2. PICK p \in Processes : Kept(p)
    BY <1>1, <2>1, NextKeeps DEF EngineStep
  <2>3. Disk' /\ newest <= newest'
    BY <1>1, DiskGrows DEF EngineStep
  <2> QED
    BY <2>2, <2>3, OnlyInv DEF Kept
<1>2. CASE ParseStep
  BY <1>2, ParserKeepsConfig, StillBoot DEF ParseStep
<1>3. CASE UNCHANGED all
  BY <1>3, StillBoot DEF all
<1> QED
  BY <1>1, <1>2, <1>3 DEF StartupNext

\* The state every boot goes through, for any number of commands at the same time
\* (queryengine/engine.go:28-117, 142-260, cmd/auth.go:45-75).
THEOREM BootInvariance == StartupSpec => [](Inv /\ BootInv)
<1>1. StartupInit => Init
  BY DEF StartupInit
<1>2. StartupSpec => Spec
  BY <1>1, StepParses, PTL DEF StartupSpec, Spec
<1>3. StartupSpec => []Inv
  BY <1>2, Invariance, PTL
<1> QED
  BY <1>3, InitBoot, StepBoot, PTL DEF StartupSpec

\* An engine started after a completed sign-in is not given an older secret, whoever
\* signed in and however many commands ran in between (engine.go:180-201).
THEOREM SignInIsSeen == StartupSpec => []LaterBootsSeeLogin
<1>1. BootInv => LaterBootsSeeLogin
  BY DEF BootInv, ProcessOK, Recent, LaterBootsSeeLogin, Engine!LaterBootsSeeLogin
<1> QED
  BY <1>1, BootInvariance, PTL

-----------------------------------------------------------------------------
(* New implements EngineService.                                           *)

Phase(p) == CASE place[p] \in {"ended", "refused"} -> "none"
              [] place[p] = "ready" -> "ready"
              [] OTHER -> "booting"
Held == {p \in Processes : session[p].open}
Reads(p) == IF place[p] = "ready" THEN Engine!Served(p) ELSE {}

\* The state of the service, by its names.
PhaseOf == [p \in Processes |-> Phase(p)]
ReadBy  == [p \in Processes |-> Reads(p)]

\* An engine that is returned serves every source.
LEMMA ReadyServesAll ==
  ASSUME BootInv, NEW p \in Processes, place[p] = "ready"
  PROVE  Engine!Served(p) = Keys
<1>1. Shape(p) /\ Configured(p) /\ Looping(p)
  BY DEF BootInv, ProcessOK
<1>2. command[p] = "engine" /\ ~Gone(p)
  BY <1>1 DEF Shape, Gone
<1>3. session[p].active = Keys
  BY <1>1 DEF Looping, Attaching
<1>4. ASSUME NEW k \in Keys
      PROVE  Engine!ExtensionOf(Engine!TypeOf(k)) \subseteq session[p].loaded
  BY <1>1, <1>2 DEF Configured
<1>5. ASSUME NEW k \in Keys, Engine!TypeOf(k) = "s3"
      PROVE  session[p].s3.profile = config.databases[k].profile
  BY <1>1, <1>2, <1>5 DEF Configured, SourcesOf, Keys, Engine!Keys, Engine!TypeOf
<1>6. ASSUME NEW k \in Keys, Engine!TypeOf(k) = "gsheet"
      PROVE  session[p].sheets.mode = SheetMode(k)
  BY <1>1, <1>2, <1>6 DEF Configured, Attaching, SourcesOf, Keys, Engine!Keys, Engine!TypeOf
<1>7. ASSUME NEW k \in Keys, Engine!TypeOf(k) \in Engine!Attachable
      PROVE  k \in session[p].attached
  BY <1>1, <1>3, <1>7 DEF Looping
<1> QED
  BY <1>3, <1>4, <1>5, <1>6, <1>7 DEF Engine!Served, SheetMode

ReadyServed == \A p \in Processes : place[p] = "ready" => Engine!Served(p) = Keys

LEMMA ReadyServedInv == BootInv => ReadyServed
BY ReadyServesAll DEF ReadyServed

LEMMA ReadyServedNext == BootInv' => ReadyServed'
BY ReadyServedInv, PTL

LEMMA HeldWhileBooting ==
  ASSUME BootInv, NEW p \in Processes
  PROVE  p \in Held <=> ~Gone(p)
BY DEF BootInv, ProcessOK, Shape, Held, Engine!Closed

\* A step of one process is a step of the service, or none that it sees.
LEMMA StepServes ==
  ASSUME BootInv, BootInv', NEW p \in Processes, Kept(p)
  PROVE  \/ UNCHANGED <<Keys, PhaseOf, ReadBy, Held>>
         \/ /\ Phase(p) = "none" /\ Keys' = Keys
            /\ PhaseOf' = [PhaseOf EXCEPT ![p] = "booting"]
            /\ ReadBy' = [ReadBy EXCEPT ![p] = {}] /\ Held' = Held \cup {p}
         \/ /\ Phase(p) = "booting" /\ Keys' = Keys
            /\ PhaseOf' = [PhaseOf EXCEPT ![p] = "ready"]
            /\ ReadBy' = [ReadBy EXCEPT ![p] = Keys] /\ Held' = Held
         \/ /\ Phase(p) # "none" /\ Keys' = Keys
            /\ PhaseOf' = [PhaseOf EXCEPT ![p] = "none"]
            /\ ReadBy' = [ReadBy EXCEPT ![p] = {}] /\ Held' = Held \ {p}
<1>1. Keys' = Keys /\ config' = config
  BY DEF Kept, Only, Keys, Engine!Keys
<1>2. \A q \in Processes \ {p} : place'[q] = place[q] /\ session'[q] = session[q]
  BY DEF Kept, Only
<1>3. \A q \in Processes \ {p} : Phase(q)' = Phase(q) /\ Reads(q)' = Reads(q)
  <2> SUFFICES ASSUME NEW q \in Processes \ {p}
               PROVE  Phase(q)' = Phase(q) /\ Reads(q)' = Reads(q)
    OBVIOUS
  <2>1. \A k : Engine!TypeOf(k)' = Engine!TypeOf(k) /\ SheetMode(k)' = SheetMode(k)
    BY <1>1 DEF Engine!TypeOf, SheetMode, Engine!KeyFileOf
  <2>2. Engine!Served(q)' = Engine!Served(q)
    BY <1>1, <1>2, <2>1 DEF Engine!Served, SheetMode
  <2> QED
    BY <1>2, <2>2 DEF Phase, Reads
<1>4. \A q \in Processes \ {p} : q \in Held' <=> q \in Held
  BY <1>2 DEF Held
<1>5. /\ PhaseOf' = [PhaseOf EXCEPT ![p] = Phase(p)']
      /\ ReadBy' = [ReadBy EXCEPT ![p] = Reads(p)']
  BY <1>3 DEF PhaseOf, ReadBy
<1>6. /\ p \in Held <=> Phase(p) # "none"
      /\ p \in Held' <=> Phase(p)' # "none"
  <2>1. p \in Held <=> ~Gone(p)
    BY HeldWhileBooting
  <2>2. p \in Held' <=> ~Gone(p)'
    BY DEF Kept, ProcessOK, Shape, Held, Engine!Closed
  <2> QED
    BY <2>1, <2>2 DEF Phase, Gone
<1>7. /\ Phase(p) \in {"none", "booting", "ready"} /\ Phase(p)' \in {"none", "booting", "ready"}
      /\ Phase(p) = "none" => Phase(p)' # "ready"
      /\ Phase(p) = "ready" => Phase(p)' = "none"
  BY DEF Kept, Moves, Phase, Gone
<1>8. /\ Phase(p) # "ready" => Reads(p) = {}
      /\ Phase(p)' # "ready" => Reads(p)' = {}
  BY DEF Phase, Reads
<1>9. Phase(p)' = "ready" => Reads(p)' = Keys
  <2>1. ASSUME place'[p] = "ready" PROVE Engine!Served(p)' = Keys'
    BY <2>1, ReadyServedNext DEF ReadyServed
  <2> QED
    BY <1>1, <2>1 DEF Phase, Reads
<1>10. CASE Phase(p)' = Phase(p)
  <2>1. PhaseOf' = PhaseOf /\ ReadBy' = ReadBy /\ Held' = Held
    BY <1>4, <1>5, <1>6, <1>7, <1>8, <1>10 DEF PhaseOf, ReadBy, Held
  <2> QED
    BY <1>1, <2>1
<1>11. CASE Phase(p)' # Phase(p)
  <2>1. Held' = IF Phase(p)' = "none" THEN Held \ {p} ELSE Held \cup {p}
    BY <1>4, <1>6 DEF Held
  <2>2. Phase(p) # "none" => Held \cup {p} = Held
    BY <1>6
  <2>3. CASE Phase(p) = "none"
    <3>1. Phase(p)' = "booting" /\ Reads(p)' = {}
      BY <1>7, <1>8, <1>11, <2>3
    <3> QED
      BY <1>1, <1>5, <2>1, <2>3, <3>1
  <2>4. CASE Phase(p) # "none" /\ Phase(p)' = "none"
    <3>1. Reads(p)' = {}
      BY <1>8, <2>4
    <3> QED
      BY <1>1, <1>5, <2>1, <2>4, <3>1
  <2>5. CASE Phase(p) = "booting" /\ Phase(p)' = "ready"
    <3>1. Reads(p)' = Keys /\ Held' = Held
      BY <1>9, <2>1, <2>2, <2>5
    <3> QED
      BY <1>1, <1>5, <2>5, <3>1
  <2> QED
    BY <1>7, <1>11, <2>3, <2>4, <2>5
<1> QED
  BY <1>10, <1>11

\* The mapping of EngineBoot, under its bound names.
LEMMA Mapping ==
  /\ Engine!Service!Init <=>
       /\ PhaseOf = [p \in Processes |-> "none"]
       /\ ReadBy = [p \in Processes |-> {}] /\ Held = {}
  /\ Engine!Service!Next <=>
       \E p \in Processes :
         \/ /\ PhaseOf[p] = "none" /\ Keys' = Keys
            /\ PhaseOf' = [PhaseOf EXCEPT ![p] = "booting"]
            /\ ReadBy' = [ReadBy EXCEPT ![p] = {}] /\ Held' = Held \cup {p}
         \/ /\ PhaseOf[p] = "booting" /\ Keys' = Keys
            /\ PhaseOf' = [PhaseOf EXCEPT ![p] = "ready"]
            /\ ReadBy' = [ReadBy EXCEPT ![p] = Keys] /\ Held' = Held
         \/ /\ PhaseOf[p] # "none" /\ Keys' = Keys
            /\ PhaseOf' = [PhaseOf EXCEPT ![p] = "none"]
            /\ ReadBy' = [ReadBy EXCEPT ![p] = {}] /\ Held' = Held \ {p}
  /\ UNCHANGED Engine!Service!vars <=> UNCHANGED <<Keys, PhaseOf, ReadBy, Held>>
<1>1. UNCHANGED Engine!Service!vars <=> UNCHANGED <<Keys, PhaseOf, ReadBy, Held>>
  BY DEF Engine!Service!vars, Keys, PhaseOf, ReadBy, Held, Phase, Reads
<1> QED
  BY <1>1 DEF Engine!Service!Init, Engine!Service!Next, Engine!Service!Begin, Engine!Service!Deliver,
         Engine!Service!End, Engine!Service!Enter, Keys, PhaseOf, ReadBy, Held, Phase, Reads

\* New, run by any number of commands at the same time, implements the service: every
\* engine it returns serves every source, and nothing is left open by a boot that fails
\* (queryengine/engine.go:28-117).
THEOREM NewImplementsService == StartupSpec => ServiceSpec
<1>1. StartupInit => Engine!Service!Init
  <2> SUFFICES ASSUME StartupInit PROVE Engine!Service!Init
    OBVIOUS
  <2>1. \A p \in Processes : place[p] = "ended" /\ session[p] = Engine!Closed
    BY DEF StartupInit, Engine!Idle
  <2>2. /\ PhaseOf = [p \in Processes |-> "none"]
        /\ ReadBy = [p \in Processes |-> {}] /\ Held = {}
    BY <2>1 DEF PhaseOf, Phase, ReadBy, Reads, Held, Engine!Closed
  <2> QED
    BY <2>2, Mapping
<1>2. Inv /\ BootInv /\ BootInv' /\ [StartupNext]_all
        => [Engine!Service!Next]_(Engine!Service!vars)
  <2> SUFFICES ASSUME Inv, BootInv, BootInv', [StartupNext]_all
               PROVE  [Engine!Service!Next]_(Engine!Service!vars)
    OBVIOUS
  <2>1. CASE EngineStep
    <3>1. Acceptable(config) /\ config \in Documents
      BY <2>1 DEF EngineStep, Inv, VerdictIgnoresOrder, TypeOK
    <3>2. PICK p \in Processes : Kept(p)
      BY <2>1, <3>1, NextKeeps DEF EngineStep
    <3>3. PhaseOf[p] = Phase(p)
      BY DEF PhaseOf
    <3> QED
      BY <3>2, <3>3, StepServes, Mapping
  <2>2. ASSUME UNCHANGED <<config, booting>> PROVE UNCHANGED <<Keys, PhaseOf, ReadBy, Held>>
    BY <2>2 DEF booting, Keys, Engine!Keys, PhaseOf, Phase, ReadBy, Reads, Held,
                Engine!Served, Engine!TypeOf, Engine!KeyFileOf
  <2> QED
    BY <2>1, <2>2, Mapping, ParserKeepsConfig DEF StartupNext, ParseStep, all
<1> QED
  BY <1>1, <1>2, BootInvariance, PTL
     DEF StartupSpec, ServiceSpec, Engine!ServiceSpec, Engine!Service!Spec

-----------------------------------------------------------------------------
(* Who asks the user to sign in, and the types of the boots.               *)

\* Only a sheet that needs it makes anyone sign in, and without one auth is refused;
\* a key file is used only if no sheet is without.
Asks(p) ==
  /\ place[p] = "refused" => ~Engine!HasSheetOAuth
  /\ place[p] = "oauth" => Engine!HasSheetOAuth
  /\ session[p].sheets.mode = "oauth" => Engine!HasSheetOAuth
  /\ session[p].sheets.mode = "key_file" => ~Engine!HasSheetOAuth
  /\ command[p] = "auth" /\ place[p] = "extensions" => Engine!HasSheetOAuth

\* A source that is attached and not yet activated is still to be finished.
Pending(p) ==
  /\ session[p].attached \subseteq session[p].active \cup todo[p]
  /\ session[p].active \cap todo[p] = {}
  /\ session[p].sheets.login \in 0..logins

SessionOK(p) == Asks(p) /\ Pending(p)

LEMMA EndAfter ==
  ASSUME BootInv, NEW p \in Processes, Engine!End(p, "ended"), logins' \in Nat
  PROVE  SessionOK(p)'
<1>1. place'[p] = "ended" /\ session'[p] = Engine!Closed /\ todo'[p] = {}
  BY DEF Engine!End, Engine!Enter, BootInv, Domains
<1> QED
  BY <1>1 DEF SessionOK, Asks, Pending, Engine!Closed, Engine!NoAuth

LEMMA StartAfter ==
  ASSUME BootInv, NEW p \in Processes, Engine!Start(p)
  PROVE  SessionOK(p)'
<1>1. session[p] = Engine!Closed /\ logins \in Nat
  BY DEF Engine!Start, BootInv, ProcessOK, Shape, Gone, Disk
<1>2. config' = config /\ todo'[p] = Keys /\ logins' = logins
  BY DEF Engine!Start, Engine!secret, Keys, BootInv, Domains
<1>3. Engine!HasSheetOAuth' <=> Engine!HasSheetOAuth
  BY <1>2 DEF Engine!HasSheetOAuth, Engine!KeyFileOf, Engine!SourcesOf
<1>4. \/ /\ place'[p] = "refused" /\ ~Engine!HasSheetOAuth /\ session'[p] = Engine!Closed
      \/ /\ place'[p] = "extensions" /\ (command'[p] = "auth" => Engine!HasSheetOAuth)
         /\ session'[p] = [Engine!Closed EXCEPT !.open = TRUE]
  BY <1>1 DEF Engine!Start, Engine!Enter, BootInv, Domains
<1>5. /\ session'[p].attached = {} /\ session'[p].active = {}
      /\ session'[p].sheets = Engine!NoAuth
  BY <1>4 DEF Engine!Closed
<1> QED
  BY <1>1, <1>2, <1>3, <1>4, <1>5 DEF SessionOK, Asks, Pending, Engine!NoAuth

\* A step that does not touch what the session has taken on.
LEMMA MovesAfter ==
  ASSUME BootInv, NEW p \in Processes, SessionOK(p), UNCHANGED <<config, command, todo, logins>>,
         session'[p].sheets = session[p].sheets, session'[p].active = session[p].active,
         session'[p].attached = session[p].attached,
         NEW there \in {"s3", "gsheet", "oauth", "attach", "validate", "ready"},
         place' = [place EXCEPT ![p] = there],
         there = "oauth" => Engine!HasSheetOAuth
  PROVE  SessionOK(p)'
<1>1. place'[p] = there
  BY DEF BootInv, Domains
<1>2. Engine!HasSheetOAuth' <=> Engine!HasSheetOAuth
  BY DEF Engine!HasSheetOAuth, Engine!KeyFileOf, Engine!SourcesOf
<1> QED
  BY <1>1, <1>2 DEF SessionOK, Asks, Pending

LEMMA UseAuthAfter ==
  ASSUME BootInv, NEW p \in Processes, SessionOK(p), UNCHANGED <<config, command, todo>>,
         NEW mode, NEW login \in 0..logins', Engine!UseAuth(p, mode, login),
         mode = "oauth" => Engine!HasSheetOAuth,
         mode = "key_file" => ~Engine!HasSheetOAuth
  PROVE  SessionOK(p)'
<1>1. place'[p] = "attach"
  BY DEF Engine!UseAuth, Engine!Enter, BootInv, Domains
<1>2. session'[p] = [session[p] EXCEPT !.sheets = [mode |-> mode, login |-> login]]
  BY DEF Engine!UseAuth, BootInv, Domains
<1>3. /\ session'[p].active = session[p].active /\ session'[p].attached = session[p].attached
      /\ session'[p].sheets = [mode |-> mode, login |-> login]
  BY <1>2 DEF BootInv, ProcessOK, Shape, Engine!Closed
<1>4. session'[p].sheets.mode = mode /\ session'[p].sheets.login = login
  BY <1>3
<1>5. Engine!HasSheetOAuth' <=> Engine!HasSheetOAuth
  BY DEF Engine!HasSheetOAuth, Engine!KeyFileOf, Engine!SourcesOf
<1> QED
  BY <1>1, <1>3, <1>4, <1>5 DEF SessionOK, Asks, Pending

\* A sheet without a key file is one that asks for a sign-in.
LEMMA KeylessSheet ==
  ASSUME NEW k \in Engine!SourcesOf(config, "gsheet"),
         Engine!KeyFileOf(config.databases[k]) = ""
  PROVE  Engine!HasSheetOAuth
BY DEF Engine!HasSheetOAuth

\* A sheet with a key file is one of a configuration whose sheets all have it.
LEMMA KeyedSheets ==
  ASSUME Acceptable(config), NEW k \in Engine!SourcesOf(config, "gsheet"),
         Engine!KeyFileOf(config.databases[k]) # ""
  PROVE  ~Engine!HasSheetOAuth
<1>1. ASSUME NEW j \in Engine!SourcesOf(config, "gsheet")
      PROVE  config.databases[j].profile = config.databases[k].profile
  BY DEF Acceptable, ProfilesAgree, SourcesOf, Engine!SourcesOf
<1>2. ASSUME NEW j \in Engine!SourcesOf(config, "gsheet")
      PROVE  config.databases[j].profile # "" /\ Engine!KeyFileOf(config.databases[j]) # ""
  BY <1>1 DEF Engine!KeyFileOf
<1> QED
  BY <1>2 DEF Engine!HasSheetOAuth

LEMMA LoadAfter ==
  ASSUME BootInv, NEW p \in Processes, SessionOK(p), Engine!LoadExtensions(p)
  PROVE  SessionOK(p)'
<1> DEFINE there == IF command[p] = "auth" THEN "oauth" ELSE "s3"
<1>1. /\ place[p] = "extensions" /\ place' = [place EXCEPT ![p] = there]
      /\ UNCHANGED <<config, command, todo, logins>>
  BY DEF Engine!LoadExtensions, Engine!Enter, Engine!secret
<1>2. PICK needed : session' = [session EXCEPT ![p].loaded = needed]
  BY DEF Engine!LoadExtensions
<1>3. session'[p] = [session[p] EXCEPT !.loaded = needed]
  BY <1>2 DEF BootInv, Domains
<1>4. session'[p].sheets = session[p].sheets /\ session'[p].active = session[p].active
      /\ session'[p].attached = session[p].attached
  BY <1>3 DEF BootInv, ProcessOK, Shape, Engine!Closed
<1>5. there = "oauth" => Engine!HasSheetOAuth
  BY <1>1 DEF SessionOK, Asks
<1> QED
  BY <1>1, <1>4, <1>5, MovesAfter

LEMMA S3After ==
  ASSUME BootInv, NEW p \in Processes, SessionOK(p), Engine!ConfigureS3(p)
  PROVE  SessionOK(p)'
<1>1. UNCHANGED <<config, logins>> /\ logins' \in Nat
  BY DEF Engine!ConfigureS3, Engine!secret, BootInv, Disk
<1>2. CASE Engine!Fail(p)
  BY <1>1, <1>2, EndAfter DEF Engine!Fail
<1>3. CASE Engine!Enter(p, "gsheet") /\ UNCHANGED <<command, todo, session>>
  BY <1>1, <1>3, MovesAfter DEF Engine!Enter
<1>4. ASSUME NEW s3, session' = [session EXCEPT ![p].s3 = s3], Engine!Enter(p, "gsheet"),
             UNCHANGED <<command, todo>>
      PROVE  SessionOK(p)'
  <2>1. session'[p] = [session[p] EXCEPT !.s3 = s3]
    BY <1>4 DEF BootInv, Domains
  <2>2. session'[p].sheets = session[p].sheets /\ session'[p].active = session[p].active
        /\ session'[p].attached = session[p].attached
    BY <2>1 DEF BootInv, ProcessOK, Shape, Engine!Closed
  <2> QED
    BY <1>1, <1>4, <2>2, MovesAfter DEF Engine!Enter
<1> QED
  BY <1>2, <1>3, <1>4 DEF Engine!ConfigureS3

LEMMA SheetsAfter ==
  ASSUME BootInv, Acceptable(config), NEW p \in Processes, SessionOK(p),
         Engine!ConfigureGSheet(p) \/ Engine!SecretNotFound(p)
  PROVE  SessionOK(p)'
<1>1. UNCHANGED <<config, command, todo, logins>> /\ disk \in 0..logins' /\ 0 \in 0..logins'
  <2>1. UNCHANGED <<config, command, todo, logins>>
    BY DEF Engine!ConfigureGSheet, Engine!SecretNotFound, Engine!secret
  <2>2. disk \in Nat /\ logins \in Nat /\ disk <= logins
    BY DEF BootInv, Disk
  <2> QED
    BY <2>1, <2>2
<1>2. CASE Engine!Enter(p, "attach") /\ UNCHANGED session
  BY <1>1, <1>2, MovesAfter DEF Engine!Enter
<1>3. CASE Engine!Enter(p, "oauth") /\ UNCHANGED session /\ Engine!HasSheetOAuth
  BY <1>1, <1>3, MovesAfter DEF Engine!Enter
<1>4. CASE Engine!UseAuth(p, "key_file", 0) /\ ~Engine!HasSheetOAuth
  BY <1>1, <1>4, UseAuthAfter
<1>5. CASE Engine!UseAuth(p, "oauth", disk) /\ Engine!HasSheetOAuth
  BY <1>1, <1>5, UseAuthAfter
<1>6. CASE Engine!ConfigureGSheet(p)
  BY <1>2, <1>3, <1>4, <1>5, <1>6, KeylessSheet, KeyedSheets DEF Engine!ConfigureGSheet
<1>7. CASE Engine!SecretNotFound(p)
  BY <1>3, <1>7, KeylessSheet DEF Engine!SecretNotFound
<1> QED
  BY <1>6, <1>7

LEMMA SignInAfter ==
  ASSUME BootInv, NEW p \in Processes, SessionOK(p), Engine!SignIn(p) \/ Engine!AbortSignIn(p)
  PROVE  SessionOK(p)'
<1>1. /\ place[p] = "oauth" /\ config' = config /\ logins' = logins + 1 /\ logins' \in Nat
  BY DEF Engine!SignIn, Engine!AbortSignIn, Engine!Login, BootInv, Disk
<1>2. logins' \in 0..logins' /\ Engine!HasSheetOAuth
  BY <1>1 DEF SessionOK, Asks
<1>3. CASE Engine!End(p, "ended")
  BY <1>1, <1>3, EndAfter
<1>4. CASE Engine!UseAuth(p, "oauth", logins') /\ UNCHANGED <<command, todo>>
  BY <1>1, <1>2, <1>4, UseAuthAfter
<1> QED
  BY <1>3, <1>4 DEF Engine!SignIn, Engine!AbortSignIn, Engine!Fail

\* The source the loop is at leaves the worklist when it is activated.
LEMMA ActivateAfter ==
  ASSUME BootInv, NEW p \in Processes, SessionOK(p), NEW k, Engine!Activate(p, k),
         place'[p] = "attach", UNCHANGED <<config, command, logins>>
  PROVE  SessionOK(p)'
<1>1. session'[p] = [session[p] EXCEPT !.active = session[p].active \cup {k}]
      /\ todo'[p] = todo[p] \ {k}
  BY DEF Engine!Activate, BootInv, Domains
<1>2. /\ session'[p].sheets = session[p].sheets /\ session'[p].attached = session[p].attached
      /\ session'[p].active = session[p].active \cup {k}
  BY <1>1 DEF BootInv, ProcessOK, Shape, Engine!Closed
<1>3. Engine!HasSheetOAuth' <=> Engine!HasSheetOAuth
  BY DEF Engine!HasSheetOAuth, Engine!KeyFileOf, Engine!SourcesOf
<1> QED
  BY <1>1, <1>2, <1>3 DEF SessionOK, Asks, Pending

LEMMA LoopAfter ==
  ASSUME BootInv, config \in Documents, NEW p \in Processes, SessionOK(p),
         Engine!Attach(p) \/ Engine!Validate(p) \/ Engine!ReturnEngine(p)
  PROVE  SessionOK(p)'
<1> DEFINE k == Engine!NextKey(p)
<1>1. UNCHANGED <<config, logins>> /\ logins' \in Nat
  BY DEF Engine!Attach, Engine!Validate, Engine!ReturnEngine, Engine!secret, BootInv, Disk
<1>2. CASE Engine!Attach(p)
  <2>1. place[p] = "attach" /\ k \in todo[p]
    BY <1>2, NextKeyWaits DEF Engine!Attach
  <2>2. CASE Engine!Activate(p, k) /\ UNCHANGED <<command, place>>
    BY <1>1, <2>1, <2>2, ActivateAfter
  <2>3. CASE Engine!Fail(p)
    BY <1>1, <2>3, EndAfter DEF Engine!Fail
  <2>4. CASE /\ session' = [session EXCEPT ![p].attached = session[p].attached \cup {k}]
             /\ Engine!Enter(p, "validate") /\ UNCHANGED <<command, todo>>
    <3>1. session'[p] = [session[p] EXCEPT !.attached = session[p].attached \cup {k}]
          /\ place'[p] = "validate" /\ todo'[p] = todo[p] /\ command'[p] = command[p]
      BY <2>4 DEF Engine!Enter, BootInv, Domains
    <3>2. /\ session'[p].sheets = session[p].sheets /\ session'[p].active = session[p].active
          /\ session'[p].attached = session[p].attached \cup {k}
      BY <3>1 DEF BootInv, ProcessOK, Shape, Engine!Closed
    <3>3. Engine!HasSheetOAuth' <=> Engine!HasSheetOAuth
      BY <1>1 DEF Engine!HasSheetOAuth, Engine!KeyFileOf, Engine!SourcesOf
    <3> QED
      BY <1>1, <2>1, <3>1, <3>2, <3>3 DEF SessionOK, Asks, Pending
  <2> QED
    BY <1>2, <2>2, <2>3, <2>4 DEF Engine!Attach
<1>3. CASE Engine!Validate(p)
  <2>1. Engine!Activate(p, k) /\ place'[p] = "attach" /\ UNCHANGED <<config, command, logins>>
    BY <1>3 DEF Engine!Validate, Engine!Enter, Engine!secret, BootInv, Domains
  <2> QED
    BY <2>1, ActivateAfter
<1>4. CASE Engine!ReturnEngine(p)
  BY <1>1, <1>4, MovesAfter DEF Engine!ReturnEngine, Engine!Enter
<1> QED
  BY <1>2, <1>3, <1>4

LEMMA StopAfter ==
  ASSUME BootInv, NEW p \in Processes, Engine!StatementFails(p) \/ Engine!Exit(p)
  PROVE  SessionOK(p)'
<1>1. Engine!End(p, "ended") /\ logins' \in Nat
  BY DEF Engine!StatementFails, Engine!Exit, Engine!Fail, Engine!secret, BootInv, Disk
<1> QED
  BY <1>1, EndAfter

\* The variables are functions into their types, and the sign-ins are bounded.
Tables ==
  /\ env \in Environments /\ logins <= MaxLogins
  /\ command \in [Processes -> {"engine", "auth"}]
  /\ place \in [Processes -> Engine!Places]
  /\ todo \in [Processes -> SUBSET Keys]
  /\ floor \in [Processes -> Nat]

LEMMA ActsWellTyped ==
  ASSUME BootInv, Tables, NEW p \in Processes, Acts(p)
  PROVE  Tables'
<1>1. config' = config /\ env' = env /\ logins \in Nat /\ newest \in Nat
  BY DEF Acts, Engine!Start, Engine!Step, Engine!StatementFails, Engine!SignIn,
         Engine!AbortSignIn, Engine!Exit, Engine!LoadExtensions, Engine!ConfigureS3,
         Engine!ConfigureGSheet, Engine!SecretNotFound, Engine!Attach, Engine!Validate,
         Engine!ReturnEngine, BootInv, Disk
<1>2. logins' <= MaxLogins
  <2>1. logins' = logins \/ (logins < MaxLogins /\ logins' = logins + 1)
    BY DEF Acts, Engine!Start, Engine!Step, Engine!StatementFails, Engine!SignIn,
           Engine!AbortSignIn, Engine!Exit, Engine!LoadExtensions, Engine!ConfigureS3,
           Engine!ConfigureGSheet, Engine!SecretNotFound, Engine!Attach, Engine!Validate,
           Engine!ReturnEngine, Engine!Login, Engine!secret
  <2> QED
    BY <1>1, <2>1, LoginsAssumption DEF Tables
<1>3. Keys' = Keys
  BY <1>1 DEF Keys, Engine!Keys
<1> DEFINE places == {"ended", "refused", "extensions", "s3", "gsheet", "oauth", "attach",
                      "validate", "ready"}
<1>4. place' = place \/ \E there \in places : place' = [place EXCEPT ![p] = there]
  BY DEF Acts, Engine!Start, Engine!Step, Engine!StatementFails, Engine!SignIn,
         Engine!AbortSignIn, Engine!Exit, Engine!LoadExtensions, Engine!ConfigureS3,
         Engine!ConfigureGSheet, Engine!SecretNotFound, Engine!Attach, Engine!Validate,
         Engine!ReturnEngine, Engine!Enter, Engine!End, Engine!Fail, Engine!UseAuth
<1>5. \/ command' = command
      \/ \E c \in {"engine", "auth"} : command' = [command EXCEPT ![p] = c]
  BY DEF Acts, Engine!Start, Engine!Step, Engine!StatementFails, Engine!SignIn,
         Engine!AbortSignIn, Engine!Exit, Engine!LoadExtensions, Engine!ConfigureS3,
         Engine!ConfigureGSheet, Engine!SecretNotFound, Engine!Attach, Engine!Validate,
         Engine!ReturnEngine, Engine!End, Engine!Fail
<1>6. \/ todo' = todo
      \/ todo' = [todo EXCEPT ![p] = Keys] \/ todo' = [todo EXCEPT ![p] = {}]
      \/ \E k : todo' = [todo EXCEPT ![p] = todo[p] \ {k}]
  BY DEF Acts, Engine!Start, Engine!Step, Engine!StatementFails, Engine!SignIn,
         Engine!AbortSignIn, Engine!Exit, Engine!LoadExtensions, Engine!ConfigureS3,
         Engine!ConfigureGSheet, Engine!SecretNotFound, Engine!Attach, Engine!Validate,
         Engine!ReturnEngine, Engine!End, Engine!Fail, Engine!Activate, Keys
<1>7. floor' = floor \/ floor' = [floor EXCEPT ![p] = newest]
  BY DEF Acts, Engine!Start, Engine!Step, Engine!StatementFails, Engine!SignIn,
         Engine!AbortSignIn, Engine!Exit, Engine!LoadExtensions, Engine!ConfigureS3,
         Engine!ConfigureGSheet, Engine!SecretNotFound, Engine!Attach, Engine!Validate,
         Engine!ReturnEngine
<1>8. place' \in [Processes -> Engine!Places]
  BY <1>4 DEF Tables, Engine!Places
<1>9. command' \in [Processes -> {"engine", "auth"}]
  BY <1>5 DEF Tables
<1>10. todo' \in [Processes -> SUBSET Keys]
  BY <1>6 DEF Tables
<1>11. floor' \in [Processes -> Nat]
  BY <1>1, <1>7 DEF Tables
<1> QED
  BY <1>1, <1>2, <1>3, <1>8, <1>9, <1>10, <1>11 DEF Tables

SessionInv == Tables /\ \A p \in Processes : SessionOK(p)

LEMMA InitSession == StartupInit => SessionInv
<1> SUFFICES ASSUME StartupInit PROVE SessionInv
  OBVIOUS
<1>1. Tables
  BY LoginsAssumption DEF StartupInit, Engine!Idle, Tables, Engine!Places
<1>2. ASSUME NEW p \in Processes PROVE SessionOK(p)
  <2>1. command[p] = "engine" /\ place[p] = "ended" /\ session[p] = Engine!Closed /\ logins = 0
    BY DEF StartupInit, Engine!Idle
  <2> QED
    BY <2>1 DEF SessionOK, Asks, Pending, Engine!Closed, Engine!NoAuth
<1> QED
  BY <1>1, <1>2 DEF SessionInv

LEMMA StepSession == Inv /\ BootInv /\ SessionInv /\ [StartupNext]_all => SessionInv'
<1> SUFFICES ASSUME Inv, BootInv, SessionInv, [StartupNext]_all PROVE SessionInv'
  OBVIOUS
<1>1. CASE EngineStep
  <2>1. Acceptable(config) /\ config \in Documents
    BY <1>1 DEF EngineStep, Inv, VerdictIgnoresOrder, TypeOK
  <2>2. PICK p \in Processes : Acts(p)
    BY <1>1 DEF EngineStep, Engine!Next, Acts
  <2>3. SessionOK(p)
    BY DEF SessionInv
  <2>4. SessionOK(p)'
    BY <2>1, <2>2, <2>3, StartAfter, LoadAfter, S3After, SheetsAfter, SignInAfter, LoopAfter,
       StopAfter DEF Acts, Engine!Step
  <2>5. Tables'
    BY <2>2, ActsWellTyped DEF SessionInv
  <2>6. Only(p)
    BY <2>1, <2>2, ActKeeps DEF Kept
  <2>7. logins \in Nat /\ logins' \in Nat /\ logins <= logins'
    <3>1. logins' = logins \/ logins' = logins + 1
      BY <2>2 DEF Acts, Engine!Start, Engine!Step, Engine!StatementFails, Engine!SignIn,
         Engine!AbortSignIn, Engine!Exit, Engine!LoadExtensions, Engine!ConfigureS3,
         Engine!ConfigureGSheet, Engine!SecretNotFound, Engine!Attach, Engine!Validate,
         Engine!ReturnEngine, Engine!Login, Engine!secret
    <3> QED
      BY <3>1 DEF BootInv, Disk
  <2>8. Engine!HasSheetOAuth' <=> Engine!HasSheetOAuth
    BY <2>6 DEF Only, Engine!HasSheetOAuth, Engine!KeyFileOf, Engine!SourcesOf
  <2>9. ASSUME NEW q \in Processes \ {p} PROVE SessionOK(q)'
    <3>1. SessionOK(q) /\ place'[q] = place[q] /\ command'[q] = command[q]
          /\ todo'[q] = todo[q] /\ session'[q] = session[q]
      BY <2>6 DEF SessionInv, Only
    <3>2. Asks(q)'
      BY <2>8, <3>1 DEF SessionOK, Asks
    <3>3. Pending(q)'
      BY <2>7, <3>1 DEF SessionOK, Pending
    <3> QED
      BY <3>2, <3>3 DEF SessionOK
  <2> QED
    BY <2>4, <2>5, <2>9 DEF SessionInv
<1>2. ASSUME UNCHANGED <<config, booting>> PROVE SessionInv'
  <2>1. (Engine!HasSheetOAuth' <=> Engine!HasSheetOAuth) /\ Keys' = Keys
    BY <1>2 DEF Engine!HasSheetOAuth, Engine!KeyFileOf, Engine!SourcesOf, Keys, Engine!Keys
  <2>2. Tables'
    BY <1>2, <2>1 DEF SessionInv, Tables, booting
  <2>3. ASSUME NEW p \in Processes PROVE SessionOK(p)'
    BY <1>2, <2>1 DEF SessionInv, SessionOK, Asks, Pending, booting
  <2> QED
    BY <2>2, <2>3 DEF SessionInv
<1> QED
  BY <1>1, <1>2, ParserKeepsConfig DEF StartupNext, ParseStep, all

LEMMA SessionInvariance == StartupSpec => [](Inv /\ BootInv /\ SessionInv)
BY BootInvariance, InitSession, StepSession, PTL DEF StartupSpec

\* While auth is at work, the configuration has a sheet that needs it.
LEMMA AuthIsNeeded ==
  ASSUME BootInv, SessionInv, NEW p \in Processes, command[p] = "auth", Engine!Booting(p)
  PROVE  Engine!HasSheetOAuth
<1>1. place[p] \in {"extensions", "oauth"}
  BY DEF BootInv, ProcessOK, Shape, Gone, Engine!Booting
<1> QED
  BY <1>1 DEF SessionInv, SessionOK, Asks

\* An engine of a configuration that needs a sign-in uses one.
LEMMA NeededIsUsed ==
  ASSUME BootInv, SessionInv, Engine!HasSheetOAuth, NEW q \in Processes
  PROVE  /\ session[q].sheets.mode # "key_file"
         /\ place[q] = "ready" => session[q].sheets.mode = "oauth"
<1>1. session[q].sheets.mode # "key_file"
  BY DEF SessionInv, SessionOK, Asks
<1>2. ASSUME place[q] = "ready" PROVE session[q].sheets.mode = "oauth"
  <2>1. PICK k \in SourcesOf(config, "gsheet") : TRUE
    BY DEF Engine!HasSheetOAuth, Engine!SourcesOf, SourcesOf
  <2>2. command[q] = "engine" /\ ~Gone(q)
    BY <1>2 DEF BootInv, ProcessOK, Shape, Gone
  <2>3. session[q].sheets.mode = SheetMode(k)
    BY <1>2, <2>2 DEF BootInv, ProcessOK, Configured, Attaching
  <2> QED
    BY <1>1, <2>3 DEF SheetMode
<1> QED
  BY <1>1, <1>2

\* auth refuses a configuration if and only if its boots do without a sign-in: none waits
\* for one or uses one where it refuses, and where it goes on, no boot uses a key file and
\* every engine uses a sign-in, for any number of commands at the same time
\* (AuthMatchesBoot; cmd/auth.go:45-75, queryengine/engine.go:166-197).
THEOREM AuthAgreesWithBoot == StartupSpec => []AuthMatchesBoot
<1>1. BootInv /\ SessionInv => AuthMatchesBoot
  <2> SUFFICES ASSUME BootInv, SessionInv, NEW p \in Processes, NEW q \in Processes
               PROVE  /\ place[p] = "refused" =>
                           place[q] # "oauth" /\ session[q].sheets.mode # "oauth"
                      /\ command[p] = "auth" /\ Engine!Booting(p) =>
                           /\ session[q].sheets.mode # "key_file"
                           /\ place[q] = "ready" => session[q].sheets.mode = "oauth"
    BY DEF AuthMatchesBoot, Engine!AuthMatchesBoot
  <2>1. ASSUME place[p] = "refused"
        PROVE  place[q] # "oauth" /\ session[q].sheets.mode # "oauth"
    BY <2>1 DEF SessionInv, SessionOK, Asks
  <2> QED
    BY <2>1, AuthIsNeeded, NeededIsUsed
<1> QED
  BY <1>1, SessionInvariance, PTL

\* Parser and boots have their types; a source that is attached is in the loop's
\* worklist or activated, and never both (StartupTypeOK).
THEOREM StartupTypeCorrect == StartupSpec => []StartupTypeOK
<1>1. Inv /\ BootInv /\ SessionInv => StartupTypeOK
  <2> SUFFICES ASSUME Inv, BootInv, SessionInv PROVE StartupTypeOK
    OBVIOUS
  <2>1. TypeOK
    BY DEF Inv
  <2>2. logins \in 0..MaxLogins /\ disk \in 0..logins /\ newest \in 0..logins
    BY LoginsAssumption DEF BootInv, Disk, SessionInv, Tables
  <2>3. floor \in [Processes -> 0..newest]
    <3>1. \A p \in Processes : floor[p] \in 0..newest
      BY DEF BootInv, ProcessOK, Recent, Disk
    <3> QED
      BY <3>1 DEF SessionInv, Tables
  <2>4. Engine!TypeOK
    BY <2>1, <2>2, <2>3 DEF Engine!TypeOK, TypeOK, SessionInv, Tables, SessionOK, Pending, Keys
  <2> QED
    BY <2>1, <2>4 DEF StartupTypeOK
<1> QED
  BY <1>1, SessionInvariance, PTL
=============================================================================

---------------------------- MODULE MCOperators -----------------------------
(***************************************************************************)
(* What this repository has of the operators it drives: helpers of the     *)
(* MinIO operator, DirectPV's objects, and the typed clients.  They have   *)
(* no state in common, so each behaviour is one of one of them, which part *)
(* names.                                                                  *)
(***************************************************************************)
EXTENDS Integers, Sequences

CONSTANTS
  ConfigValues, MaxLines,                                    \* MinioConfig
  Users, Buckets, BadNames,                                  \* TenantSetup
  Deadline, MaxSecrets, MaxBuckets, MaxFaults,
  FileNames, Base(_), MaxEntries, MaxWanted,                 \* ExtractTar
  Letters, MaxLetters, MaxDomains,                           \* TenantDomains
  TenantsNames, TenantsNamespaces, PoolNames, MaxTenants,    \* TenantNames
  UserNames, MaxServers, MaxVolumes, MaxPools,               \* TenantHosts
  Containers, Sidecar, Vars, EnvValues, Refs, MaxVars,       \* TenantEnv
  MaxReplicas,                                               \* TenantOptions
  Callers, Volumes, Claims, MaxVersion,                      \* DirectPV
  MaxSeconds, Ticks,                                         \* Conditions
  Alnum, Punct, Other, MaxLabel, MaxName,                    \* Labels
  ObjectNames, Namespaces, Selected, MaxObjects              \* Clients

ASSUME OperatorsAssumption ==
  /\ Deadline \in Nat /\ MaxSecrets \in Nat /\ MaxBuckets \in Nat /\ MaxFaults \in Nat
  /\ MaxEntries \in Nat /\ MaxWanted \in Nat
  /\ MaxVars \in Nat /\ Sidecar \notin Containers /\ "unset" \notin Refs
  /\ MaxVersion \in Nat \ {0} /\ "suspend" \notin Claims
  /\ MaxSeconds \in Nat /\ Ticks \in Nat \ {0}
  /\ MaxLabel \in Nat /\ MaxName \in Nat /\ "x" \in Alnum /\ "-" \in Punct

\* The empty namespace stands for all.
ASSUME NamespacesAssumption == "" \notin Namespaces

VARIABLES
  part,
  file,                                             \* MinioConfig
  secrets, wanted, ldap, server, call, faults,      \* TenantSetup
  files, archive, disk, tarPc, entry, success,      \* ExtractTar
  domains,                                          \* TenantDomains
  tenants,                                          \* TenantNames
  pools, status, running, retired,                  \* TenantHosts
  expected, existing, hook,                         \* TenantEnv
  tenant, own, defaulted,                           \* TenantOptions
  drive, there, doomed, copy,                       \* DirectPV
  conditions, lost, now, latest, wasLost,           \* Conditions
  key, name, value, stored,                         \* Labels
  kinds, store, held                                \* Clients

(* Each has the constants of its own names, or of names that say whose     *)
(* they are.                                                               *)
Config    == INSTANCE MinioConfig WITH Values <- ConfigValues
Setup     == INSTANCE TenantSetup
Tar       == INSTANCE ExtractTar WITH Names <- FileNames, wanted <- files, pc <- tarPc, i <- entry
Zones     == INSTANCE TenantDomains WITH MaxLen <- MaxLetters
Naming    == INSTANCE TenantNames WITH Names <- TenantsNames, Namespaces <- TenantsNamespaces
Hosts     == INSTANCE TenantHosts
Env       == INSTANCE TenantEnv WITH Values <- EnvValues
Options   == INSTANCE TenantOptions WITH t <- tenant
Errors    == INSTANCE Conditions
Label     == INSTANCE Labels WITH MaxLen <- MaxLabel, server <- stored
Calls     == INSTANCE Clients WITH Names <- ObjectNames

(* DirectPV, with what is proved about it.                                 *)
Drive     == INSTANCE DriveProofs WITH Clients <- Callers

Off == "off"
configVars == <<file>>
setupVars == <<secrets, wanted, ldap, server, call, faults>>
tarVars == <<files, archive, disk, tarPc, entry, success>>
domainsVars == <<domains>>
namesVars == <<tenants>>
hostsVars == <<pools, status, running, retired>>
envVars == <<expected, existing, hook>>
optionsVars == <<tenant, own, defaulted>>
driveVars == <<drive, there, doomed, copy>>
conditionsVars == <<conditions, lost, now, latest, wasLost>>
labelsVars == <<key, name, value, stored>>
callsVars == <<kinds, store, held>>
vars == <<part, configVars, setupVars, tarVars, domainsVars, namesVars, hostsVars, envVars,
          optionsVars, driveVars, conditionsVars, labelsVars, callsVars>>

(* A part that is off has no state.  That of the setup is empty, because   *)
(* what must happen in the end is stated of every behaviour.               *)
Init ==
  /\ part \in {"config", "setup", "tar", "domains", "names", "hosts", "env",
              "options", "drive", "conditions", "labels", "calls"}
  /\ IF part = "config" THEN Config!Init
     ELSE file = Off
  /\ IF part = "setup" THEN Setup!Init
     ELSE /\ secrets = <<>> /\ wanted = <<>> /\ ldap = FALSE /\ call = Off /\ faults = Off
          /\ server = [users |-> {}, policies |-> {}, made |-> {}]
  /\ IF part = "tar" THEN Tar!Init
     ELSE files = Off /\ archive = Off /\ disk = Off /\ tarPc = Off /\ entry = Off /\ success = Off
  /\ IF part = "domains" THEN Zones!Init
     ELSE domains = Off
  /\ IF part = "names" THEN Naming!Init
     ELSE tenants = Off
  /\ IF part = "hosts" THEN Hosts!Init
     ELSE pools = Off /\ status = Off /\ running = Off /\ retired = Off
  /\ IF part = "env" THEN Env!Init
     ELSE expected = Off /\ existing = Off /\ hook = Off
  /\ IF part = "options" THEN Options!Init
     ELSE tenant = Off /\ own = Off /\ defaulted = Off
  /\ IF part = "drive" THEN Drive!Init
     ELSE drive = Off /\ there = Off /\ doomed = Off /\ copy = Off
  /\ IF part = "conditions" THEN Errors!Init
     ELSE conditions = Off /\ lost = Off /\ now = Off /\ latest = Off /\ wasLost = Off
  /\ IF part = "labels" THEN Label!Init
     ELSE key = Off /\ name = Off /\ value = Off /\ stored = Off
  /\ IF part = "calls" THEN Calls!Init
     ELSE kinds = Off /\ store = Off /\ held = Off

(* Part p moves, and no other.                                             *)
Only(p) ==
  /\ part = p /\ UNCHANGED part
  /\ IF p = "config" THEN TRUE ELSE UNCHANGED configVars
  /\ IF p = "setup" THEN TRUE ELSE UNCHANGED setupVars
  /\ IF p = "tar" THEN TRUE ELSE UNCHANGED tarVars
  /\ IF p = "domains" THEN TRUE ELSE UNCHANGED domainsVars
  /\ IF p = "names" THEN TRUE ELSE UNCHANGED namesVars
  /\ IF p = "hosts" THEN TRUE ELSE UNCHANGED hostsVars
  /\ IF p = "env" THEN TRUE ELSE UNCHANGED envVars
  /\ IF p = "options" THEN TRUE ELSE UNCHANGED optionsVars
  /\ IF p = "drive" THEN TRUE ELSE UNCHANGED driveVars
  /\ IF p = "conditions" THEN TRUE ELSE UNCHANGED conditionsVars
  /\ IF p = "labels" THEN TRUE ELSE UNCHANGED labelsVars
  /\ IF p = "calls" THEN TRUE ELSE UNCHANGED callsVars

Next ==
  \/ Only("config") /\ Config!Next
  \/ Only("setup") /\ Setup!Next
  \/ Only("tar") /\ Tar!Next
  \/ Only("domains") /\ Zones!Next
  \/ Only("names") /\ Naming!Next
  \/ Only("hosts") /\ Hosts!Next
  \/ Only("env") /\ Env!Next
  \/ Only("options") /\ Options!Next
  \/ Only("drive") /\ Drive!Next
  \/ Only("conditions") /\ Errors!Next
  \/ Only("labels") /\ Label!Next
  \/ Only("calls") /\ Calls!Next

(* The operator calls again what returned an error, until it does not.     *)
Spec == Init /\ [][Next]_vars /\ WF_setupVars(Only("setup") /\ Setup!Next)

-----------------------------------------------------------------------------
(* The properties are those of the components, whose modules explain them. *)

\* Every variable of the part that moves has its type: no finalizer or condition is there
\* twice, a label fits, the counter of a tar is within what was asked for.
TypeOK ==
  CASE part = "setup" -> Setup!TypeOK
    [] part = "tar" -> Tar!TypeOK
    [] part = "drive" -> Drive!TypeOK
    [] part = "conditions" -> Errors!TypeOK
    [] part = "labels" -> Label!TypeOK
    [] OTHER -> TRUE

\* ParseRawConfiguration gives every key the value of its last entry, and the operator
\* can log in with the config.env nineinfra wrote, whatever lines a user adds; the scheme
\* and port nineinfra gives to its other clusters are those of its tenant; and a valid
\* tenant with its defaults has a KES that can run.
TenantServes ==
  /\ part = "config"  => Config!ParsedAsWritten /\ Config!CredentialsKept
  /\ part = "options" => Options!EndpointAgrees /\ Options!KESComplete

\* When CreateUsers and CreateBuckets have returned nil, every user is there with the
\* policy and every bucket is made, whatever failed or was lost on the way.
DoneMeansDone == part = "setup" => Setup!DoneMeansDone

\* What CreateUsers and CreateBuckets have to make is made in the end, although answers are
\* lost and calls refused before.
SetUpInTheEnd == Setup!SetUpInTheEnd

\* When ExtractTar returns nil for a proper archive, each file asked for is there in whole;
\* its count is that of the files still missing, after every entry.
NilMeansExtracted == part = "tar" => Tar!NilMeansExtracted /\ Tar!CountIsRight

\* What belongs to a tenant is kept apart: ValidateDomains refuses two domains one of which
\* ends with the other, in any order; the objects of its parts, and of other tenants, have
\* names of their own; and MinIOHosts tells the servers of the drives that run, each once,
\* also before the status names the StatefulSet.
TenantPartsApart ==
  /\ part = "domains" => Zones!OverlapIsSeen /\ Zones!OrderDoesNotMatter
  /\ part = "names"   => Naming!PartsApart /\ Naming!PlainTenantsApart
  /\ part = "hosts"   => Hosts!ToldWhatRuns /\ Hosts!DrivesApart /\ Hosts!TemplateCovers

\* When IsContainersEnvUpdated sees no change, each value that runs is the expected one; and
\* a rollout leaves nothing to roll out, although a hook adds a container.
EnvironmentsCurrent ==
  /\ [](part = "env" => Env!ValuesCurrent)
  /\ [][part = "env" => Env!RolledOut]_envVars

\* A drive that callers read, change and update at once does what DriveContract promises:
\* no volume is lost to another's update, and no drive goes that has a volume.
KeepsContract ==
  /\ part = "drive" => Drive!KeepsContractAtFirst
  /\ [][part = "drive" => Drive!KeepsContractStep]_driveVars

\* What was set on a DirectPV object is read back: GetLatestErrorConditionType gives the
\* error set last unless seconds tie, and a drive once lost stays lost; a label that is set
\* by conversion only is one the server takes and is read as a label value, and a name is
\* found by its selector whichever way its label was set, but for names with an end that
\* ToLabelValue turns into a dash; and GetVolumeCount counts the volumes of a drive that has
\* not been let go.
ReadBackAsSet ==
  /\ part = "drive"      => Drive!CountOfProtected
  /\ part = "conditions" => Errors!LatestUnlessTied /\ Errors!LostStaysLost
  /\ part = "labels"     => Label!ReadIsValid /\ Label!ConvertedIsValid /\ Label!FoundByName

\* A typed client reaches what it is called for: UpdateStatus leaves every spec alone and
\* Update every status of a type with the subresource; no call touches another resource or
\* namespace, and DeleteCollection removes only what List with the same options shows.
CallsApart ==
  [][part = "calls" => Calls!WritersApart /\ Calls!ScopeKept /\ Calls!DeletesWhatIsListed]_callsVars

-----------------------------------------------------------------------------
(* Values for TLC where a .cfg cannot write them.  Of a tar the binary and *)
(* its signature, which is also in another directory; tenants with names   *)
(* of one and of two words, and the words the operator itself uses.        *)
MCBase(path) == IF path = "old/sig" THEN "sig" ELSE path
MCTenantsNames      == {<<"a">>, <<"a", "b">>, <<"kes">>, <<"minio">>}
MCTenantsNamespaces == {<<"b">>, <<"c">>, <<"b", "c">>, <<"client", "c">>}
MCPoolNames         == {<<"ss", "0">>, <<"kes">>}
MCUserNames         == {<<"fast", 0>>}
=============================================================================

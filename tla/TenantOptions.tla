--------------------------- MODULE TenantOptions ----------------------------
(***************************************************************************)
(* Credentials, TLS and KES of a tenant (helper.go of minio.min.io/v2):    *)
(* what EnsureDefaults adds, what Validate refuses, and what the addresses *)
(* of the tenant are then; with the tenant nineinfra makes (minio.go) and  *)
(* the endpoint it gives to its other clusters.                            *)
(***************************************************************************)
EXTENDS Naturals, Sequences, FiniteSets

CONSTANT MaxReplicas   \* bound: replicas of KES

(* Options that may be left out hold "nil".                                *)
Given == {"nil", "empty", "given"}
KES == [enabled : {TRUE}, replicas : 0..MaxReplicas, gcpSecret : {"empty", "given"},
        gcpPool : {"empty", "given"}, account : {"empty", "given", "default"}]
NoKES == [enabled |-> FALSE, replicas |-> 0, gcpSecret |-> "empty", gcpPool |-> "empty", account |-> "empty"]

VARIABLES
  t,         \* the tenant: configuration, credsSecret, requestAutoCert, externalCert, kes
  own,       \* nineinfra made it, and nobody changed its certificates
  defaulted  \* EnsureDefaults ran since the last change
vars == <<t, own, defaulted>>

-----------------------------------------------------------------------------
(* constructMinioTenant                                                    *)
constructMinioTenant ==
  [configuration |-> "given", credsSecret |-> "nil", requestAutoCert |-> "false",
   externalCert |-> FALSE, kes |-> NoKES]

(* minioFullEndpoint(endpoint, false), on the port of the scheme.          *)
minioFullEndpoint == <<"http", 80>>

HasCredsSecret(s)         == s.credsSecret = "given"
HasConfigurationSecret(s) == s.configuration = "given"

AutoCert(s) == s.requestAutoCert # "false"

TLS(s) == AutoCert(s) \/ s.externalCert

(* MinIOServerEndpoint, MinIOServerHostAddress, GetTenantServiceURL         *)
MinIOServerEndpoint(s) == <<IF TLS(s) THEN "https" ELSE "http", IF TLS(s) THEN 443 ELSE 80>>

HasGCPCredentialSecretForKES(s)     == s.kes.enabled /\ s.kes.gcpSecret = "given"
HasGCPWorkloadIdentityPoolForKES(s) == s.kes.enabled /\ s.kes.gcpPool = "given"

DefaultKESReplicas == 2

EnsureDefaults(s) ==
  IF ~s.kes.enabled THEN s
  ELSE [s EXCEPT
          !.kes.replicas = IF @ = 0 THEN DefaultKESReplicas ELSE @,
          !.kes.account = IF HasGCPCredentialSecretForKES(s) /\ @ = "empty" THEN "default" ELSE @]

(* The pools and the domains have modules of their own.                    *)
Validate(s) ==
  /\ HasConfigurationSecret(s) \/ HasCredsSecret(s)
  /\ s.kes.enabled => (HasGCPCredentialSecretForKES(s) <=> HasGCPWorkloadIdentityPoolForKES(s))

(* Every pod by its number, and the service.                               *)
KESHosts(s) == {<<"pod", i>> : i \in 0..(s.kes.replicas - 1)} \cup {<<"service", 0>>}

GetKESEnvVars(s) == IF HasGCPCredentialSecretForKES(s) THEN {"GOOGLE_APPLICATION_CREDENTIALS"} ELSE {}

-----------------------------------------------------------------------------
Init == t = constructMinioTenant /\ own = TRUE /\ defaulted = FALSE

Changed(new) == t' = new /\ defaulted' = FALSE

EditSecrets == \E c, d \in Given : Changed([t EXCEPT !.configuration = c, !.credsSecret = d]) /\ UNCHANGED own
EditKES     == \E k \in KES \cup {NoKES} : Changed([t EXCEPT !.kes = k]) /\ UNCHANGED own
EditCerts   ==
  /\ \E a \in {"nil", "true", "false"}, e \in BOOLEAN : Changed([t EXCEPT !.requestAutoCert = a, !.externalCert = e])
  /\ own' = FALSE
Default     == t' = EnsureDefaults(t) /\ defaulted' = TRUE /\ UNCHANGED own

Next == EditSecrets \/ EditKES \/ EditCerts \/ Default

Spec == Init /\ [][Next]_vars

-----------------------------------------------------------------------------
\* Kyuubi and the metastore are given the scheme and the port on which the tenant that
\* nineinfra made does listen, whatever else is changed in it and defaulted.
EndpointAgrees == own => MinIOServerEndpoint(t) = minioFullEndpoint

\* A valid tenant with its defaults has a KES that can run: pods to ask, and with the
\* credentials of a cloud identity also the identity pool and an account.
KESComplete ==
  defaulted /\ Validate(t) /\ t.kes.enabled =>
    /\ Cardinality(KESHosts(t)) > 1
    /\ GetKESEnvVars(t) # {} => t.kes.gcpPool = "given" /\ t.kes.account # "empty"
=============================================================================

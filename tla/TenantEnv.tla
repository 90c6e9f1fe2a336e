----------------------------- MODULE TenantEnv ------------------------------
(***************************************************************************)
(* The environment of a tenant's containers (helper.go of minio.min.io/v2):*)
(* IsContainersEnvUpdated decides whether the operator rolls a StatefulSet *)
(* out again, which Kubernetes then keeps, with the containers an          *)
(* admission hook may add.                                                 *)
(***************************************************************************)
EXTENDS Naturals, Sequences, FiniteSets, SequencesExt

CONSTANTS
  Containers,  \* containers the operator knows
  Sidecar,     \* a container a hook adds
  Vars,        \* names of variables
  Values,      \* their values
  Refs,        \* secrets a variable may be taken from
  MaxVars      \* bound: variables of a container

(* A variable has a value, or else a reference.                            *)
EnvVars == [name : Vars, value : Values, from : {"none"}]
           \cup [name : Vars, value : {""}, from : Refs]
Envs == UNION {[1..k -> EnvVars] : k \in 0..MaxVars}

VARIABLES expected, existing, hook
vars == <<expected, existing, hook>>

-----------------------------------------------------------------------------
(* The last variable of a name counts; references are left out.            *)
ToMap(env) ==
  [n \in {env[i].name : i \in DOMAIN env} |->
     LET Is == {i \in DOMAIN env : env[i].name = n}
     IN  env[CHOOSE i \in Is : \A j \in Is : j <= i].value]

IsEnvUpdated(old, new) == old # new

\* All containers have to be the same.
IsContainersEnvUpdatedAll(old, new) ==
  DOMAIN old = DOMAIN new => \E c \in DOMAIN new : IsEnvUpdated(ToMap(old[c]), ToMap(new[c]))

(* A container that is expected is missing or has another environment.     *)
IsContainersEnvUpdated(old, new) ==
  \E c \in DOMAIN new : c \in DOMAIN old => IsEnvUpdated(ToMap(old[c]), ToMap(new[c]))

-----------------------------------------------------------------------------
Subsets == UNION {[S -> Envs] : S \in SUBSET Containers}

Init ==
  /\ expected \in Subsets
  /\ existing = [c \in {} |-> <<>>]
  /\ hook \in BOOLEAN

(* The operator wants something else.                                      *)
Expect ==
  /\ expected' \in Subsets
  /\ UNCHANGED <<existing, hook>>

(* A rollout: what is expected, and the hook's container.                  *)
RollOut ==
  /\ IsContainersEnvUpdated(existing, expected)
  /\ existing' = [c \in DOMAIN expected \cup (IF hook THEN {Sidecar} ELSE {}) |->
                    IF c = Sidecar THEN <<>> ELSE expected[c]]
  /\ UNCHANGED <<expected, hook>>

Next == Expect \/ RollOut

Spec == Init /\ [][Next]_vars

-----------------------------------------------------------------------------
\* A rollout leaves nothing to roll out: a container that something else adds does not
\* make the operator start over.
RolledOut == RollOut => ~IsContainersEnvUpdated(existing', expected')

(* Of two variables of one name Kubernetes takes the later one.            *)
Effective(env, n) ==
  LET Stands(i) == env[i].name = n /\ \A j \in DOMAIN env : j > i => env[j].name # n
  IN  IF \E i \in DOMAIN env : Stands(i) THEN env[CHOOSE i \in DOMAIN env : Stands(i)]
      ELSE [name |-> n, value |-> "", from |-> "unset"]

\* When nothing is rolled out, each variable that is given by its value in both has the
\* value in the container that is expected, doubly defined ones too.
ValuesCurrent ==
  ~IsContainersEnvUpdated(existing, expected) =>
    \A c \in DOMAIN expected : \A n \in Vars :
      LET old == Effective(existing[c], n)
          new == Effective(expected[c], n)
      IN  old.from \in {"none", "unset"} /\ new.from \in {"none", "unset"} => old = new
=============================================================================

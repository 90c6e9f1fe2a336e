---------------------------- MODULE TenantSetup -----------------------------
(***************************************************************************)
(* A tenant's console users and buckets: CreateUsers and CreateBuckets     *)
(* (helper.go of minio.min.io/v2), each a loop of calls to the MinIO       *)
(* server that the operator runs again when it returned an error.          *)
(***************************************************************************)
EXTENDS Naturals, Sequences, FiniteSets

CONSTANTS
  Users, Buckets,  \* access keys and bucket names
  BadNames,        \* the bucket names CheckValidBucketNameStrict refuses
  Deadline,        \* the 20 seconds of a context, in calls
  MaxSecrets,      \* bound: user secrets of the tenant
  MaxBuckets,      \* bound: buckets of the tenant
  MaxFaults        \* bound: calls that fail

Secrets == [user : Users \cup {"missing"}, secret : BOOLEAN]
UpTo(S, n) == UNION {[1..k -> S] : k \in 0..n}

VARIABLES
  secrets, wanted, ldap,   \* the arguments
  server,                  \* what it has: users, policies, buckets made
  call,                    \* the call to make: where, which element, time left
  faults
args   == <<secrets, wanted, ldap>>
vars   == <<args, server, call, faults>>

At(pc, i, left) == [pc |-> pc, i |-> i, left |-> left]

Init ==
  /\ secrets \in UpTo(Secrets, MaxSecrets)
  /\ wanted \in UpTo(Buckets, MaxBuckets)
  /\ ldap \in BOOLEAN
  /\ server = [users |-> {}, policies |-> {}, made |-> {}]
  /\ call = At("secret", 1, Deadline)
  /\ faults = 0

-----------------------------------------------------------------------------
(* How a call that would leave the server as done, and report ok, can end: *)
(* the server answers, or takes all the time that is left, or refuses for  *)
(* now, or does it and the answer is lost. A call under a context whose    *)
(* time is up is never made.                                               *)
Outcome(s, ok, left, n) == [server |-> s, ok |-> ok, left |-> left, faults |-> n]
Outcomes(done, ok) ==
  IF call.left = 0 THEN {Outcome(server, FALSE, 0, faults)}
  ELSE {Outcome(done, ok, call.left - 1, faults)}
       \cup IF faults = MaxFaults THEN {}
            ELSE {Outcome(done, ok, 0, faults + 1), Outcome(done, FALSE, 0, faults + 1),
                  Outcome(server, FALSE, 0, faults + 1)}

(* The call ends with outcome o, which leads to the call then or else.     *)
Ends(o, then, else) ==
  /\ server' = o.server /\ faults' = o.faults
  /\ call' = IF o.ok THEN then ELSE else

Failed == At("failed", call.i, 0)

-----------------------------------------------------------------------------
(* The head of the loop over the secrets: a key that is missing is an      *)
(* error; users that LDAP keeps are not created.                           *)
Secret ==
  /\ call.pc = "secret"
  /\ call' = IF call.i > Len(secrets) THEN At("bucket", 1, Deadline)
             ELSE LET s == secrets[call.i]
                  IN  IF s.user = "missing" \/ (~ldap /\ ~s.secret) THEN Failed
                      ELSE At(IF ldap THEN "policy" ELSE "add", call.i, call.left)
  /\ UNCHANGED <<args, server, faults>>

AddUser ==
  /\ call.pc = "add"
  /\ \E o \in Outcomes([server EXCEPT !.users = @ \cup {secrets[call.i].user}], TRUE) :
       Ends(o, At("policy", call.i, o.left), Failed)
  /\ UNCHANGED args

(* Setting a policy is refused for a user the server does not know.        *)
PolicyOutcomes ==
  LET u == secrets[call.i].user
  IN  IF ldap \/ u \in server.users THEN Outcomes([server EXCEPT !.policies = @ \cup {u}], TRUE)
      ELSE Outcomes(server, FALSE)

\* A failed policy is not noticed.
SetPolicyUnchecked ==
  /\ call.pc = "policy"
  /\ \E o \in PolicyOutcomes :
       Ends(o, At("secret", call.i + 1, o.left), At("secret", call.i + 1, o.left))
  /\ UNCHANGED args

SetPolicy ==
  /\ call.pc = "policy"
  /\ \E o \in PolicyOutcomes : Ends(o, At("secret", call.i + 1, o.left), Failed)
  /\ UNCHANGED args

BucketFailed == At("bucketsFailed", call.i, 0)
BucketOutcomes(ok) ==
  LET b == wanted[call.i]
  IN  IF b \in BadNames THEN {Outcome(server, FALSE, 0, faults)}
      ELSE Outcomes([server EXCEPT !.made = @ \cup {b}], ok)

\* A bucket that exists is an error.
MakeBucketStrict ==
  /\ call.pc = "bucket" /\ call.i <= Len(wanted)
  /\ \E o \in BucketOutcomes(wanted[call.i] \notin server.made) :
       Ends(o, At("bucket", call.i + 1, Deadline), BucketFailed)
  /\ UNCHANGED args

(* One turn of CreateBuckets: a context of its own, and a bucket that is   *)
(* already there is skipped.                                               *)
MakeBucket ==
  /\ call.pc = "bucket" /\ call.i <= Len(wanted)
  /\ \E o \in BucketOutcomes(TRUE) : Ends(o, At("bucket", call.i + 1, Deadline), BucketFailed)
  /\ UNCHANGED args

Finish ==
  /\ call.pc = "bucket" /\ call.i > Len(wanted)
  /\ call' = At("done", 0, 0)
  /\ UNCHANGED <<args, server, faults>>

(* The operator calls what returned an error again.                        *)
Again ==
  /\ call.pc \in {"failed", "bucketsFailed"}
  /\ call' = At(IF call.pc = "failed" THEN "secret" ELSE "bucket", 1, Deadline)
  /\ UNCHANGED <<args, server, faults>>

Next == Secret \/ AddUser \/ SetPolicy \/ MakeBucket \/ Finish \/ Again

Spec == Init /\ [][Next]_vars /\ WF_vars(Next)

-----------------------------------------------------------------------------
Usable(s) == s.user # "missing" /\ (ldap \/ s.secret)
SetUp(s)  == (ldap \/ s.user \in server.users) /\ s.user \in server.policies

\* The state is made of the tenant's users and buckets; at most Deadline calls share a
\* context.
TypeOK ==
  /\ server \in [users : SUBSET Users, policies : SUBSET Users, made : SUBSET (Buckets \ BadNames)]
  /\ call.pc \in {"secret", "add", "policy", "bucket", "failed", "bucketsFailed", "done"}
  /\ call.i \in 0..(MaxSecrets + MaxBuckets + 1) /\ call.left \in 0..Deadline
  /\ faults \in 0..MaxFaults

\* When CreateUsers has returned nil every secret was usable and its user is there with
\* the policy; when CreateBuckets has, every bucket is: whatever failed, was lost and was
\* done again before.
DoneMeansDone ==
  /\ call.pc \in {"bucket", "bucketsFailed", "done"} =>
       \A i \in DOMAIN secrets : Usable(secrets[i]) /\ SetUp(secrets[i])
  /\ call.pc = "done" => \A i \in DOMAIN wanted : wanted[i] \in server.made

\* Every user whose secret, and those before it, are usable is added in the end: "add user
\* with a 20 seconds timeout", and no single call takes longer.
UsersInTheEnd ==
  \A i \in 1..MaxSecrets :
    (i \in DOMAIN secrets /\ \A j \in 1..i : Usable(secrets[j]))
    ~> (i \in DOMAIN secrets /\ SetUp(secrets[i]))

\* Calls the server did before their answer was lost do not stand in the way of the next
\* attempt: whatever stands before the first error that cannot go away is set up in the
\* end, as long as all the users can be added under one deadline.
SetUpInTheEnd ==
  /\ UsersInTheEnd
  /\ \A i \in 1..MaxBuckets :
       ( /\ \A j \in DOMAIN secrets : Usable(secrets[j])
         /\ i \in DOMAIN wanted /\ \A j \in 1..i : wanted[j] \notin BadNames )
       ~> (i \in DOMAIN wanted /\ wanted[i] \in server.made)
=============================================================================

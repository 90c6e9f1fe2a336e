-------------------------- MODULE OperatorsProofs ---------------------------
(***************************************************************************)
(* What the repository has of the operators it drives keeps its promises   *)
(* for any users, buckets, archives, names and callers, and within any     *)
(* bounds: the properties of MCOperators, each for the components it is    *)
(* about, and then for behaviours of any of them.                          *)
(***************************************************************************)
EXTENDS MCOperators, FiniteSetTheorems, FunctionTheorems, TLAPS

-----------------------------------------------------------------------------
(* TenantSetup.                                                            *)
LEMMA SetupNumbers == Deadline \in Nat /\ MaxSecrets \in Nat /\ MaxBuckets \in Nat /\ MaxFaults \in Nat
  BY OperatorsAssumption

InUsers   == {"secret", "add", "policy"}
InBuckets == {"bucket", "bucketsFailed", "done"}

(* What the tenant asks for.                                               *)
SetupAsked ==
  /\ secrets \in Seq(Setup!Secrets) /\ Len(secrets) <= MaxSecrets
  /\ wanted \in Seq(Buckets) /\ Len(wanted) <= MaxBuckets
  /\ ldap \in BOOLEAN

SetupTyped ==
  /\ server \in [users : SUBSET Users, policies : SUBSET Users, made : SUBSET (Buckets \ BadNames)]
  /\ call \in [pc : InUsers \cup InBuckets \cup {"failed"}, i : Nat, left : 0..Deadline]
  /\ faults \in 0..MaxFaults

(* Where each loop stands: everything before the element it is at is done. *)
UsersDone ==
  /\ call.pc \in InUsers =>
       /\ call.i \in 1..(Len(secrets) + 1)
       /\ \A j \in 1..(call.i - 1) : Setup!Usable(secrets[j]) /\ Setup!SetUp(secrets[j])
  /\ call.pc \in {"add", "policy"} => call.i \in DOMAIN secrets /\ Setup!Usable(secrets[call.i])
  /\ call.pc = "policy" => ldap \/ secrets[call.i].user \in server.users
  /\ call.pc = "failed" => call.i \in DOMAIN secrets
  /\ call.pc \in InBuckets => \A j \in DOMAIN secrets : Setup!Usable(secrets[j]) /\ Setup!SetUp(secrets[j])

BucketsDone ==
  /\ call.pc = "bucket" =>
       /\ call.i \in 1..(Len(wanted) + 1)
       /\ \A j \in 1..(call.i - 1) : wanted[j] \in server.made
  /\ call.pc = "bucketsFailed" => call.i \in DOMAIN wanted
  /\ call.pc = "done" => call.i = 0 /\ \A j \in DOMAIN wanted : wanted[j] \in server.made

SetupInv == SetupAsked /\ SetupTyped /\ UsersDone /\ BucketsDone

-----------------------------------------------------------------------------
(* The arguments, of any length within the bounds, are sequences.          *)
LEMMA UpToIsSeq ==
  ASSUME NEW S, NEW n \in Nat, NEW s \in Setup!UpTo(S, n)
  PROVE  s \in Seq(S) /\ Len(s) <= n
BY DEF Setup!UpTo

(* However a call ends, the server has no less than before and no more     *)
(* than the call would do; a call that reports ok has done it.             *)
LEMMA OutcomeGrows ==
  ASSUME SetupTyped, NEW done, NEW ok \in BOOLEAN, NEW o \in Setup!Outcomes(done, ok)
  PROVE  /\ o.server \in {server, done} /\ o.ok \in BOOLEAN
         /\ o.left \in 0..Deadline /\ o.faults \in 0..MaxFaults
         /\ o.ok => o.server = done /\ ok
<1>1. CASE call.left = 0
  <2>1. o = Setup!Outcome(server, FALSE, 0, faults)  BY <1>1 DEF Setup!Outcomes
  <2> QED  BY <2>1, SetupNumbers DEF SetupTyped, Setup!Outcome
<1>2. CASE call.left # 0
  <2>1. call.left \in 1..Deadline  BY <1>2, SetupNumbers DEF SetupTyped
  <2>2. CASE o = Setup!Outcome(done, ok, call.left - 1, faults)
    BY <2>1, <2>2, SetupNumbers DEF SetupTyped, Setup!Outcome
  <2>3. CASE faults # MaxFaults /\ o \in {Setup!Outcome(done, ok, 0, faults + 1),
               Setup!Outcome(done, FALSE, 0, faults + 1), Setup!Outcome(server, FALSE, 0, faults + 1)}
    <3>1. faults + 1 \in 0..MaxFaults /\ 0 \in 0..Deadline  BY <2>3, SetupNumbers DEF SetupTyped
    <3>2. CASE o = Setup!Outcome(done, ok, 0, faults + 1)  BY <3>1, <3>2 DEF Setup!Outcome
    <3>3. CASE o = Setup!Outcome(done, FALSE, 0, faults + 1)  BY <3>1, <3>3 DEF Setup!Outcome
    <3>4. CASE o = Setup!Outcome(server, FALSE, 0, faults + 1)  BY <3>1, <3>4 DEF Setup!Outcome
    <3> QED  BY <2>3, <3>2, <3>3, <3>4
  <2> QED  BY <1>2, <2>2, <2>3 DEF Setup!Outcomes
<1> QED  BY <1>1, <1>2

-----------------------------------------------------------------------------
LEMMA SetupInitInv == ASSUME Setup!Init PROVE SetupInv
<1>1. SetupAsked  BY UpToIsSeq, SetupNumbers DEF Setup!Init, SetupAsked
<1>2. SetupTyped  BY SetupNumbers DEF Setup!Init, SetupTyped, Setup!At, InUsers
<1>3. UsersDone /\ BucketsDone
  BY <1>1, SetupNumbers DEF Setup!Init, Setup!At, InUsers, InBuckets, SetupAsked, UsersDone, BucketsDone
<1> QED  BY <1>1, <1>2, <1>3 DEF SetupInv

LEMMA SecretInv == ASSUME SetupInv, Setup!Secret PROVE SetupInv'
<1> DEFINE s == secrets[call.i]
<1>a. /\ SetupAsked /\ SetupTyped /\ UsersDone /\ SetupAsked' /\ call.pc = "secret"
      /\ call.i \in 1..(Len(secrets) + 1) /\ DOMAIN secrets = 1..Len(secrets)
      /\ server' = server /\ secrets' = secrets /\ ldap' = ldap /\ faults' = faults
  BY DEF SetupInv, SetupAsked, UsersDone, InUsers, Setup!Secret, Setup!args
<1>1. CASE call.i > Len(secrets)
  <2>1. call' = Setup!At("bucket", 1, Deadline)  BY <1>1 DEF Setup!Secret
  <2> QED
    BY <1>1, <1>a, <2>1, SetupNumbers
    DEF SetupInv, SetupAsked, SetupTyped, UsersDone, BucketsDone, InUsers, InBuckets, Setup!At, Setup!Usable, Setup!SetUp
<1>2. CASE call.i <= Len(secrets) /\ (s.user = "missing" \/ (~ldap /\ ~s.secret))
  <2>1. call' = Setup!At("failed", call.i, 0)  BY <1>2, <1>a DEF Setup!Secret, Setup!Failed
  <2> QED
    BY <1>2, <1>a, <2>1, SetupNumbers
    DEF SetupInv, SetupAsked, SetupTyped, UsersDone, BucketsDone, InUsers, InBuckets, Setup!At, Setup!Usable, Setup!SetUp
<1>3. CASE call.i <= Len(secrets) /\ ~(s.user = "missing" \/ (~ldap /\ ~s.secret))
  <2>1. call' = Setup!At(IF ldap THEN "policy" ELSE "add", call.i, call.left)  BY <1>3, <1>a DEF Setup!Secret
  <2>2. Setup!Usable(s)  BY <1>3, <1>a DEF Setup!Usable, SetupAsked, Setup!Secrets
  <2> QED
    BY <1>3, <1>a, <2>1, <2>2, SetupNumbers
    DEF SetupInv, SetupAsked, SetupTyped, UsersDone, BucketsDone, InUsers, InBuckets, Setup!At, Setup!Usable, Setup!SetUp
<1> QED  BY <1>a, <1>1, <1>2, <1>3 DEF SetupAsked

LEMMA AddUserInv == ASSUME SetupInv, Setup!AddUser PROVE SetupInv'
<1> DEFINE u == secrets[call.i].user
           done == [server EXCEPT !.users = @ \cup {u}]
<1>1. PICK o \in Setup!Outcomes(done, TRUE) : Setup!Ends(o, Setup!At("policy", call.i, o.left), Setup!Failed)
  BY DEF Setup!AddUser
<1>a. /\ SetupAsked /\ SetupTyped /\ UsersDone /\ SetupAsked' /\ call.pc = "add"
      /\ secrets' = secrets /\ ldap' = ldap
  BY DEF SetupInv, SetupAsked, Setup!AddUser, Setup!args
<1>b. /\ call.i \in DOMAIN secrets /\ Setup!Usable(secrets[call.i]) /\ u \in Users
      /\ call.i \in 1..(Len(secrets) + 1)
      /\ \A j \in 1..(call.i - 1) : Setup!Usable(secrets[j]) /\ Setup!SetUp(secrets[j])
  <2>1. /\ call.i \in DOMAIN secrets /\ Setup!Usable(secrets[call.i]) /\ call.i \in 1..(Len(secrets) + 1)
        /\ \A j \in 1..(call.i - 1) : Setup!Usable(secrets[j]) /\ Setup!SetUp(secrets[j])
        /\ call.pc = "policy" => ldap \/ u \in server.users
    BY <1>a DEF UsersDone, InUsers
  <2>2. secrets[call.i] \in Setup!Secrets  BY <1>a, <2>1 DEF SetupAsked
  <2>3. u \in Users  BY <2>1, <2>2 DEF Setup!Usable, Setup!Secrets
  <2> QED  BY <1>a, <2>1, <2>3
<1>2. /\ o.server \in {server, done} /\ o.left \in 0..Deadline /\ o.faults \in 0..MaxFaults
      /\ o.ok => o.server = done
  BY <1>a, OutcomeGrows
<1>3. /\ server' \in {server, done} /\ faults' \in 0..MaxFaults
      /\ \/ call' = Setup!At("policy", call.i, o.left) /\ server' = done
         \/ call' = Setup!At("failed", call.i, 0)
  BY <1>1, <1>2 DEF Setup!Ends, Setup!Failed
<1>4. /\ server' \in [users : SUBSET Users, policies : SUBSET Users, made : SUBSET (Buckets \ BadNames)]
      /\ server.users \subseteq server'.users /\ server'.policies = server.policies
      /\ server' = done => u \in server'.users
  BY <1>3, <1>a, <1>b DEF SetupTyped
<1>5. SetupTyped'  BY <1>2, <1>3, <1>4, <1>a, <1>b, SetupNumbers DEF SetupTyped, Setup!At, InUsers, InBuckets, SetupAsked
<1>6. UsersDone'
  BY <1>3, <1>4, <1>a, <1>b DEF UsersDone, InUsers, InBuckets, Setup!At, Setup!Usable, Setup!SetUp
<1>7. BucketsDone'  BY <1>3 DEF BucketsDone, Setup!At
<1> QED  BY <1>a, <1>5, <1>6, <1>7 DEF SetupInv

LEMMA SetPolicyInv == ASSUME SetupInv, Setup!SetPolicy PROVE SetupInv'
<1> DEFINE u == secrets[call.i].user
           done == [server EXCEPT !.policies = @ \cup {u}]
           next == Setup!At("secret", call.i + 1, 0)
<1>1. PICK o \in Setup!PolicyOutcomes : Setup!Ends(o, Setup!At("secret", call.i + 1, o.left), Setup!Failed)
  BY DEF Setup!SetPolicy
<1>a. /\ SetupAsked /\ SetupTyped /\ UsersDone /\ SetupAsked' /\ call.pc = "policy"
      /\ secrets' = secrets /\ ldap' = ldap
  BY DEF SetupInv, SetupAsked, Setup!SetPolicy, Setup!args
<1>b. /\ call.i \in DOMAIN secrets /\ Setup!Usable(secrets[call.i]) /\ u \in Users
      /\ call.i \in 1..(Len(secrets) + 1) /\ (ldap \/ u \in server.users)
      /\ \A j \in 1..(call.i - 1) : Setup!Usable(secrets[j]) /\ Setup!SetUp(secrets[j])
  <2>1. /\ call.i \in DOMAIN secrets /\ Setup!Usable(secrets[call.i]) /\ call.i \in 1..(Len(secrets) + 1)
        /\ \A j \in 1..(call.i - 1) : Setup!Usable(secrets[j]) /\ Setup!SetUp(secrets[j])
        /\ call.pc = "policy" => ldap \/ u \in server.users
    BY <1>a DEF UsersDone, InUsers
  <2>2. secrets[call.i] \in Setup!Secrets  BY <1>a, <2>1 DEF SetupAsked
  <2>3. u \in Users  BY <2>1, <2>2 DEF Setup!Usable, Setup!Secrets
  <2> QED  BY <1>a, <2>1, <2>3
<1>c. o \in Setup!Outcomes(done, TRUE)  BY <1>1, <1>b DEF Setup!PolicyOutcomes
<1>2. /\ o.server \in {server, done} /\ o.left \in 0..Deadline /\ o.faults \in 0..MaxFaults
      /\ o.ok => o.server = done
  BY <1>a, <1>c, OutcomeGrows
<1>3. /\ server' \in {server, done} /\ faults' \in 0..MaxFaults
      /\ \/ call' = Setup!At("secret", call.i + 1, o.left) /\ server' = done
         \/ call' = Setup!At("failed", call.i, 0)
  BY <1>1, <1>2 DEF Setup!Ends, Setup!Failed
<1>4. /\ server' \in [users : SUBSET Users, policies : SUBSET Users, made : SUBSET (Buckets \ BadNames)]
      /\ server'.users = server.users /\ server.policies \subseteq server'.policies
      /\ server' = done => u \in server'.policies
  BY <1>3, <1>a, <1>b DEF SetupTyped
<1>5. SetupTyped'
  <2>1. call.i \in Nat /\ call.i + 1 \in Nat /\ 0 \in 0 .. Deadline  BY <1>a, <1>b, SetupNumbers DEF SetupTyped
  <2>2. call' \in [pc : InUsers \cup InBuckets \cup {"failed"}, i : Nat, left : 0 .. Deadline]
    BY <1>2, <1>3, <2>1 DEF Setup!At, InUsers
  <2> QED  BY <1>3, <1>4, <2>2 DEF SetupTyped
<1>6. UsersDone'
  <2>1. CASE call' = Setup!At("failed", call.i, 0)
    BY <2>1, <1>a, <1>b DEF UsersDone, InUsers, InBuckets, Setup!At
  <2>2. CASE call' = Setup!At("secret", call.i + 1, o.left) /\ server' = done
    <3>1. \A j \in 1..call.i : Setup!Usable(secrets[j])' /\ Setup!SetUp(secrets[j])'
      BY <2>2, <1>4, <1>a, <1>b DEF Setup!Usable, Setup!SetUp, SetupAsked
    <3> QED
      BY <2>2, <3>1, <1>a, <1>b DEF UsersDone, InUsers, InBuckets, Setup!At, SetupAsked
  <2> QED  BY <2>1, <2>2, <1>3
<1>7. BucketsDone'  BY <1>3 DEF BucketsDone, Setup!At
<1> QED  BY <1>a, <1>5, <1>6, <1>7 DEF SetupInv

LEMMA MakeBucketInv == ASSUME SetupInv, Setup!MakeBucket PROVE SetupInv'
<1> DEFINE b == wanted[call.i]
           done == [server EXCEPT !.made = @ \cup {b}]
<1>1. PICK o \in Setup!BucketOutcomes(TRUE) :
        Setup!Ends(o, Setup!At("bucket", call.i + 1, Deadline), Setup!At("bucketsFailed", call.i, 0))
  BY DEF Setup!MakeBucket, Setup!BucketFailed
<1>a. /\ SetupAsked /\ SetupTyped /\ UsersDone /\ BucketsDone /\ SetupAsked' /\ call.pc = "bucket"
      /\ call.i \in 1..Len(wanted) /\ call.i \in DOMAIN wanted /\ b \in Buckets
      /\ secrets' = secrets /\ ldap' = ldap /\ wanted' = wanted
  BY DEF SetupInv, SetupAsked, Setup!MakeBucket, Setup!args, BucketsDone
<1>2. /\ o.server = server \/ (o.server = done /\ b \notin BadNames)
      /\ o.faults \in 0..MaxFaults
      /\ o.ok => o.server = done /\ b \notin BadNames
  <2>1. CASE b \in BadNames  BY <2>1, <1>1, <1>a DEF Setup!BucketOutcomes, Setup!Outcome, SetupTyped
  <2>2. CASE b \notin BadNames
    <3>1. o \in Setup!Outcomes(done, TRUE)  BY <2>2, <1>1 DEF Setup!BucketOutcomes
    <3> QED  BY <2>2, <3>1, <1>a, OutcomeGrows
  <2> QED  BY <2>1, <2>2
<1>3. /\ faults' \in 0..MaxFaults
      /\ server' = server \/ (server' = done /\ b \notin BadNames)
      /\ \/ call' = Setup!At("bucket", call.i + 1, Deadline) /\ server' = done
         \/ call' = Setup!At("bucketsFailed", call.i, 0)
  BY <1>1, <1>2 DEF Setup!Ends
<1>4. /\ server' \in [users : SUBSET Users, policies : SUBSET Users, made : SUBSET (Buckets \ BadNames)]
      /\ server'.users = server.users /\ server'.policies = server.policies
      /\ server.made \subseteq server'.made /\ server' = done => b \in server'.made
  BY <1>3, <1>a DEF SetupTyped
<1>5. SetupTyped'  BY <1>3, <1>4, <1>a, SetupNumbers DEF SetupTyped, Setup!At, InBuckets
<1>6. UsersDone'
  BY <1>3, <1>4, <1>a DEF UsersDone, InUsers, InBuckets, Setup!At, Setup!Usable, Setup!SetUp
<1>7. BucketsDone'
  <2>1. CASE call' = Setup!At("bucketsFailed", call.i, 0)  BY <2>1, <1>a DEF BucketsDone, Setup!At
  <2>2. CASE call' = Setup!At("bucket", call.i + 1, Deadline) /\ server' = done
    <3>1. \A j \in 1..call.i : wanted[j] \in server'.made
      BY <2>2, <1>4, <1>a DEF BucketsDone, SetupAsked
    <3> QED  BY <2>2, <3>1, <1>a DEF BucketsDone, Setup!At, SetupAsked
  <2> QED  BY <2>1, <2>2, <1>3
<1> QED  BY <1>a, <1>5, <1>6, <1>7 DEF SetupInv

LEMMA FinishInv == ASSUME SetupInv, Setup!Finish PROVE SetupInv'
<1>1. /\ SetupAsked /\ SetupTyped /\ UsersDone /\ BucketsDone /\ SetupAsked' /\ call.pc = "bucket"
      /\ call.i = Len(wanted) + 1 /\ call' = Setup!At("done", 0, 0) /\ server' = server
      /\ secrets' = secrets /\ ldap' = ldap /\ wanted' = wanted /\ faults' = faults
  BY DEF SetupInv, SetupAsked, Setup!Finish, Setup!args, BucketsDone
<1>2. SetupTyped' /\ UsersDone'
  BY <1>1, SetupNumbers DEF SetupTyped, UsersDone, InUsers, InBuckets, Setup!At, Setup!Usable, Setup!SetUp
<1>3. BucketsDone'  BY <1>1 DEF BucketsDone, Setup!At, SetupAsked
<1> QED  BY <1>1, <1>2, <1>3 DEF SetupInv

LEMMA SetupAgainInv == ASSUME SetupInv, Setup!Again PROVE SetupInv'
<1>1. /\ SetupAsked /\ SetupTyped /\ UsersDone /\ BucketsDone /\ SetupAsked' /\ server' = server
      /\ secrets' = secrets /\ ldap' = ldap /\ wanted' = wanted /\ faults' = faults
      /\ \/ call.pc = "failed" /\ call' = Setup!At("secret", 1, Deadline)
         \/ call.pc = "bucketsFailed" /\ call' = Setup!At("bucket", 1, Deadline)
  BY DEF SetupInv, SetupAsked, Setup!Again, Setup!args
<1>2. SetupTyped'  BY <1>1, SetupNumbers DEF SetupTyped, InUsers, InBuckets, Setup!At
<1>3. UsersDone' /\ BucketsDone'
  BY <1>1 DEF UsersDone, BucketsDone, InUsers, InBuckets, Setup!At, SetupAsked, Setup!Usable, Setup!SetUp
<1> QED  BY <1>1, <1>2, <1>3 DEF SetupInv

LEMMA SetupNextInv == ASSUME SetupInv, [Setup!Next]_(Setup!vars) PROVE SetupInv'
<1>1. CASE UNCHANGED Setup!vars
  BY <1>1 DEF Setup!vars, Setup!args, SetupInv, SetupAsked, SetupTyped, UsersDone, BucketsDone, Setup!Usable, Setup!SetUp
<1> QED
  BY <1>1, SecretInv, AddUserInv, SetPolicyInv, MakeBucketInv, FinishInv, SetupAgainInv DEF Setup!Next

LEMMA SetupTypes == ASSUME SetupInv PROVE Setup!TypeOK
  BY SetupNumbers
  DEF SetupInv, SetupAsked, SetupTyped, UsersDone, BucketsDone, InUsers, InBuckets, Setup!TypeOK

LEMMA SetupDone == ASSUME SetupInv PROVE Setup!DoneMeansDone
  BY DEF SetupInv, UsersDone, BucketsDone, InBuckets, Setup!DoneMeansDone

-----------------------------------------------------------------------------
(* Labels.                                                                 *)
LEMMA LabelNumbers == MaxLabel \in Nat /\ MaxName \in Nat /\ "x" \in Alnum /\ "-" \in Punct
  BY OperatorsAssumption

(* What a conversion gives: it fits, and has no other characters.          *)
Labelled(v) == v \in Seq(Alnum \cup Punct) /\ Len(v) <= MaxLabel

(* What the label can be: the name or, from any other way it took, what    *)
(* the name converts to, which all setters of a pod's label make it.       *)
Carried(l) ==
  /\ l \in Seq(Label!Chars)
  /\ key = Label!Pod => Labelled(l)
  /\ ~ Label!EndsBadly(name) =>
       l \in {name, Label!ToLabelValue(name)} /\ (key = Label!Pod => l = Label!ToLabelValue(name))

LabelsInv ==
  /\ key \in {Label!Pod, Label!Drive, Label!Claim} /\ name \in Seq(Label!Chars)
  /\ DOMAIN value = Volumes /\ DOMAIN stored = Volumes
  /\ \A v \in Volumes :
       /\ value[v] # Label!NoLabel => Carried(value[v])
       /\ stored[v] # Label!NoLabel => Carried(stored[v]) /\ Label!IsValidLabelValue(stored[v])

LEMMA ReplacedParts ==
  ASSUME NEW S, NEW v \in Seq(S)
  PROVE  /\ Label!Replaced(v) \in Seq(Alnum \cup Punct) /\ Len(Label!Replaced(v)) = Len(v)
         /\ \A i \in 1 .. Len(v) :
              Label!Replaced(v)[i] = (IF v[i] \in Alnum THEN v[i] ELSE IF i # 1 /\ v[i] \notin Punct THEN "-" ELSE "x")
<1> DEFINE r == [i \in 1 .. Len(v) |->
                   IF v[i] \in Alnum THEN v[i] ELSE IF i # 1 /\ v[i] \notin Punct THEN "-" ELSE "x"]
<1>1. Len(v) \in Nat /\ DOMAIN v = 1 .. Len(v)  OBVIOUS
<1>2. Label!Replaced(v) = r  BY <1>1 DEF Label!Replaced
<1>3. \A i \in 1 .. Len(v) : r[i] \in Alnum \cup Punct  BY LabelNumbers
<1>4. r \in [1 .. Len(v) -> Alnum \cup Punct]  BY <1>3
<1>5. r \in Seq(Alnum \cup Punct) /\ Len(r) = Len(v)  BY <1>1, <1>4
<1> QED  BY <1>2, <1>5

LEMMA ValidIsSequence ==
  ASSUME NEW S, NEW v \in Seq(S), Label!IsValidLabelValue(v)
  PROVE  Labelled(v)
<1>1. Len(v) \in Nat /\ DOMAIN v = 1 .. Len(v) /\ Len(v) <= MaxLabel
  BY DEF Label!IsValidLabelValue
<1>2. \A i \in 1 .. Len(v) : v[i] \in Alnum \cup Punct  BY <1>1 DEF Label!IsValidLabelValue
<1>3. v \in Seq(Alnum \cup Punct)  BY <1>1, <1>2
<1> QED  BY <1>1, <1>3 DEF Labelled

LEMMA ConvertedFits ==
  ASSUME NEW S, NEW v \in Seq(S)
  PROVE  Labelled(Label!ToLabelValue(v))
<1>1. CASE Label!IsValidLabelValue(v)  BY <1>1, ValidIsSequence DEF Label!ToLabelValue
<1>2. CASE ~ Label!IsValidLabelValue(v)
  <2> DEFINE w == IF Len(v) > MaxLabel THEN SubSeq(v, 1, MaxLabel) ELSE v
  <2>1. w \in Seq(S) /\ Len(w) <= MaxLabel  BY LabelNumbers
  <2>2. Label!ToLabelValue(v) = Label!Replaced(w)
    BY <1>2 DEF Label!ToLabelValue, Label!normalizeLabelValue
  <2> HIDE DEF w
  <2> QED  BY <2>1, <2>2, ReplacedParts DEF Labelled
<1> QED  BY <1>1, <1>2

(* Converted again, whatever punctuation it begins or ends with is gone.   *)
LEMMA ConvertedTwiceIsValid ==
  ASSUME NEW v, Labelled(v)
  PROVE  Label!IsValidLabelValue(Label!ToLabelValue(v))
<1>1. CASE Label!IsValidLabelValue(v)  BY <1>1 DEF Label!ToLabelValue
<1>2. CASE ~ Label!IsValidLabelValue(v)
  <2> DEFINE r == Label!Replaced(v)
  <2>1. Len(v) \in Nat /\ Len(v) <= MaxLabel /\ v \in Seq(Alnum \cup Punct)  BY DEF Labelled
  <2>2. Label!ToLabelValue(v) = r
    BY <1>2, <2>1, LabelNumbers DEF Label!ToLabelValue, Label!normalizeLabelValue
  <2>3. /\ r \in Seq(Alnum \cup Punct) /\ Len(r) = Len(v)
        /\ \A i \in 1 .. Len(v) :
             r[i] = (IF v[i] \in Alnum THEN v[i] ELSE IF i # 1 /\ v[i] \notin Punct THEN "-" ELSE "x")
    BY <2>1, ReplacedParts
  <2>4. \A i \in 1 .. Len(v) : v[i] \in Alnum \/ v[i] \in Punct  BY <2>1
  <2> HIDE DEF r
  <2>5. \A i \in 1 .. Len(r) : r[i] \in Alnum  BY <2>3, <2>4, LabelNumbers
  <2>6. DOMAIN r = 1 .. Len(r) /\ Len(r) \in Nat /\ (r # <<>> => Len(r) >= 1)  BY <2>3
  <2>7. Label!IsValidLabelValue(r)  BY <2>1, <2>3, <2>5, <2>6 DEF Label!IsValidLabelValue
  <2> QED  BY <2>2, <2>7
<1> QED  BY <1>1, <1>2

(* A dash at the end comes of a character that labels have nowhere.        *)
LEMMA ConvertedUnlessEnd ==
  ASSUME NEW S, NEW v \in Seq(S), ~ Label!EndsBadly(v)
  PROVE  Label!IsValidLabelValue(Label!ToLabelValue(v))
<1>1. CASE Label!IsValidLabelValue(v)  BY <1>1 DEF Label!ToLabelValue
<1>2. CASE ~ Label!IsValidLabelValue(v)
  <2> DEFINE w == IF Len(v) > MaxLabel THEN SubSeq(v, 1, MaxLabel) ELSE v
             r == Label!Replaced(w)
  <2>1. w \in Seq(S) /\ Len(w) \in Nat /\ Len(w) <= MaxLabel  BY LabelNumbers
  <2>2. Len(w) > 1 => w[Len(w)] \in Alnum \cup Punct
    <3>1. CASE Len(v) > MaxLabel
      <4>1. Len(w) = MaxLabel /\ (MaxLabel > 1 => w[MaxLabel] = v[MaxLabel])  BY <3>1, LabelNumbers
      <4>2. MaxLabel > 1 => v[MaxLabel] \in Alnum \cup Punct  BY <3>1 DEF Label!EndsBadly
      <4> QED  BY <4>1, <4>2
    <3>2. CASE ~ Len(v) > MaxLabel
      <4>1. w = v  BY <3>2
      <4> QED  BY <3>2, <4>1 DEF Label!EndsBadly
    <3> QED  BY <3>1, <3>2
  <2>3. Label!ToLabelValue(v) = r  BY <1>2 DEF Label!ToLabelValue, Label!normalizeLabelValue
  <2> HIDE DEF w
  <2>4. /\ r \in Seq(Alnum \cup Punct) /\ Len(r) = Len(w)
        /\ \A i \in 1 .. Len(w) :
             r[i] = (IF w[i] \in Alnum THEN w[i] ELSE IF i # 1 /\ w[i] \notin Punct THEN "-" ELSE "x")
    BY <2>1, ReplacedParts
  <2> HIDE DEF r
  <2>5. Len(w) \in Nat  BY <2>1
  <2>6. ASSUME r # <<>>  PROVE r[1] \in Alnum /\ r[Len(r)] \in Alnum
    <3>1. Len(w) >= 1 /\ 1 \in 1 .. Len(w) /\ Len(w) \in 1 .. Len(w)  BY <2>1, <2>4, <2>6
    <3>2. r[1] \in Alnum  BY <2>4, <3>1, LabelNumbers
    <3>3. CASE Len(w) = 1  BY <2>4, <3>2, <3>3
    <3>4. CASE Len(w) > 1
      <4>1. w[Len(w)] \in Alnum \/ w[Len(w)] \in Punct  BY <2>2, <3>4
      <4>2. r[Len(w)] = (IF w[Len(w)] \in Alnum THEN w[Len(w)]
                         ELSE IF Len(w) # 1 /\ w[Len(w)] \notin Punct THEN "-" ELSE "x")
        BY <2>4, <3>1
      <4>3. r[Len(w)] \in Alnum  BY <4>1, <4>2, LabelNumbers
      <4> QED  BY <2>4, <3>2, <4>3
    <3>5. Len(w) = 1 \/ Len(w) > 1
      <4>1. \A n \in Nat : n >= 1 => n = 1 \/ n > 1  OBVIOUS
      <4> QED  BY <2>5, <3>1, <4>1
    <3> QED  BY <3>3, <3>4, <3>5
  <2>7. \A i \in DOMAIN r : r[i] \in Alnum \cup Punct  BY <2>4
  <2>8. Label!IsValidLabelValue(r)  BY <2>1, <2>4, <2>6, <2>7 DEF Label!IsValidLabelValue
  <2> QED  BY <2>3, <2>8
<1> QED  BY <1>1, <1>2

(* Of the name, or of what another object has, a conversion is the same.   *)
LEMMA ConvertedCarried ==
  ASSUME LabelsInv
  PROVE  /\ Carried(Label!ToLabelValue(name))
         /\ \A l : Carried(l) => Carried(Label!ToLabelValue(Label!getLabel(l)))
<1>1. \A l : Labelled(l) => l \in Seq(Label!Chars)
  <2>1. Alnum \cup Punct \subseteq Label!Chars  BY DEF Label!Chars
  <2> QED  BY <2>1 DEF Labelled
<1>2. Carried(Label!ToLabelValue(name))
  <2>1. Labelled(Label!ToLabelValue(name))  BY ConvertedFits DEF LabelsInv
  <2> QED  BY <1>1, <2>1 DEF Carried
<1>3. ASSUME NEW l, Carried(l) PROVE Carried(Label!ToLabelValue(Label!getLabel(l)))
  <2> DEFINE g == Label!getLabel(l)
  <2>1. g = Label!ToLabelValue(l) /\ l \in Seq(Label!Chars)  BY <1>3 DEF Label!getLabel, Carried
  <2>2. g \in Seq(Label!Chars)  BY <1>1, <2>1, ConvertedFits
  <2>3. Labelled(Label!ToLabelValue(g))  BY <2>2, ConvertedFits
  <2>4. ASSUME ~ Label!EndsBadly(name)
        PROVE  Label!ToLabelValue(g) = Label!ToLabelValue(name)
    <3>0. Label!IsValidLabelValue(Label!ToLabelValue(name))
      BY <2>4, ConvertedUnlessEnd DEF LabelsInv
    <3>1. Label!ToLabelValue(Label!ToLabelValue(name)) = Label!ToLabelValue(name)
      BY <3>0, Zenon DEF Label!ToLabelValue
    <3>2. g = Label!ToLabelValue(name)  BY <1>3, <2>1, <2>4, <3>1 DEF Carried
    <3> QED  BY <3>1, <3>2
  <2> QED  BY <1>1, <2>3, <2>4 DEF Carried
<1> QED  BY <1>2, <1>3

LEMMA LabelsInitInv == ASSUME Label!Init PROVE LabelsInv
<1>1. PICK n \in 0 .. MaxName : name \in [1 .. n -> Label!Chars]  BY DEF Label!Init, Label!Strings
<1>2. name \in Seq(Label!Chars)  BY <1>1, LabelNumbers
<1> QED  BY <1>2 DEF Label!Init, LabelsInv

LEMMA PutInv ==
  ASSUME LabelsInv, NEW v \in Volumes, NEW l, Carried(l), Label!Put(v, l)
  PROVE  LabelsInv'
<1>1. value' = [value EXCEPT ![v] = l] /\ key' = key /\ name' = name /\ stored' = stored
  BY DEF Label!Put
<1>2. \A w \in Volumes : value'[w] \in {value[w], l}  BY <1>1 DEF LabelsInv
<1>3. \A k : Carried(k) <=> Carried(k)'
  BY <1>1 DEF Carried, Labelled, Label!EndsBadly, Label!ToLabelValue, Label!IsValidLabelValue
<1> QED  BY <1>1, <1>2, <1>3 DEF LabelsInv, Label!IsValidLabelValue

LEMMA LabelsNextInv == ASSUME LabelsInv, [Label!Next]_(Label!vars) PROVE LabelsInv'
<1>1. CASE UNCHANGED Label!vars
  BY <1>1 DEF Label!vars, LabelsInv, Carried, Labelled, Label!IsValidLabelValue
<1>2. \A l \in {name} : key # Label!Pod => Carried(l)  BY DEF LabelsInv, Carried
<1>3. ASSUME NEW v \in Volumes, Label!NewDirectPVVolume(v) \/ Label!SetClaimID(v) PROVE LabelsInv'
  <2>1. Label!Put(v, name) /\ key # Label!Pod
    BY <1>3 DEF Label!NewDirectPVVolume, Label!SetClaimID, Label!Pod, Label!Drive, Label!Claim
  <2> QED  BY <1>2, <2>1, PutInv
<1>4. ASSUME NEW v \in Volumes, Label!SetLabel(v) PROVE LabelsInv'
  <2>1. CASE Label!Put(v, Label!ToLabelValue(name))  BY <2>1, ConvertedCarried, PutInv
  <2>2. ASSUME NEW w \in Volumes, value[w] # Label!NoLabel,
               Label!Put(v, Label!ToLabelValue(Label!getLabel(value[w])))
        PROVE  LabelsInv'
    <3>1. Carried(value[w])  BY <2>2 DEF LabelsInv
    <3> QED  BY <2>2, <3>1, ConvertedCarried, PutInv
  <2> QED  BY <1>4, <2>1, <2>2 DEF Label!SetLabel
<1>5. ASSUME NEW v \in Volumes, NEW w \in Volumes, Label!CopyLabels(v, w) PROVE LabelsInv'
  BY <1>5, PutInv DEF Label!CopyLabels, LabelsInv
<1>6. ASSUME NEW v \in Volumes, Label!Update(v) PROVE LabelsInv'
  <2>1. /\ stored' = [stored EXCEPT ![v] = value[v]] /\ key' = key /\ name' = name /\ value' = value
        /\ Carried(value[v]) /\ Label!IsValidLabelValue(value[v])
    BY <1>6 DEF Label!Update, LabelsInv
  <2>2. \A w \in Volumes : stored'[w] \in {stored[w], value[v]}  BY <2>1 DEF LabelsInv
  <2> QED  BY <2>1, <2>2 DEF LabelsInv, Carried, Labelled, Label!IsValidLabelValue, Label!ToLabelValue
<1>7. ASSUME NEW v \in Volumes, Label!Read(v) PROVE LabelsInv'
  BY <1>7, PutInv DEF Label!Read, LabelsInv
<1> QED  BY <1>1, <1>3, <1>4, <1>5, <1>6, <1>7 DEF Label!Next

LEMMA LabelsTypes == ASSUME LabelsInv PROVE Label!TypeOK
  BY DEF LabelsInv, Label!TypeOK

(* A getter converts once more what was converted.                         *)
LEMMA LabelsRead == ASSUME LabelsInv PROVE Label!ReadIsValid
  BY ConvertedTwiceIsValid DEF LabelsInv, Carried, Label!ReadIsValid, Label!getLabel

(* What all setters convert is the conversion of the name.                 *)
LEMMA LabelsValid == ASSUME LabelsInv PROVE Label!ConvertedIsValid
  BY ConvertedUnlessEnd DEF LabelsInv, Carried, Label!ConvertedIsValid

(* The server has the name, if that is valid, or what it converts to.      *)
LEMMA LabelsFound == ASSUME LabelsInv PROVE Label!FoundByName
<1> SUFFICES ASSUME ~ Label!EndsBadly(name),
                    NEW v \in Volumes, stored[v] # Label!NoLabel
             PROVE  stored[v] \in Label!ToLabelSelector(name) /\ Label!getLabel(stored[v]) = Label!ToLabelValue(name)
  BY DEF Label!FoundByName
<1>1. stored[v] \in {name, Label!ToLabelValue(name)} /\ Label!IsValidLabelValue(stored[v])
  BY DEF LabelsInv, Carried
<1>2. Label!ToLabelValue(stored[v]) = stored[v]  BY <1>1, Zenon DEF Label!ToLabelValue
<1>3. stored[v] = Label!ToLabelValue(name)  BY <1>1, <1>2
<1> QED  BY <1>2, <1>3 DEF Label!ToLabelSelector, Label!getLabel

-----------------------------------------------------------------------------
(* Conditions.  The latest error has a time that no other error exceeds,   *)
(* as times that lose their fractions keep their order; and every time has *)
(* passed, so that the next error gets a later one.                        *)
IsSequence(s) == \E S : s \in Seq(S)

IsError(c) ==
  /\ c = [type |-> c.type, reason |-> c.reason, time |-> c.time]
  /\ c.type \in Errors!ErrorTypes /\ c.time \in Nat

ErrorList(cs) ==
  /\ IsSequence(cs) /\ \A i \in 1 .. Len(cs) : IsError(cs[i])
  /\ \A i, j \in 1 .. Len(cs) : cs[i].type = cs[j].type => i = j

(* The text of an error that is not there, and of what a path leaves out.  *)
Blank == ""

LatestStands(cs, type) ==
  \/ type = Blank /\ cs = <<>>
  \/ \E k \in 1 .. Len(cs) :
       cs[k].type = type /\ \A i \in 1 .. Len(cs) : cs[i].time <= cs[k].time

(* The ticks that pass.                                                    *)
Limit == MaxSeconds * Ticks

ConditionsInv ==
  /\ now \in 0 .. Limit /\ latest \in Errors!ErrorTypes \cup {Blank} /\ wasLost \in BOOLEAN
  /\ ErrorList(conditions) /\ \A i \in 1 .. Len(conditions) : conditions[i].time < now
  /\ LatestStands(conditions, latest)
  /\ IsSequence(lost) /\ Len(lost) \in {0, 1} /\ (Len(lost) = 1 => lost[1].type = "Lost")
  /\ wasLost => Len(lost) = 1 /\ lost[1].reason = "DriveLost"

LEMMA ConditionsNumbers == Ticks \in Nat \ {0} /\ Limit \in Nat
<1>1. MaxSeconds \in Nat /\ Ticks \in Nat \ {0}  BY OperatorsAssumption
<1> QED  BY <1>1 DEF Limit

LEMMA SequenceParts ==
  ASSUME NEW s, IsSequence(s)
  PROVE  Len(s) \in Nat /\ DOMAIN s = 1 .. Len(s) /\ (s = <<>> <=> Len(s) = 0)
<1>1. PICK S : s \in Seq(S)  BY DEF IsSequence
<1> QED  BY <1>1

LEMMA ListParts ==
  ASSUME NEW cs, ErrorList(cs)
  PROVE  /\ Len(cs) \in Nat /\ DOMAIN cs = 1 .. Len(cs) /\ (cs = <<>> <=> Len(cs) = 0)
         /\ \A i \in 1 .. Len(cs) : IsError(cs[i]) /\ cs[i].type \in Errors!ErrorTypes /\ cs[i].time \in Nat
<1>1. IsSequence(cs)  BY DEF ErrorList
<1>2. \A i \in 1 .. Len(cs) : IsError(cs[i])  BY DEF ErrorList
<1> QED  BY <1>1, <1>2, SequenceParts DEF IsError

(* Setting a condition replaces the one of its type or adds it.            *)
LEMMA SetReplaces ==
  ASSUME NEW cs, ErrorList(cs), NEW c, IsError(c), NEW new, new = Errors!setCondition(cs, c)
  PROVE  /\ ErrorList(new)
         /\ \E k \in 1 .. Len(new) :
              new[k] = c /\ \A i \in 1 .. Len(new) : i # k => i \in 1 .. Len(cs) /\ new[i] = cs[i]
<1>0. /\ Len(cs) \in Nat /\ DOMAIN cs = 1 .. Len(cs)
      /\ \A i \in 1 .. Len(cs) : IsError(cs[i])
  BY ListParts
<1>1. IsError(c)  OBVIOUS
<1>2. PICK S : cs \in Seq(S)  BY DEF ErrorList, IsSequence
<1> DEFINE W == S \cup {c}
<1>3. cs \in Seq(W) /\ c \in W
  <2>1. S \subseteq W /\ c \in W  OBVIOUS
  <2> HIDE DEF W
  <2> QED  BY <1>2, <2>1
<1>4. \A i, j \in 1 .. Len(cs) : cs[i].type = cs[j].type => i = j  BY DEF ErrorList
<1> HIDE DEF W
<1>5. CASE \E i \in DOMAIN cs : cs[i].type = c.type
  <2>1. PICK k \in 1 .. Len(cs) : cs[k].type = c.type  BY <1>0, <1>5
  <2>2. new = [i \in 1 .. Len(cs) |-> IF cs[i].type = c.type THEN c ELSE cs[i]]
    BY <1>0, <1>5 DEF Errors!setCondition
  <2>3. \A i \in 1 .. Len(cs) : new[i] = IF i = k THEN c ELSE cs[i]  BY <1>4, <2>1, <2>2
  <2>4. \A i \in 1 .. Len(cs) : new[i] \in W  BY <1>3, <2>3
  <2>5. new \in [1 .. Len(cs) -> W]  BY <2>2, <2>4
  <2>6. new \in Seq(W) /\ Len(new) = Len(cs)  BY <1>0, <2>5
  <2>7. \A i, j \in 1 .. Len(new) : new[i].type = new[j].type => i = j
    <3>1. \A i \in 1 .. Len(cs) : new[i].type = cs[i].type  BY <1>1, <2>1, <2>3
    <3> QED  BY <1>4, <2>6, <3>1
  <2>8. \A i \in 1 .. Len(new) : IsError(new[i])  BY <1>0, <1>1, <2>3, <2>6
  <2>9. ErrorList(new)
    <3>1. IsSequence(new)  BY <2>6 DEF IsSequence
    <3> QED  BY <2>7, <2>8, <3>1 DEF ErrorList
  <2> QED  BY <2>1, <2>3, <2>6, <2>9
<1>6. CASE ~ \E i \in DOMAIN cs : cs[i].type = c.type
  <2>1. new = Append(cs, c)  BY <1>6 DEF Errors!setCondition
  <2>2. new \in Seq(W) /\ Len(new) = Len(cs) + 1 /\ new[Len(cs) + 1] = c
        /\ \A i \in 1 .. Len(cs) : new[i] = cs[i]
    BY <1>3, <2>1
  <2>3. \A i, j \in 1 .. Len(new) : new[i].type = new[j].type => i = j
    BY <1>0, <1>1, <1>4, <1>6, <2>2
  <2>4. Len(cs) + 1 \in 1 .. Len(new) /\ \A i \in 1 .. Len(new) : i # Len(cs) + 1 => i \in 1 .. Len(cs)
    BY <1>0, <2>2
  <2>5. ErrorList(new)
    <3>1. IsSequence(new)  BY <2>2 DEF IsSequence
    <3>2. \A i \in 1 .. Len(new) : IsError(new[i])  BY <1>0, <1>1, <2>2, <2>4
    <3> QED  BY <2>3, <3>1, <3>2 DEF ErrorList
  <2> QED  BY <2>2, <2>4, <2>5
<1> QED  BY <1>1, <1>5, <1>6

(* A time that loses its fraction does not grow, nor change its order.     *)
LEMMA Fractions ==
  ASSUME NEW x \in Nat, NEW y \in Nat, x <= y
  PROVE  /\ x - (x % Ticks) \in Nat /\ x - (x % Ticks) <= x
         /\ x - (x % Ticks) <= y - (y % Ticks)
<1>1. Ticks \in Nat \ {0}  BY ConditionsNumbers
<1>2. \A z \in Nat : z - (z % Ticks) = (z \div Ticks) * Ticks /\ z \div Ticks \in Nat
  BY <1>1
<1>3. x \div Ticks <= y \div Ticks  BY <1>1
<1>4. \A a, b \in Nat : a <= b => a * Ticks \in Nat /\ b * Ticks \in Nat /\ a * Ticks <= b * Ticks
  BY <1>1
<1>5. /\ x - (x % Ticks) = (x \div Ticks) * Ticks /\ (x \div Ticks) * Ticks \in Nat
      /\ y - (y % Ticks) = (y \div Ticks) * Ticks /\ (x \div Ticks) * Ticks <= (y \div Ticks) * Ticks
  BY <1>2, <1>3, <1>4
<1>6. x % Ticks \in Nat  BY <1>1
<1> QED  BY <1>5, <1>6

LEMMA ConditionsInitInv == ASSUME Errors!Init PROVE ConditionsInv
<1>1. conditions = <<>> /\ now = 0 /\ latest = Blank /\ wasLost = FALSE
  BY Zenon DEF Errors!Init, Blank
<1>2. ErrorList(conditions) /\ Len(conditions) = 0
  <2>1. conditions \in Seq({}) /\ Len(conditions) = 0  BY <1>1
  <2>2. IsSequence(conditions)  BY <2>1 DEF IsSequence
  <2>3. 1 .. Len(conditions) = {}  BY <2>1
  <2> QED  BY <2>1, <2>2, <2>3 DEF ErrorList
<1>3. lost = <<>> \/ lost = <<[type |-> "Lost", reason |-> "Other", time |-> 0]>>  BY Zenon DEF Errors!Init
<1>4. /\ IsSequence(lost)
      /\ Len(lost) \in {0, 1} /\ (Len(lost) = 1 => lost[1].type = "Lost")
  <2>1. CASE lost = <<>>
    <3>1. lost \in Seq({}) /\ Len(lost) = 0  BY <2>1
    <3> QED  BY <3>1 DEF IsSequence
  <2>2. CASE lost = <<[type |-> "Lost", reason |-> "Other", time |-> 0]>>
    <3> DEFINE c == [type |-> "Lost", reason |-> "Other", time |-> 0]
    <3>1. c.type = "Lost"  OBVIOUS
    <3> HIDE DEF c
    <3>2. lost = <<c>>  BY <2>2 DEF c
    <3>3. lost \in Seq({c}) /\ Len(lost) = 1 /\ lost[1] = c  BY <3>2
    <3> QED  BY <3>1, <3>3 DEF IsSequence
  <2> QED  BY <1>3, <2>1, <2>2
<1>5. \A i \in 1 .. Len(conditions) : conditions[i].time < now
  <2>1. 1 .. Len(conditions) = {}  BY <1>2
  <2> QED  BY <2>1
<1>6. now \in 0 .. Limit  BY <1>1, ConditionsNumbers
<1>7. LatestStands(conditions, latest)  BY <1>1 DEF LatestStands
<1>8. latest \in Errors!ErrorTypes \cup {Blank} /\ wasLost \in BOOLEAN /\ ~ wasLost  BY <1>1
<1> QED  BY <1>2, <1>4, <1>5, <1>6, <1>7, <1>8 DEF ConditionsInv

LEMMA SetErrorInv ==
  ASSUME ConditionsInv, NEW type \in Errors!ErrorTypes, Errors!setErrorCondition(type)
  PROVE  ConditionsInv'
<1>0. PICK c : c = Errors!Condition(type, "DriveHas" \o type)  OBVIOUS
<1>1. /\ now < Limit /\ now' = now + 1 /\ conditions' = Errors!setCondition(conditions, c)
      /\ latest' = type /\ UNCHANGED <<lost, wasLost>>
  BY <1>0 DEF Errors!setErrorCondition, Limit
<1>2. \E r : c = [type |-> type, reason |-> r, time |-> now]  BY <1>0 DEF Errors!Condition
<1>3. c.type = type /\ c.time = now /\ c = [type |-> c.type, reason |-> c.reason, time |-> c.time]  BY <1>2
<1>4. now \in Nat /\ now' \in 0 .. Limit  BY <1>1, ConditionsNumbers DEF ConditionsInv
<1>5. ErrorList(conditions)  BY DEF ConditionsInv
<1>6. /\ ErrorList(conditions')
      /\ \E k \in 1 .. Len(conditions') :
           /\ conditions'[k] = c
           /\ \A i \in 1 .. Len(conditions') : i # k => i \in 1 .. Len(conditions) /\ conditions'[i] = conditions[i]
  <2>1. IsError(c)  BY <1>3, <1>4 DEF IsError
  <2>2. conditions' = Errors!setCondition(conditions, c)  BY <1>1
  <2> QED  BY <1>5, <2>1, <2>2, SetReplaces
<1>7. PICK k \in 1 .. Len(conditions') :
        /\ conditions'[k] = c
        /\ \A i \in 1 .. Len(conditions') : i # k => i \in 1 .. Len(conditions) /\ conditions'[i] = conditions[i]
  BY <1>6
<1>8. \A i \in 1 .. Len(conditions) : conditions[i].time < now /\ conditions[i].time \in Nat
  BY <1>5, ListParts DEF ConditionsInv
<1>9. \A i \in 1 .. Len(conditions') : conditions'[i].time <= now /\ conditions'[i].time < now'
  BY <1>1, <1>3, <1>4, <1>7, <1>8
<1>10. LatestStands(conditions', type)  BY <1>3, <1>7, <1>9 DEF LatestStands
<1> QED  BY <1>1, <1>4, <1>6, <1>9, <1>10 DEF ConditionsInv, ErrorList, LatestStands

LEMMA LoseDriveInv == ASSUME ConditionsInv, Errors!LoseDrive PROVE ConditionsInv'
<1> DEFINE c == Errors!Condition("Lost", "DriveLost")
<1>1. /\ lost' = Errors!setCondition(lost, c) /\ wasLost' = TRUE /\ UNCHANGED <<conditions, now, latest>>
  BY DEF Errors!LoseDrive, Errors!SetDriveLost
<1>2. c.type = "Lost" /\ c.reason = "DriveLost"  BY DEF Errors!Condition
<1> HIDE DEF c
<1>3. PICK S : lost \in Seq(S)  BY DEF ConditionsInv, IsSequence
<1>4. Len(lost) \in {0, 1} /\ (Len(lost) = 1 => lost[1].type = "Lost") /\ DOMAIN lost = 1 .. Len(lost)
  BY SequenceParts DEF ConditionsInv
<1>5. lost' \in Seq({c}) /\ Len(lost') = 1 /\ lost'[1] = c
  <2>1. CASE Len(lost) = 0
    <3>1. lost' = Append(lost, c)  BY <1>1, <1>4, <2>1 DEF Errors!setCondition
    <3>2. lost \in Seq({c})  BY <1>3, <2>1
    <3> QED  BY <2>1, <3>1, <3>2
  <2>2. CASE Len(lost) = 1
    <3>1. 1 \in DOMAIN lost /\ DOMAIN lost = 1 .. 1  BY <1>4, <2>2
    <3>2. lost' = [i \in 1 .. 1 |-> IF lost[i].type = "Lost" THEN c ELSE lost[i]]
      BY <1>1, <1>2, <1>4, <2>2, <3>1 DEF Errors!setCondition
    <3>3. lost' \in [1 .. Len(lost) -> {c}] /\ Len(lost) \in Nat  BY <1>4, <2>2, <3>2
    <3>4. lost' \in Seq({c}) /\ Len(lost') = Len(lost)  BY <3>3
    <3> QED  BY <2>2, <3>4
  <2> QED  BY <1>4, <2>1, <2>2
<1> QED  BY <1>1, <1>2, <1>5 DEF ConditionsInv, ErrorList, LatestStands, IsSequence

LEMMA RoundTripInv == ASSUME ConditionsInv, Errors!RoundTrip PROVE ConditionsInv'
<1>1. /\ conditions' = [i \in DOMAIN conditions |-> [conditions[i] EXCEPT !.time = @ - (@ % Ticks)]]
      /\ UNCHANGED <<lost, now, latest, wasLost>>
  BY DEF Errors!RoundTrip
<1>2. ErrorList(conditions)  BY DEF ConditionsInv
<1> DEFINE W == {conditions'[i] : i \in 1 .. Len(conditions)}
<1>4. DOMAIN conditions = 1 .. Len(conditions) /\ Len(conditions) \in Nat  BY <1>2, ListParts
<1>5. ASSUME NEW i \in 1 .. Len(conditions)
      PROVE  /\ IsError(conditions'[i]) /\ conditions'[i] \in W
             /\ conditions'[i].type = conditions[i].type
             /\ conditions'[i].time = conditions[i].time - (conditions[i].time % Ticks)
             /\ conditions'[i].time \in Nat /\ conditions'[i].time <= conditions[i].time
  <2>1. IsError(conditions[i])  BY <1>2, ListParts
  <2>2. conditions[i].time \in Nat  BY <2>1 DEF IsError
  <2>3. /\ conditions[i].time - (conditions[i].time % Ticks) \in Nat
        /\ conditions[i].time - (conditions[i].time % Ticks) <= conditions[i].time
    BY <2>2, Fractions
  <2>4. conditions'[i] = [conditions[i] EXCEPT !.time = conditions[i].time - (conditions[i].time % Ticks)]
    BY <1>1, <1>4
  <2> QED  BY <2>1, <2>3, <2>4 DEF IsError
<1> HIDE DEF W
<1>6. conditions' \in Seq(W) /\ Len(conditions') = Len(conditions)
  <2>1. conditions' \in [1 .. Len(conditions) -> W]  BY <1>1, <1>4, <1>5
  <2> QED  BY <1>4, <2>1
<1>7. ErrorList(conditions')
  <2>1. IsSequence(conditions')  BY <1>6 DEF IsSequence
  <2>2. \A i, j \in 1 .. Len(conditions) : conditions[i].type = conditions[j].type => i = j
    BY <1>2 DEF ErrorList
  <2> QED  BY <1>5, <1>6, <2>1, <2>2 DEF ErrorList
<1>8. \A i \in 1 .. Len(conditions') : conditions'[i].time < now
  <2>1. now \in Nat  BY ConditionsNumbers DEF ConditionsInv
  <2>2. \A i \in 1 .. Len(conditions) : conditions[i].time < now /\ conditions[i].time \in Nat
    BY <1>2, ListParts DEF ConditionsInv
  <2> QED  BY <1>5, <1>6, <2>1, <2>2
<1>9. LatestStands(conditions', latest)
  <2>1. CASE latest = Blank /\ conditions = <<>>
    <3>1. Len(conditions) = 0  BY <1>2, <2>1, ListParts
    <3> QED  BY <1>6, <1>7, <2>1, <3>1, ListParts DEF LatestStands
  <2>2. CASE ~ (latest = Blank /\ conditions = <<>>)
    <3>1. PICK k \in 1 .. Len(conditions) :
            conditions[k].type = latest /\ \A i \in 1 .. Len(conditions) : conditions[i].time <= conditions[k].time
      BY <2>2 DEF ConditionsInv, LatestStands
    <3>2. \A i \in 1 .. Len(conditions) : conditions'[i].time <= conditions'[k].time
      <4> SUFFICES ASSUME NEW i \in 1 .. Len(conditions) PROVE conditions'[i].time <= conditions'[k].time
        OBVIOUS
      <4>1. conditions[i].time \in Nat /\ conditions[k].time \in Nat /\ conditions[i].time <= conditions[k].time
        BY <1>2, <3>1, ListParts
      <4>2. conditions[i].time - (conditions[i].time % Ticks) <= conditions[k].time - (conditions[k].time % Ticks)
        BY <4>1, Fractions
      <4> QED  BY <1>5, <4>2
    <3> QED  BY <1>5, <1>6, <2>2, <3>1, <3>2 DEF LatestStands
  <2> QED  BY <2>1, <2>2
<1>10. UNCHANGED <<now, latest, lost, wasLost>>  BY <1>1
<1> QED  BY <1>7, <1>8, <1>9, <1>10 DEF ConditionsInv, IsSequence

LEMMA ConditionsNextInv == ASSUME ConditionsInv, [Errors!Next]_(Errors!vars) PROVE ConditionsInv'
<1>1. CASE UNCHANGED Errors!vars
  BY <1>1 DEF Errors!vars, ConditionsInv, ErrorList, LatestStands, IsSequence
<1>2. CASE Errors!Tick
  <2>0. now < Limit /\ now' = now + 1 /\ UNCHANGED <<conditions, lost, latest, wasLost>>
    BY <1>2 DEF Errors!Tick, Limit
  <2>1. /\ now' \in 0 .. Limit /\ now' = now + 1 /\ now \in Nat
        /\ UNCHANGED <<conditions, lost, latest, wasLost>>
    BY <2>0, ConditionsNumbers DEF ConditionsInv
  <2>2. \A i \in 1 .. Len(conditions) : conditions[i].time \in Nat /\ conditions[i].time < now
    BY ListParts DEF ConditionsInv
  <2>3. \A i \in 1 .. Len(conditions) : conditions[i].time < now'
    BY <2>1, <2>2
  <2> QED  BY <2>1, <2>3 DEF ConditionsInv, ErrorList, LatestStands
<1> QED  BY <1>1, <1>2, SetErrorInv, LoseDriveInv, RoundTripInv DEF Errors!Next

LEMMA ConditionsTypes == ASSUME ConditionsInv PROVE Errors!TypeOK
<1>1. /\ DOMAIN conditions = 1 .. Len(conditions)
      /\ \A i, j \in 1 .. Len(conditions) : conditions[i].type = conditions[j].type => i = j
      /\ \A i \in 1 .. Len(conditions) : conditions[i].type \in Errors!ErrorTypes /\ conditions[i].time \in Nat
  BY ListParts DEF ConditionsInv, ErrorList
<1>2. DOMAIN lost = 1 .. Len(lost) /\ Len(lost) \in {0, 1}  BY SequenceParts DEF ConditionsInv
<1>3. Errors!IsInjective([i \in DOMAIN conditions |-> conditions[i].type])
  BY <1>1 DEF Errors!IsInjective
<1>4. Errors!IsInjective([i \in DOMAIN lost |-> lost[i].type])
  BY <1>2 DEF Errors!IsInjective
<1>5. \A i \in DOMAIN conditions : conditions[i].time <= now
  BY <1>1, ConditionsNumbers DEF ConditionsInv
<1>6. now \in 0 .. MaxSeconds * Ticks /\ latest \in Errors!ErrorTypes \cup {""}
  BY Zenon DEF ConditionsInv, Limit, Blank
<1> QED  BY <1>1, <1>3, <1>4, <1>5, <1>6, Zenon DEF Errors!TypeOK

LEMMA ConditionsLatest == ASSUME ConditionsInv PROVE Errors!LatestUnlessTied
<1> DEFINE Is(i) == conditions[i].type \in Errors!ErrorTypes
           Best(i) == /\ Is(i)
                      /\ \A j \in DOMAIN conditions : Is(j) =>
                           \/ conditions[j].time < conditions[i].time
                           \/ conditions[j].time = conditions[i].time /\ i <= j
<1> SUFFICES ASSUME ~ \E i, j \in DOMAIN conditions :
                        /\ i # j /\ conditions[i].type = latest
                        /\ conditions[i].time \div Ticks = conditions[j].time \div Ticks
             PROVE  Errors!GetLatestErrorConditionType = latest
  BY DEF Errors!LatestUnlessTied
<1>1. /\ DOMAIN conditions = 1 .. Len(conditions) /\ (conditions = <<>> <=> Len(conditions) = 0)
      /\ \A i \in 1 .. Len(conditions) : Is(i) /\ conditions[i].time \in Nat
  BY ListParts DEF ConditionsInv
<1>2. CASE latest = Blank /\ conditions = <<>>
  <2>1. DOMAIN conditions = {}  BY <1>1, <1>2
  <2>2. ~ \E i \in DOMAIN conditions : Best(i)  BY <2>1
  <2> QED  BY <1>2, <2>2, Zenon DEF Errors!GetLatestErrorConditionType, Blank
<1>3. CASE ~ (latest = Blank /\ conditions = <<>>)
  <2>1. PICK k \in 1 .. Len(conditions) :
          conditions[k].type = latest /\ \A i \in 1 .. Len(conditions) : conditions[i].time <= conditions[k].time
    BY <1>3 DEF ConditionsInv, LatestStands
  <2>2. \A i \in 1 .. Len(conditions) : i # k => conditions[i].time < conditions[k].time
    BY <1>1, <2>1
  <2>3. Best(k)  BY <1>1, <2>1, <2>2
  <2>4. \A i \in DOMAIN conditions : Best(i) => i = k  BY <1>1, <2>1, <2>2
  <2>5. (CHOOSE i \in DOMAIN conditions : Best(i)) = k  BY <1>1, <2>3, <2>4
  <2>6. \E i \in DOMAIN conditions : Best(i)  BY <1>1, <2>3
  <2>7. Errors!GetLatestErrorConditionType = conditions[CHOOSE i \in DOMAIN conditions : Best(i)].type
    BY <2>6, Zenon DEF Errors!GetLatestErrorConditionType
  <2> QED  BY <2>1, <2>5, <2>7
<1> QED  BY <1>2, <1>3

LEMMA ConditionsLost == ASSUME ConditionsInv PROVE Errors!LostStaysLost
<1> SUFFICES ASSUME wasLost PROVE \E i \in DOMAIN lost : lost[i].type = "Lost" /\ lost[i].reason = "DriveLost"
  BY DEF Errors!LostStaysLost, Errors!IsDriveLost
<1>1. Len(lost) = 1 /\ lost[1].type = "Lost" /\ lost[1].reason = "DriveLost" /\ DOMAIN lost = 1 .. Len(lost)
  BY SequenceParts DEF ConditionsInv
<1> QED  BY <1>1

-----------------------------------------------------------------------------
(* ExtractTar.  Of a proper archive the entries before the one at hand     *)
(* have been taken, so that a file that is there in whole has been counted *)
(* once; and what is there was asked for.                                  *)
Contents == [of : FileNames \cup {"none"}, whole : BOOLEAN]

Whole(n) == [of |-> n, whole |-> TRUE]

(* The entries that are behind, and the files that are not there in whole. *)
Taken == IF tarPc = "file" THEN entry - 1 ELSE entry
Missing == {k \in 1 .. Len(files) : disk[Base(files[k])] # Whole(files[k])}

TarTyped ==
  /\ files \in Seq(FileNames) /\ archive \in Seq(Tar!Headers)
  /\ disk \in [Tar!Bases -> Contents]
  /\ tarPc \in {"open", "next", "file", "nil", "error"}
  /\ entry \in 0 .. Len(archive)

TarInv ==
  /\ TarTyped
  /\ tarPc = "file" => entry # 0 /\ \E k \in 1 .. Len(files) : files[k] = archive[entry].name
  /\ tarPc = "open" => \A b \in Tar!Bases : disk[b] = Tar!Absent
  /\ tarPc # "open" => success \in Int /\ Len(files) - Taken <= success /\ success <= Len(files)
  /\ tarPc = "nil" => success = 0
  /\ \A b \in Tar!Bases : disk[b] # Tar!Absent =>
       /\ \E k \in 1 .. Len(files) : Base(files[k]) = b /\ disk[b].of = files[k]
       /\ \E j \in 1 .. Taken : disk[b].of = archive[j].name
  /\ Tar!Proper /\ tarPc \in {"next", "file", "nil"} => success = Cardinality(Missing)

LEMMA UpToSequences == ASSUME NEW S, NEW n \in Nat, NEW s \in Tar!UpTo(S, n) PROVE s \in Seq(S)
<1>1. PICK k \in 0 .. n : s \in [1 .. k -> S]  BY DEF Tar!UpTo
<1> QED  BY <1>1

LEMMA TarLengths ==
  ASSUME TarTyped
  PROVE  /\ Len(files) \in Nat /\ DOMAIN files = 1 .. Len(files)
         /\ \A k \in 1 .. Len(files) : files[k] \in FileNames /\ Base(files[k]) \in Tar!Bases
         /\ Len(archive) \in Nat /\ DOMAIN archive = 1 .. Len(archive)
         /\ \A k \in 1 .. Len(archive) : archive[k].name \in FileNames
<1>1. \A k \in 1 .. Len(archive) : archive[k] \in Tar!Headers  BY DEF TarTyped
<1>2. \A k \in 1 .. Len(archive) : archive[k].name \in FileNames  BY <1>1 DEF Tar!Headers
<1>3. \A k \in 1 .. Len(files) : files[k] \in FileNames  BY DEF TarTyped
<1>4. \A k \in 1 .. Len(files) : Base(files[k]) \in Tar!Bases  BY <1>3 DEF Tar!Bases
<1> QED  BY <1>2, <1>3, <1>4 DEF TarTyped

LEMMA ContentsDiffer ==
  /\ Tar!Absent \in Contents /\ \A n : Whole(n) # Tar!Absent /\ Whole(n).of = n
  /\ \A n \in FileNames, w \in BOOLEAN :
       [of |-> n, whole |-> w] \in Contents /\ [of |-> n, whole |-> w].of = n
  BY DEF Contents, Whole, Tar!Absent

LEMMA MissingNumber ==
  ASSUME Len(files) \in Nat
  PROVE  IsFiniteSet(Missing) /\ Cardinality(Missing) \in Nat
<1>1. IsFiniteSet(1 .. Len(files))  BY FS_Interval
<1>2. Missing \subseteq 1 .. Len(files)  BY DEF Missing
<1>3. IsFiniteSet(Missing)  BY <1>1, <1>2, FS_Subset
<1> QED  BY <1>3, FS_CardinalityType

LEMMA TarInitInv == ASSUME Tar!Init PROVE TarInv
<1>1. files \in Seq(FileNames) /\ archive \in Seq(Tar!Headers)
  BY OperatorsAssumption, UpToSequences DEF Tar!Init
<1>2. disk = [b \in Tar!Bases |-> Tar!Absent] /\ tarPc = "open" /\ entry = 0  BY DEF Tar!Init
<1>3. Len(archive) \in Nat  BY <1>1
<1> QED  BY <1>1, <1>2, <1>3, ContentsDiffer DEF TarInv, TarTyped

LEMMA OpenInv == ASSUME TarInv, Tar!Open PROVE TarInv'
<1>1. /\ tarPc = "open" /\ tarPc' \in {"next", "error"} /\ success' = Len(files)
      /\ UNCHANGED <<files, archive, disk, entry>>
  BY DEF Tar!Open, Tar!args
<1>2. TarTyped'  BY <1>1 DEF TarInv, TarTyped
<1>3. \A b \in Tar!Bases : disk[b] = Tar!Absent  BY <1>1 DEF TarInv
<1>4. Len(files) \in Nat /\ \A k \in 1 .. Len(files) : Base(files[k]) \in Tar!Bases
  BY TarLengths DEF TarInv
<1>5. Missing' = 1 .. Len(files)
  <2>1. \A k \in 1 .. Len(files) : disk[Base(files[k])] # Whole(files[k])
    BY <1>3, <1>4, ContentsDiffer
  <2> QED  BY <1>1, <2>1 DEF Missing
<1>6. Cardinality(Missing') = Len(files)
  <2> DEFINE n == Len(files)
  <2>1. n \in Int /\ n \in Nat  BY <1>4
  <2> HIDE DEF n
  <2>2. Cardinality(1 .. n) = IF 1 > n THEN 0 ELSE n - 1 + 1  BY <2>1, FS_Interval
  <2>3. Cardinality(1 .. n) = n  BY <2>1, <2>2
  <2> QED  BY <1>5, <2>3 DEF n
<1>7. entry \in Nat /\ Taken' = entry  BY <1>1 DEF TarInv, TarTyped, Taken
<1> QED  BY <1>1, <1>2, <1>3, <1>4, <1>6, <1>7 DEF TarInv

LEMMA EndOfArchiveInv == ASSUME TarInv, Tar!EndOfArchive PROVE TarInv'
<1>1. /\ tarPc = "next" /\ tarPc' = (IF success = 0 THEN "nil" ELSE "error")
      /\ UNCHANGED <<files, archive, disk, entry, success>>
  BY DEF Tar!EndOfArchive, Tar!args
<1>2. TarTyped'  BY <1>1 DEF TarInv, TarTyped
<1>3. Taken' = Taken /\ Missing' = Missing  BY <1>1 DEF Taken, Missing
<1>4. Tar!Proper' <=> Tar!Proper  BY <1>1 DEF Tar!Proper, Tar!Injective, Tar!NameOf
<1> QED  BY <1>1, <1>2, <1>3, <1>4 DEF TarInv

LEMMA NextHeaderInv == ASSUME TarInv, Tar!NextHeader PROVE TarInv'
<1>1. /\ tarPc = "next" /\ entry < Len(archive)
      /\ \/ /\ entry' = entry + 1
            /\ tarPc' = IF archive[entry + 1].reg /\ Tar!find(archive[entry + 1].name) THEN "file" ELSE "next"
         \/ entry' = entry /\ tarPc' = "error"
      /\ UNCHANGED <<files, archive, disk, success>>
  BY DEF Tar!NextHeader, Tar!args
<1>2. /\ Len(files) \in Nat /\ DOMAIN files = 1 .. Len(files)
      /\ Len(archive) \in Nat /\ entry \in Nat
  BY TarLengths DEF TarInv, TarTyped
<1>3. TarTyped'  BY <1>1, <1>2 DEF TarInv, TarTyped
<1>4. Missing' = Missing  BY <1>1 DEF Missing
<1>5. Tar!Proper' <=> Tar!Proper  BY <1>1 DEF Tar!Proper, Tar!Injective, Tar!NameOf
<1>6. Taken = entry /\ Taken' \in {entry, entry + 1}  BY <1>1, <1>2 DEF Taken
<1>7. 1 .. Taken \subseteq 1 .. Taken'  BY <1>2, <1>6
<1>8. \A b \in Tar!Bases : disk[b] # Tar!Absent =>
        /\ \E k \in 1 .. Len(files) : Base(files[k]) = b /\ disk[b].of = files[k]
        /\ \E j \in 1 .. Taken : disk[b].of = archive[j].name
  BY DEF TarInv
<1>9. \A b \in Tar!Bases : disk[b] # Tar!Absent => \E j \in 1 .. Taken' : disk[b].of = archive[j].name
  BY <1>7, <1>8
<1>10. success \in Int /\ Len(files) - Taken' <= success /\ success <= Len(files)
  BY <1>1, <1>2, <1>6 DEF TarInv
<1>11. tarPc' = "file" => entry' # 0 /\ \E k \in 1 .. Len(files) : files[k] = archive[entry'].name
  BY <1>1, <1>2 DEF Tar!find
<1>12. Tar!Proper => success = Cardinality(Missing)  BY <1>1 DEF TarInv
<1> QED  BY <1>1, <1>3, <1>4, <1>5, <1>8, <1>9, <1>10, <1>11, <1>12 DEF TarInv

(* The file of a proper archive that is copied was not there in whole, as  *)
(* its name comes once; and no other file goes where it goes.              *)
LEMMA CopyMissing ==
  ASSUME TarInv, tarPc = "file", Tar!Proper,
         disk' = [disk EXCEPT ![Base(archive[entry].name)] = Whole(archive[entry].name)],
         UNCHANGED files
  PROVE  Cardinality(Missing') = Cardinality(Missing) - 1
<1> DEFINE n == archive[entry].name
<1>1. PICK k \in 1 .. Len(files) : files[k] = n  BY DEF TarInv
<1>2. /\ Len(files) \in Nat /\ DOMAIN files = 1 .. Len(files) /\ DOMAIN archive = 1 .. Len(archive)
      /\ \A m \in 1 .. Len(files) : Base(files[m]) \in Tar!Bases
      /\ Len(archive) \in Nat /\ entry \in 1 .. Len(archive) /\ Taken = entry - 1
  BY TarLengths DEF TarInv, TarTyped, Taken
<1>3. /\ \A j, m \in 1 .. Len(archive) : archive[j].name = archive[m].name => j = m
      /\ \A j, m \in 1 .. Len(files) : Base(files[j]) = Base(files[m]) => j = m
  BY <1>2 DEF Tar!Proper, Tar!Injective, Tar!NameOf
<1>4. k \in Missing
  <2> SUFFICES ASSUME disk[Base(n)] = Whole(n) PROVE FALSE  BY <1>1 DEF Missing
  <2>1. Base(n) \in Tar!Bases /\ disk[Base(n)] # Tar!Absent /\ disk[Base(n)].of = n
    BY <1>1, <1>2, ContentsDiffer
  <2>2. PICK j \in 1 .. Taken : n = archive[j].name  BY <2>1 DEF TarInv
  <2>3. j \in 1 .. Len(archive) /\ j # entry  BY <1>2, <2>2
  <2> QED  BY <1>2, <1>3, <2>2, <2>3
<1>5. disk \in [Tar!Bases -> Contents] /\ disk' = [disk EXCEPT ![Base(n)] = Whole(n)]
  BY DEF TarInv, TarTyped
<1> HIDE DEF n
<1>6. ASSUME NEW m \in 1 .. Len(files)
      PROVE  disk'[Base(files[m])] = IF m = k THEN Whole(files[m]) ELSE disk[Base(files[m])]
  BY <1>1, <1>2, <1>3, <1>5
<1>7. Missing' = Missing \ {k}
  <2>1. Missing' = {m \in 1 .. Len(files) : disk'[Base(files[m])] # Whole(files[m])}
    BY DEF Missing, Whole
  <2>2. \A m \in 1 .. Len(files) :
          disk'[Base(files[m])] # Whole(files[m]) <=> disk[Base(files[m])] # Whole(files[m]) /\ m # k
    BY <1>6
  <2> QED  BY <2>1, <2>2 DEF Missing
<1> QED  BY <1>2, <1>4, <1>7, MissingNumber, FS_RemoveElement

LEMMA CopyWritten ==
  ASSUME TarInv, tarPc = "file", NEW w \in BOOLEAN,
         disk' = [disk EXCEPT ![Base(archive[entry].name)] = [of |-> archive[entry].name, whole |-> w]]
  PROVE  /\ disk' \in [Tar!Bases -> Contents]
         /\ \A b \in Tar!Bases : disk'[b] # Tar!Absent =>
              /\ \E k \in 1 .. Len(files) : Base(files[k]) = b /\ disk'[b].of = files[k]
              /\ \E j \in 1 .. entry : disk'[b].of = archive[j].name
<1> DEFINE n == archive[entry].name
           d == [of |-> n, whole |-> w]
<1>1. PICK k \in 1 .. Len(files) : files[k] = n  BY DEF TarInv
<1>2. /\ n \in FileNames /\ Base(n) \in Tar!Bases /\ entry \in Nat \ {0} /\ Taken = entry - 1
      /\ disk \in [Tar!Bases -> Contents]
  BY <1>1, TarLengths DEF TarInv, TarTyped, Taken
<1>3. d \in Contents /\ d.of = n  BY <1>2, ContentsDiffer
<1>4. disk' = [disk EXCEPT ![Base(n)] = d]  OBVIOUS
<1>5. n = archive[entry].name  OBVIOUS
<1>6. \A b \in Tar!Bases : disk[b] # Tar!Absent =>
        /\ \E m \in 1 .. Len(files) : Base(files[m]) = b /\ disk[b].of = files[m]
        /\ \E j \in 1 .. Taken : disk[b].of = archive[j].name
  BY DEF TarInv
<1> HIDE DEF n, d
<1>7. disk' \in [Tar!Bases -> Contents] /\ \A b \in Tar!Bases : disk'[b] = IF b = Base(n) THEN d ELSE disk[b]
  BY <1>2, <1>3, <1>4
<1>8. 1 .. Taken \subseteq 1 .. entry /\ entry \in 1 .. entry  BY <1>2
<1> QED  BY <1>1, <1>3, <1>5, <1>6, <1>7, <1>8

LEMMA CopyFileInv == ASSUME TarInv, Tar!Copy PROVE TarInv'
<1> DEFINE n == archive[entry].name
<1>1. tarPc = "file" /\ UNCHANGED <<files, archive, entry>>  BY DEF Tar!Copy, Tar!args
<1>2. /\ entry \in Nat /\ Taken = entry - 1 /\ success \in Int /\ Len(files) \in Nat
      /\ Len(files) - Taken <= success /\ success <= Len(files)
  BY <1>1, TarLengths DEF TarInv, TarTyped, Taken
<1>3. Tar!Proper' <=> Tar!Proper  BY <1>1 DEF Tar!Proper, Tar!Injective, Tar!NameOf
<1>4. CASE UNCHANGED <<disk, success>> /\ tarPc' = "error"
  <2>1. TarTyped'  BY <1>1, <1>4 DEF TarInv, TarTyped
  <2>2. Taken' = entry /\ 1 .. Taken \subseteq 1 .. entry  BY <1>1, <1>2, <1>4 DEF Taken
  <2>3. \A b \in Tar!Bases : disk[b] # Tar!Absent =>
          /\ \E k \in 1 .. Len(files) : Base(files[k]) = b /\ disk[b].of = files[k]
          /\ \E j \in 1 .. entry : disk[b].of = archive[j].name
    BY <2>2 DEF TarInv
  <2>4. Len(files) - Taken' <= success  BY <1>2, <2>2
  <2> QED  BY <1>1, <1>2, <1>4, <2>1, <2>2, <2>3, <2>4 DEF TarInv
<1>5. ASSUME NEW w \in BOOLEAN,
             disk' = [disk EXCEPT ![Base(n)] = [of |-> n, whole |-> w]],
             success' = IF w THEN success - 1 ELSE success,
             tarPc' = IF w THEN "next" ELSE "error"
      PROVE  TarInv'
  <2>1. /\ disk' \in [Tar!Bases -> Contents]
        /\ \A b \in Tar!Bases : disk'[b] # Tar!Absent =>
             /\ \E k \in 1 .. Len(files) : Base(files[k]) = b /\ disk'[b].of = files[k]
             /\ \E j \in 1 .. entry : disk'[b].of = archive[j].name
    BY <1>1, <1>5, CopyWritten
  <2>2. tarPc' \in {"next", "error"}  BY <1>5
  <2>3. TarTyped'  BY <1>1, <2>1, <2>2 DEF TarInv, TarTyped
  <2>4. Taken' = entry  BY <1>1, <2>2 DEF Taken
  <2>5. success' \in Int /\ Len(files) - Taken' <= success' /\ success' <= Len(files)
    BY <1>2, <1>5, <2>4
  <2>6. Tar!Proper' /\ tarPc' \in {"next", "file", "nil"} => success' = Cardinality(Missing')
    <3> SUFFICES ASSUME Tar!Proper, tarPc' \in {"next", "file", "nil"} PROVE success' = Cardinality(Missing')
      BY <1>3
    <3>1. w = TRUE  BY <1>5
    <3>2. disk' = [disk EXCEPT ![Base(n)] = Whole(n)]  BY <1>5, <3>1 DEF Whole
    <3>3. Cardinality(Missing') = Cardinality(Missing) - 1  BY <1>1, <3>2, CopyMissing
    <3>4. success = Cardinality(Missing)  BY <1>1 DEF TarInv
    <3> QED  BY <1>5, <3>1, <3>3, <3>4
  <2> QED  BY <1>1, <2>1, <2>2, <2>3, <2>4, <2>5, <2>6 DEF TarInv
<1> QED  BY <1>4, <1>5 DEF Tar!Copy

LEMMA TarNextInv == ASSUME TarInv, [Tar!Next]_(Tar!vars) PROVE TarInv'
<1>1. CASE UNCHANGED Tar!vars
  <2>1. UNCHANGED <<files, archive, disk, tarPc, entry, success>>  BY <1>1 DEF Tar!vars
  <2> QED
    BY <2>1 DEF TarInv, TarTyped, Taken, Missing, Tar!Proper, Tar!Injective, Tar!NameOf
<1> QED  BY <1>1, OpenInv, EndOfArchiveInv, NextHeaderInv, CopyFileInv DEF Tar!Next

LEMMA TarTypes == ASSUME TarInv PROVE Tar!TypeOK
<1>1. /\ Len(files) \in Nat /\ entry \in 0 .. Len(archive) /\ Taken \in {entry - 1, entry} /\ entry \in Nat
      /\ disk \in [Tar!Bases -> Contents] /\ tarPc \in {"open", "next", "file", "nil", "error"}
  BY TarLengths DEF TarInv, TarTyped, Taken
<1>2. tarPc = "open" \/ success \in (Len(files) - entry) .. Len(files)
  BY <1>1 DEF TarInv
<1> QED  BY <1>1, <1>2 DEF Tar!TypeOK, Contents

LEMMA TarNilMeansExtracted == ASSUME TarInv PROVE Tar!NilMeansExtracted
<1> SUFFICES ASSUME Tar!Proper, tarPc = "nil"
             PROVE  /\ \A k \in DOMAIN files : Tar!Extracted(files[k])
                    /\ \A b \in Tar!Bases : disk[b] # Tar!Absent => \E k \in DOMAIN files : Base(files[k]) = b
  BY DEF Tar!NilMeansExtracted
<1>1. Len(files) \in Nat /\ DOMAIN files = 1 .. Len(files)  BY TarLengths DEF TarInv
<1>2. Cardinality(Missing) = 0  BY DEF TarInv
<1>3. Missing = {}  BY <1>1, <1>2, MissingNumber, FS_EmptySet
<1>4. \A k \in 1 .. Len(files) : Tar!Extracted(files[k])
  BY <1>3 DEF Missing, Whole, Tar!Extracted
<1> QED  BY <1>1, <1>4 DEF TarInv

(* Sets have the cardinality they have in ExtractTar.                      *)
LEMMA TarCardinality == \A S : Tar!Cardinality(S) = Cardinality(S)
  BY Zenon DEF Cardinality, Tar!Cardinality

LEMMA TarCountIsRight == ASSUME TarInv PROVE Tar!CountIsRight
<1>1. DOMAIN files = 1 .. Len(files)  BY TarLengths DEF TarInv
<1>2. Missing = {k \in DOMAIN files : ~ Tar!Extracted(files[k])}
  BY <1>1 DEF Missing, Whole, Tar!Extracted
<1>3. Tar!Proper /\ tarPc \in {"next", "nil"} => success = Cardinality(Missing)  BY DEF TarInv
<1> QED  BY <1>2, <1>3, TarCardinality, Zenon DEF Tar!CountIsRight

-----------------------------------------------------------------------------
(* Clients.  Every object has a spec and a status; a request reaches what  *)
(* its path names.                                                         *)
IsObject(o) == o = [spec |-> o.spec, status |-> o.status]

CallsInv == \A p \in DOMAIN store : IsObject(store[p])

LEMMA RequestParts ==
  ASSUME NEW verb, NEW r, NEW ns, NEW n, NEW sub, NEW select,
         NEW q, q = Calls!Request(verb, r, ns, n, sub, select)
  PROVE  /\ q.resource = r /\ q.name = n /\ q.sub = sub /\ q.select = select
         /\ q.ns = IF r.namespaced THEN ns ELSE Blank
<1>1. q = [verb |-> verb, resource |-> r, ns |-> IF r.namespaced THEN ns ELSE Blank, name |-> n,
           sub |-> sub, select |-> select]
  BY Zenon DEF Calls!Request, Blank
<1> QED  BY <1>1

LEMMA AddressedParts ==
  ASSUME NEW q, NEW p, p \in Calls!Addressed(q)
  PROVE  p \in DOMAIN store /\ p.resource = q.resource /\ (q.ns # Blank => p.ns = q.ns)
  BY Zenon DEF Calls!Addressed, Blank

(* What a write and a removal leave.                                       *)
LEMMA WriteParts ==
  ASSUME CallsInv, NEW q, NEW new, Calls!Write(q, new)
  PROVE  /\ CallsInv' /\ DOMAIN store' = DOMAIN store
         /\ \A p \in DOMAIN store :
              /\ q.sub = "status" => store'[p].spec = store[p].spec
              /\ q.resource.status /\ q.sub # "status" => store'[p].status = store[p].status
<1>1. store' = [p \in DOMAIN store |->
                  IF Calls!Served(q) /\ p \in Calls!Addressed(q) THEN Calls!Written(q, store[p], new) ELSE store[p]]
  BY DEF Calls!Write
<1>2. ASSUME NEW o, IsObject(o), NEW w, w = Calls!Written(q, o, new)
      PROVE  /\ IsObject(w) /\ (q.sub = "status" => w.spec = o.spec)
             /\ q.resource.status /\ q.sub # "status" => w.status = o.status
  BY <1>2 DEF Calls!Written, IsObject
<1>3. DOMAIN store' = DOMAIN store
      /\ \A p \in DOMAIN store : store'[p] \in {store[p], Calls!Written(q, store[p], new)}
  BY <1>1
<1> QED  BY <1>2, <1>3 DEF CallsInv

LEMMA RemoveParts ==
  ASSUME CallsInv, NEW q, Calls!Remove(q)
  PROVE  CallsInv' /\ DOMAIN store' = DOMAIN store \ Calls!Addressed(q)
<1>1. store' = [p \in DOMAIN store \ Calls!Addressed(q) |-> store[p]]
  BY DEF Calls!Remove, Calls!Without
<1> QED  BY <1>1 DEF CallsInv, IsObject

LEMMA CallsInitInv == ASSUME Calls!Init PROVE CallsInv
<1>1. DOMAIN store = {}  BY Zenon DEF Calls!Init
<1> QED  BY <1>1 DEF CallsInv

LEMMA CreateInv ==
  ASSUME CallsInv, NEW k, NEW ns, NEW n, Calls!DoCreate(k, ns, n)
  PROVE  CallsInv'
<1> DEFINE q == Calls!Create(kinds[k], ns, n)
<1>0. PICK p : p = Calls!Path(q.resource, q.ns, q.name)  OBVIOUS
<1> DEFINE Made(s, t) == [x \in DOMAIN store \cup {p} |-> IF x = p THEN [spec |-> s, status |-> t] ELSE store[x]]
<1>1. PICK s, t : store' = Made(s, t)
  <2>1. \E s \in {0, 1}, t \in IF q.resource.status THEN {0} ELSE {0, 1} : store' = Made(s, t)
    BY <1>0 DEF Calls!DoCreate
  <2> HIDE DEF Made, q
  <2> QED  BY <2>1, Zenon
<1>2. \A x \in DOMAIN store' : store'[x] = [spec |-> s, status |-> t] \/ (x \in DOMAIN store /\ store'[x] = store[x])
  BY <1>1
<1>3. IsObject([spec |-> s, status |-> t])  BY DEF IsObject
<1> QED  BY <1>2, <1>3 DEF CallsInv, IsObject

LEMMA CallsNextInv == ASSUME CallsInv, [Calls!Next]_(Calls!vars) PROVE CallsInv'
<1>1. CASE UNCHANGED store  BY <1>1 DEF CallsInv, IsObject
<1>2. CASE \E q, new : Calls!Write(q, new)  BY <1>2, WriteParts
<1>3. CASE \E q : Calls!Remove(q)  BY <1>3, RemoveParts
<1>4. CASE \E k, ns, n : Calls!DoCreate(k, ns, n)  BY <1>4, CreateInv
<1>5. \/ UNCHANGED store \/ \E q, new : Calls!Write(q, new)
      \/ \E q : Calls!Remove(q)
      \/ \E k, ns, n : Calls!DoCreate(k, ns, n)
  <2>1. CASE UNCHANGED Calls!vars  BY <2>1 DEF Calls!vars
  <2>2. CASE Calls!Mutate  BY <2>2 DEF Calls!Mutate
  <2>3. CASE Calls!DoUpdate  BY <2>3, Zenon DEF Calls!DoUpdate
  <2>4. CASE Calls!DoUpdateStatus  BY <2>4, Zenon DEF Calls!DoUpdateStatus
  <2>5. ASSUME NEW ns, NEW select, Calls!DoList(ns, select) PROVE UNCHANGED store
    BY <2>5, Zenon DEF Calls!DoList
  <2>6. ASSUME NEW ns, NEW select, Calls!DoDeleteCollection(ns, select) PROVE \E q : Calls!Remove(q)
    BY <2>6, Zenon DEF Calls!DoDeleteCollection
  <2>7. ASSUME NEW ns, NEW n, Calls!DoGet(ns, n) PROVE UNCHANGED store
    BY <2>7, Zenon DEF Calls!DoGet
  <2>8. ASSUME NEW ns, NEW n, Calls!DoDelete(ns, n) PROVE \E q : Calls!Remove(q)
    BY <2>8, Zenon DEF Calls!DoDelete
  <2>9. ASSUME NEW ns, NEW n, NEW sub, Calls!DoPatch(ns, n, sub) PROVE \E q, new : Calls!Write(q, new)
    BY <2>9, Zenon DEF Calls!DoPatch
  <2> QED
    BY <2>1, <2>2, <2>3, <2>4, <2>5, <2>6, <2>7, <2>8, <2>9, Zenon DEF Calls!Next
<1> QED  BY <1>1, <1>2, <1>3, <1>4, <1>5

(* Where statuses are written on a path of their own.                      *)
LEMMA CallsWritersApart == ASSUME CallsInv PROVE Calls!WritersApart
<1>1. ASSUME Calls!DoUpdateStatus PROVE Calls!Kept("spec")
  <2> DEFINE q == Calls!UpdateStatus(held.path.resource, held.path.ns, held.path.name)
  <2>1. Calls!Write(q, held)  BY <1>1, Zenon DEF Calls!DoUpdateStatus
  <2>2. PICK no : q = Calls!Request("PUT", held.path.resource, held.path.ns, held.path.name, "status", no)
    BY Zenon DEF Calls!UpdateStatus
  <2> HIDE DEF q
  <2>3. q.sub = "status"  BY <2>2, RequestParts
  <2> QED  BY <2>1, <2>3, WriteParts DEF Calls!Kept
<1>2. ASSUME held.path.resource.status, Calls!DoUpdate PROVE Calls!Kept("status")
  <2> DEFINE q == Calls!Update(held.path.resource, held.path.ns, held.path.name)
  <2>1. Calls!Write(q, held)  BY <1>2, Zenon DEF Calls!DoUpdate
  <2>2. PICK no : q = Calls!Request("PUT", held.path.resource, held.path.ns, held.path.name, Blank, no)
    BY Zenon DEF Calls!Update, Blank
  <2>3. Blank # "status"  BY Zenon DEF Blank
  <2> HIDE DEF q
  <2>4. q.sub # "status" /\ q.resource = held.path.resource  BY <2>2, <2>3, RequestParts
  <2> QED  BY <1>2, <2>1, <2>4, WriteParts DEF Calls!Kept
<1> QED  BY <1>1, <1>2 DEF Calls!WritersApart

(* What a DeleteCollection takes is on its path, which is that of a List.  *)
LEMMA CallsScopeKept == ASSUME CallsInv PROVE Calls!ScopeKept
<1> SUFFICES ASSUME NEW ns \in Namespaces, NEW select \in BOOLEAN, Calls!DoDeleteCollection(ns, select),
                    NEW p \in DOMAIN store \ DOMAIN store'
             PROVE  p.resource = kinds[1] /\ (p.resource.namespaced => p.ns = ns)
  BY DEF Calls!ScopeKept
<1> DEFINE q == Calls!DeleteCollection(kinds[1], ns, select)
<1>1. Calls!Remove(q)  BY Zenon DEF Calls!DoDeleteCollection
<1>2. q = Calls!Request("DELETE", kinds[1], ns, Blank, Blank, select)
  BY Zenon DEF Calls!DeleteCollection, Blank
<1>3. ns # Blank  BY NamespacesAssumption, Zenon DEF Blank
<1> HIDE DEF q
<1>4. q.resource = kinds[1] /\ q.ns = IF kinds[1].namespaced THEN ns ELSE Blank  BY <1>2, RequestParts
<1>5. p \in Calls!Addressed(q)  BY <1>1, RemoveParts
<1>6. p.resource = q.resource /\ (q.ns # Blank => p.ns = q.ns)  BY <1>5, AddressedParts
<1> QED  BY <1>3, <1>4, <1>6

LEMMA CallsDeletesListed == ASSUME CallsInv PROVE Calls!DeletesWhatIsListed
<1> SUFFICES ASSUME NEW ns \in Namespaces, NEW select \in BOOLEAN, Calls!DoDeleteCollection(ns, select)
             PROVE  DOMAIN store \ DOMAIN store' \subseteq Calls!Addressed(Calls!List(kinds[1], ns, select))
  BY DEF Calls!DeletesWhatIsListed
<1> DEFINE q == Calls!DeleteCollection(kinds[1], ns, select)
           l == Calls!List(kinds[1], ns, select)
<1>1. Calls!Remove(q)  BY Zenon DEF Calls!DoDeleteCollection
<1>2. /\ q = Calls!Request("DELETE", kinds[1], ns, Blank, Blank, select)
      /\ l = Calls!Request("GET", kinds[1], ns, Blank, Blank, select)
  BY Zenon DEF Calls!DeleteCollection, Calls!List, Blank
<1> HIDE DEF q, l
<1>3. q.resource = l.resource /\ q.ns = l.ns /\ q.name = l.name /\ q.select = l.select
  BY <1>2, RequestParts
<1>4. Calls!Addressed(q) = Calls!Addressed(l)  BY <1>3, Zenon DEF Calls!Addressed
<1>5. DOMAIN store' = DOMAIN store \ Calls!Addressed(q)  BY <1>1, RemoveParts
<1> QED  BY <1>4, <1>5 DEF l

-----------------------------------------------------------------------------
(* TenantEnv.  Variables of equal maps have equal values; what is not in   *)
(* either is unset in both.                                                *)
IsVariable(v) ==
  v = [name |-> v.name, value |-> v.value, from |-> v.from] /\ v.name \in Vars /\ v.from # "unset"

IsEnv(env) == Len(env) \in Nat /\ DOMAIN env = 1 .. Len(env) /\ \A i \in 1 .. Len(env) : IsVariable(env[i])

EnvInv ==
  /\ \A c \in DOMAIN expected : IsEnv(expected[c])
  /\ \A c \in DOMAIN existing : IsEnv(existing[c])
  /\ DOMAIN expected \subseteq Containers

(* The variable of a name after which none has it.                         *)
IsLast(env, n, i) == i \in DOMAIN env /\ env[i].name = n /\ \A j \in DOMAIN env : j > i => env[j].name # n

LEMMA AssumedEnv ==
  /\ MaxVars \in Nat /\ Sidecar \notin Containers /\ "none" # "unset" /\ "unset" \notin Refs
  BY OperatorsAssumption

LEMMA EnvsAreEnvs == ASSUME NEW env \in Env!Envs PROVE IsEnv(env)
<1>1. PICK k \in 0 .. MaxVars : env \in [1 .. k -> Env!EnvVars]  BY DEF Env!Envs
<1>2. k \in Nat  BY <1>1, AssumedEnv
<1>3. Len(env) = k /\ DOMAIN env = 1 .. k  BY <1>1, <1>2
<1>4. \A v \in Env!EnvVars : IsVariable(v)
  <2> SUFFICES ASSUME NEW v \in Env!EnvVars PROVE IsVariable(v)  OBVIOUS
  <2>1. PICK W : \/ v \in [name : Vars, value : EnvValues, from : {"none"}]
                 \/ v \in [name : Vars, value : W, from : Refs]
    <3>1. \E W : W = {""}  OBVIOUS
    <3> QED  BY <3>1, Zenon DEF Env!EnvVars
  <2> QED  BY <2>1, AssumedEnv DEF IsVariable
<1> QED  BY <1>1, <1>2, <1>3, <1>4 DEF IsEnv

(* A name that is there stands somewhere last, by induction.               *)
LEMMA HasLast ==
  ASSUME NEW env, IsEnv(env), NEW n, \E i \in DOMAIN env : env[i].name = n
  PROVE  \E i : IsLast(env, n, i)
<1> DEFINE Has(m) == (\E i \in 1 .. m : env[i].name = n) =>
                        \E i \in 1 .. m : env[i].name = n /\ \A j \in 1 .. m : j > i => env[j].name # n
           S == {m \in Nat : Has(m)}
<1>1. 0 \in S  OBVIOUS
<1>2. \A m \in Nat : m \in S => m + 1 \in S
  <2> SUFFICES ASSUME NEW m \in Nat, Has(m), \E i \in 1 .. m + 1 : env[i].name = n
               PROVE  \E i \in 1 .. m + 1 : env[i].name = n /\ \A j \in 1 .. m + 1 : j > i => env[j].name # n
    OBVIOUS
  <2>1. CASE env[m + 1].name = n
    <3>1. m + 1 \in 1 .. m + 1 /\ \A j \in 1 .. m + 1 : ~ j > m + 1  OBVIOUS
    <3> QED  BY <2>1, <3>1
  <2>2. CASE env[m + 1].name # n
    <3>1. PICK i \in 1 .. m : env[i].name = n /\ \A j \in 1 .. m : j > i => env[j].name # n  BY <2>2
    <3>2. i \in 1 .. m + 1 /\ \A j \in 1 .. m + 1 : j \in 1 .. m \/ j = m + 1  OBVIOUS
    <3> QED  BY <2>2, <3>1, <3>2
  <2> QED  BY <2>1, <2>2
<1> HIDE DEF S
<1>3. Len(env) \in S  BY <1>1, <1>2, Drive!NatSetInduction DEF IsEnv
<1> QED  BY <1>3 DEF S, IsLast, IsEnv

LEMMA OneLast ==
  ASSUME NEW env, IsEnv(env), NEW n, NEW i, IsLast(env, n, i)
  PROVE  Env!ToMap(env)[n] = env[i].value /\ Env!Effective(env, n) = env[i]
<1> DEFINE Is == {j \in DOMAIN env : env[j].name = n}
           Stands(j) == env[j].name = n /\ \A k \in DOMAIN env : k > j => env[k].name # n
<1>1. DOMAIN env = 1 .. Len(env) /\ i \in DOMAIN env /\ Stands(i)  BY DEF IsEnv, IsLast
<1>2. (CHOOSE j \in Is : \A k \in Is : k <= j) = i
  <2>1. i \in Is /\ \A k \in Is : k <= i  BY <1>1 DEF IsEnv
  <2>2. \A j \in Is : (\A k \in Is : k <= j) => j = i  BY <1>1, <2>1 DEF IsEnv
  <2> QED  BY <2>1, <2>2
<1>3. (CHOOSE j \in DOMAIN env : Stands(j)) = i
  <2>1. \A j \in DOMAIN env : Stands(j) => j = i  BY <1>1 DEF IsEnv
  <2> QED  BY <1>1, <2>1
<1>4. n \in {env[j].name : j \in DOMAIN env}  BY <1>1
<1>5. Env!ToMap(env)[n] = env[CHOOSE j \in Is : \A k \in Is : k <= j].value
  BY <1>4 DEF Env!ToMap
<1>6. Env!Effective(env, n) = env[CHOOSE j \in DOMAIN env : Stands(j)]
  <2>1. \E j \in DOMAIN env : Stands(j)  BY <1>1
  <2> QED  BY <2>1, Zenon DEF Env!Effective
<1> QED  BY <1>2, <1>3, <1>5, <1>6

LEMMA NoLast ==
  ASSUME NEW env, NEW n, ~ \E i \in DOMAIN env : env[i].name = n
  PROVE  Env!Effective(env, n) = [name |-> n, value |-> "", from |-> "unset"]
  BY Zenon DEF Env!Effective

LEMMA EnvInitInv == ASSUME Env!Init PROVE EnvInv
<1>1. DOMAIN existing = {}  BY Zenon DEF Env!Init
<1>2. expected \in Env!Subsets  BY DEF Env!Init
<1>3. DOMAIN expected \subseteq Containers /\ \A c \in DOMAIN expected : expected[c] \in Env!Envs
  BY <1>2 DEF Env!Subsets
<1> QED  BY <1>1, <1>3, EnvsAreEnvs DEF EnvInv

LEMMA EnvNextInv == ASSUME EnvInv, [Env!Next]_(Env!vars) PROVE EnvInv'
<1>1. CASE UNCHANGED Env!vars
  <2>1. expected' = expected /\ existing' = existing  BY <1>1 DEF Env!vars
  <2> QED  BY <2>1 DEF EnvInv, IsEnv, IsVariable
<1>2. CASE Env!Expect
  <2>1. expected' \in Env!Subsets /\ existing' = existing  BY <1>2 DEF Env!Expect
  <2>2. DOMAIN expected' \subseteq Containers /\ \A c \in DOMAIN expected' : expected'[c] \in Env!Envs
    BY <2>1 DEF Env!Subsets
  <2> QED  BY <2>1, <2>2, EnvsAreEnvs DEF EnvInv
<1>3. CASE Env!RollOut
  <2>1. existing' = [c \in DOMAIN expected \cup (IF hook THEN {Sidecar} ELSE {}) |->
                       IF c = Sidecar THEN <<>> ELSE expected[c]] /\ expected' = expected
    BY <1>3 DEF Env!RollOut
  <2>2. IsEnv(<<>>)
    <3>1. Len(<<>>) = 0 /\ DOMAIN <<>> = {}  OBVIOUS
    <3> QED  BY <3>1 DEF IsEnv
  <2>3. \A c \in DOMAIN existing' : existing'[c] = <<>> \/ (c \in DOMAIN expected /\ existing'[c] = expected[c])
    <3> DEFINE D == DOMAIN expected \cup (IF hook THEN {Sidecar} ELSE {})
    <3>1. \A c \in D : c = Sidecar \/ c \in DOMAIN expected  OBVIOUS
    <3>2. existing' = [c \in D |-> IF c = Sidecar THEN <<>> ELSE expected[c]]  BY <2>1
    <3> HIDE DEF D
    <3>3. DOMAIN existing' = D  BY <3>2
    <3>4. \A c \in D : existing'[c] = IF c = Sidecar THEN <<>> ELSE expected[c]  BY <3>2
    <3> QED  BY <3>1, <3>3, <3>4
  <2>4. \A c \in DOMAIN expected : IsEnv(expected[c])  BY DEF EnvInv
  <2>5. \A c \in DOMAIN existing' : IsEnv(existing'[c])  BY <2>2, <2>3, <2>4
  <2> QED  BY <2>1, <2>5 DEF EnvInv
<1> QED  BY <1>1, <1>2, <1>3 DEF Env!Next

LEMMA EnvCurrent == ASSUME EnvInv PROVE Env!ValuesCurrent
<1> SUFFICES ASSUME ~ Env!IsContainersEnvUpdated(existing, expected),
                    NEW c \in DOMAIN expected, NEW n \in Vars,
                    Env!Effective(existing[c], n).from \in {"none", "unset"},
                    Env!Effective(expected[c], n).from \in {"none", "unset"}
             PROVE  Env!Effective(existing[c], n) = Env!Effective(expected[c], n)
  BY Zenon DEF Env!ValuesCurrent
<1> DEFINE old == existing[c]
           new == expected[c]
<1>1. c \in DOMAIN existing /\ Env!ToMap(old) = Env!ToMap(new)
  BY Zenon DEF Env!IsContainersEnvUpdated, Env!IsEnvUpdated
<1>2. IsEnv(old) /\ IsEnv(new)  BY <1>1 DEF EnvInv
<1>3. /\ Env!Effective(old, n).from \in {"none", "unset"}
      /\ Env!Effective(new, n).from \in {"none", "unset"}
  OBVIOUS
<1> HIDE DEF old, new
<1>4. (\E i \in DOMAIN old : old[i].name = n) <=> (\E i \in DOMAIN new : new[i].name = n)
  <2>1. \A env : DOMAIN Env!ToMap(env) = {env[i].name : i \in DOMAIN env}  BY DEF Env!ToMap
  <2>2. n \in {old[i].name : i \in DOMAIN old} <=> n \in {new[i].name : i \in DOMAIN new}  BY <1>1, <2>1
  <2> QED  BY <2>2
<1>5. CASE ~ \E i \in DOMAIN old : old[i].name = n
  BY <1>4, <1>5, NoLast, Zenon DEF old, new
<1>6. CASE \E i \in DOMAIN old : old[i].name = n
  <2>1. PICK i : IsLast(old, n, i)  BY <1>2, <1>6, HasLast
  <2>2. PICK j : IsLast(new, n, j)  BY <1>2, <1>4, <1>6, HasLast
  <2>3. Env!ToMap(old)[n] = old[i].value /\ Env!Effective(old, n) = old[i]  BY <1>2, <2>1, OneLast
  <2>4. Env!ToMap(new)[n] = new[j].value /\ Env!Effective(new, n) = new[j]  BY <1>2, <2>2, OneLast
  <2>5. IsVariable(old[i]) /\ IsVariable(new[j]) /\ old[i].name = n /\ new[j].name = n
    BY <1>2, <2>1, <2>2 DEF IsEnv, IsLast
  <2>6. old[i].value = new[j].value  BY <1>1, <2>3, <2>4
  <2>7. old[i].from = "none" /\ new[j].from = "none"  BY <1>3, <2>3, <2>4, <2>5 DEF IsVariable
  <2>8. old[i] = new[j]  BY <2>5, <2>6, <2>7 DEF IsVariable
  <2> QED  BY <2>3, <2>4, <2>8 DEF old, new
<1> QED  BY <1>5, <1>6 DEF old, new

LEMMA EnvRolledOut == ASSUME EnvInv PROVE Env!RolledOut
<1> SUFFICES ASSUME Env!RollOut PROVE ~ Env!IsContainersEnvUpdated(existing', expected')
  BY DEF Env!RolledOut
<1>1. existing' = [c \in DOMAIN expected \cup (IF hook THEN {Sidecar} ELSE {}) |->
                     IF c = Sidecar THEN <<>> ELSE expected[c]] /\ expected' = expected
  BY DEF Env!RollOut
<1>2. \A c \in DOMAIN expected' : c \in DOMAIN existing' /\ existing'[c] = expected'[c]
  BY <1>1, AssumedEnv DEF EnvInv
<1> QED  BY <1>2, Zenon DEF Env!IsContainersEnvUpdated, Env!IsEnvUpdated

-----------------------------------------------------------------------------
(* TenantOptions.  The tenant that nineinfra made has no certificates      *)
(* until somebody edits them; and what EnsureDefaults has gone over since  *)
(* the last edit has pods of KES, and an account where it needs one.       *)
OptionsInv ==
  /\ own => tenant.requestAutoCert = "false" /\ tenant.externalCert = FALSE
  /\ tenant.kes.enabled => tenant.kes.replicas \in Nat
  /\ defaulted /\ tenant.kes.enabled =>
       /\ tenant.kes.replicas # 0
       /\ tenant.kes.gcpSecret = "given" => tenant.kes.account # "empty"
  /\ tenant = [configuration |-> tenant.configuration, credsSecret |-> tenant.credsSecret,
               requestAutoCert |-> tenant.requestAutoCert, externalCert |-> tenant.externalCert,
               kes |-> tenant.kes]
  /\ tenant.kes = [enabled |-> tenant.kes.enabled, replicas |-> tenant.kes.replicas,
                   gcpSecret |-> tenant.kes.gcpSecret, gcpPool |-> tenant.kes.gcpPool,
                   account |-> tenant.kes.account]

LEMMA OptionsInitInv == ASSUME Options!Init PROVE OptionsInv
  BY DEF Options!Init, Options!constructMinioTenant, Options!NoKES, OptionsInv

LEMMA EditInv ==
  ASSUME OptionsInv, Options!EditSecrets \/ Options!EditKES \/ Options!EditCerts
  PROVE  OptionsInv'
<1>1. CASE Options!EditSecrets
  <2>1. PICK c, d \in Options!Given : tenant' = [tenant EXCEPT !.configuration = c, !.credsSecret = d]
    BY <1>1 DEF Options!EditSecrets, Options!Changed
  <2>2. defaulted' = FALSE /\ own' = own  BY <1>1 DEF Options!EditSecrets, Options!Changed
  <2> QED  BY <2>1, <2>2 DEF OptionsInv
<1>2. CASE Options!EditKES
  <2>1. PICK k \in Options!KES \cup {Options!NoKES} : tenant' = [tenant EXCEPT !.kes = k]
    BY <1>2 DEF Options!EditKES, Options!Changed
  <2>2. defaulted' = FALSE /\ own' = own  BY <1>2 DEF Options!EditKES, Options!Changed
  <2>3. /\ k = [enabled |-> k.enabled, replicas |-> k.replicas, gcpSecret |-> k.gcpSecret,
                gcpPool |-> k.gcpPool, account |-> k.account]
        /\ k.replicas \in Nat
    <3>1. CASE k \in Options!KES
      <4>1. \A r \in 0 .. MaxReplicas : r \in Nat  OBVIOUS
      <4>2. k.replicas \in 0 .. MaxReplicas  BY <3>1 DEF Options!KES
      <4>3. k = [enabled |-> k.enabled, replicas |-> k.replicas, gcpSecret |-> k.gcpSecret,
                 gcpPool |-> k.gcpPool, account |-> k.account]
        BY <3>1 DEF Options!KES
      <4> QED  BY <4>1, <4>2, <4>3
    <3>2. CASE k = Options!NoKES  BY <3>2 DEF Options!NoKES
    <3> QED  BY <3>1, <3>2
  <2> QED  BY <2>1, <2>2, <2>3 DEF OptionsInv
<1>3. CASE Options!EditCerts
  <2>1. PICK a \in {"nil", "true", "false"}, e \in BOOLEAN :
          tenant' = [tenant EXCEPT !.requestAutoCert = a, !.externalCert = e]
    BY <1>3 DEF Options!EditCerts, Options!Changed
  <2>2. defaulted' = FALSE /\ own' = FALSE  BY <1>3 DEF Options!EditCerts, Options!Changed
  <2> QED  BY <2>1, <2>2 DEF OptionsInv
<1> QED  BY <1>1, <1>2, <1>3

LEMMA DefaultInv == ASSUME OptionsInv, Options!Default PROVE OptionsInv'
<1>1. tenant' = Options!EnsureDefaults(tenant) /\ own' = own  BY DEF Options!Default
<1>2. CASE ~ tenant.kes.enabled
  <2>1. tenant' = tenant  BY <1>1, <1>2 DEF Options!EnsureDefaults
  <2> QED  BY <1>1, <1>2, <2>1 DEF OptionsInv
<1>3. CASE tenant.kes.enabled
  <2> DEFINE n == IF tenant.kes.replicas = 0 THEN 2 ELSE tenant.kes.replicas
             a == IF tenant.kes.gcpSecret = "given" /\ tenant.kes.account = "empty"
                  THEN "default" ELSE tenant.kes.account
  <2>1. tenant' = [tenant EXCEPT !.kes.replicas = n, !.kes.account = a]
    BY <1>1, <1>3
    DEF Options!EnsureDefaults, Options!DefaultKESReplicas, Options!HasGCPCredentialSecretForKES, OptionsInv
  <2>2. n \in Nat \ {0} /\ (tenant.kes.gcpSecret = "given" => a # "empty")  BY <1>3 DEF OptionsInv
  <2> HIDE DEF n, a
  <2>3. /\ tenant'.requestAutoCert = tenant.requestAutoCert /\ tenant'.externalCert = tenant.externalCert
        /\ tenant'.kes = [tenant.kes EXCEPT !.replicas = n, !.account = a]
        /\ tenant' = [tenant EXCEPT !.kes = tenant'.kes]
    BY <2>1 DEF OptionsInv
  <2> QED  BY <1>1, <2>2, <2>3 DEF OptionsInv
<1> QED  BY <1>2, <1>3

LEMMA OptionsNextInv == ASSUME OptionsInv, [Options!Next]_(Options!vars) PROVE OptionsInv'
<1>1. CASE UNCHANGED Options!vars  BY <1>1 DEF Options!vars, OptionsInv
<1> QED  BY <1>1, EditInv, DefaultInv DEF Options!Next

LEMMA OptionsEndpoint == ASSUME OptionsInv PROVE Options!EndpointAgrees
  BY DEF OptionsInv, Options!EndpointAgrees, Options!MinIOServerEndpoint, Options!minioFullEndpoint,
         Options!TLS, Options!AutoCert

(* Sets have the cardinality they have in TenantOptions.                   *)
LEMMA OptionsCardinality == \A S : Options!Cardinality(S) = Cardinality(S)
  BY Zenon DEF Cardinality, Options!Cardinality

(* The service is one host, the first pod another.                         *)
LEMMA OptionsKES == ASSUME OptionsInv PROVE Options!KESComplete
<1> SUFFICES ASSUME defaulted, Options!Validate(tenant), tenant.kes.enabled
             PROVE  /\ Options!Cardinality(Options!KESHosts(tenant)) > 1
                    /\ Options!GetKESEnvVars(tenant) # {} =>
                         tenant.kes.gcpPool = "given" /\ tenant.kes.account # "empty"
  BY DEF Options!KESComplete
<1> DEFINE n == tenant.kes.replicas
           pods == {<<"pod", k>> : k \in 0 .. n - 1}
           hosts == Options!KESHosts(tenant)
           two == {<<"pod", 0>>, <<"service", 0>>}
<1>1. n \in Nat \ {0}  BY DEF OptionsInv
<1>2. hosts = pods \cup {<<"service", 0>>}  BY DEF Options!KESHosts
<1>3. IsFiniteSet(hosts)
  <2> HIDE DEF n
  <2>1. n - 1 \in Int /\ IsFiniteSet(0 .. n - 1)  BY <1>1, FS_Interval
  <2> DEFINE pod == [k \in 0 .. n - 1 |-> <<"pod", k>>]
  <2>2. pod \in Surjection(0 .. n - 1, pods)  BY DEF Surjection
  <2> HIDE DEF pod, pods, hosts
  <2>3. IsFiniteSet(pods)  BY <2>1, <2>2, FS_Surjection
  <2> QED  BY <1>2, <2>3, FS_AddElement
<1>4. two \subseteq hosts
  <2>1. 0 \in 0 .. n - 1  BY <1>1
  <2> QED  BY <1>2, <2>1
<1>5. IsFiniteSet(two) /\ Cardinality(two) = 2
  <2>1. <<"pod", 0>> # <<"service", 0>>  OBVIOUS
  <2> DEFINE p == <<"pod", 0>>  s == <<"service", 0>>
  <2>2. p # s /\ two = {p} \cup {s}  BY <2>1
  <2> HIDE DEF p, s, two
  <2>3. IsFiniteSet({p}) /\ Cardinality({p}) = 1  BY FS_Singleton
  <2>4. s \notin {p}  BY <2>2
  <2>5. IsFiniteSet({p} \cup {s}) /\ Cardinality({p} \cup {s}) = Cardinality({p}) + 1
    BY <2>3, <2>4, FS_AddElement
  <2> QED  BY <2>2, <2>3, <2>5
<1> HIDE DEF n, pods, hosts, two
<1>6. Cardinality(hosts) > 1
  <2>1. Cardinality(two) <= Cardinality(hosts) /\ Cardinality(hosts) \in Nat
    BY <1>3, <1>4, FS_Subset, FS_CardinalityType
  <2> QED  BY <1>5, <2>1
<1>7. Options!Cardinality(hosts) > 1
  <2>1. Options!Cardinality(hosts) = Cardinality(hosts)  BY OptionsCardinality
  <2> QED  BY <1>6, <2>1
<1>8. Options!GetKESEnvVars(tenant) # {} => tenant.kes.gcpPool = "given" /\ tenant.kes.account # "empty"
  BY DEF OptionsInv, Options!Validate, Options!GetKESEnvVars,
         Options!HasGCPCredentialSecretForKES, Options!HasGCPWorkloadIdentityPoolForKES
<1> QED  BY <1>7, <1>8 DEF hosts

-----------------------------------------------------------------------------
(* MinioConfig.  The lines are of the four kinds, and the loop over them   *)
(* leaves of each key, and of the two names of the credentials, the last   *)
(* value an entry gave it.                                                 *)
IsLine(line) ==
  /\ line.form \in {"blank", "malformed", "comment", "entry"}
  /\ line.form = "entry" => line.key \in Config!Keys

ConfigInv == IsSequence(file) /\ \A i \in 1 .. Len(file) : IsLine(file[i])

(* The entry is one for k.                                                 *)
KeysOf(k) ==
  IF k = "accesskey" THEN Config!UserKeys ELSE IF k = "secretkey" THEN Config!PasswordKeys ELSE {k}

Readable == Config!Keys \cup {"accesskey", "secretkey"}

Sets(line, k) == line.form = "entry" /\ line.key \in KeysOf(k)

LEMMA LinesAreLines == ASSUME NEW line \in Config!Lines PROVE IsLine(line)
<1>1. CASE line \in Config!Unread
  <2>1. line = Config!Line("blank", Blank, "none", Blank) \/ line = Config!Line("malformed", Blank, "none", Blank)
    BY <1>1, Zenon DEF Blank, Config!Unread
  <2> QED  BY <2>1 DEF Config!Line, IsLine
<1>2. CASE line \in Config!Entries  BY <1>2 DEF Config!Entries, Config!Line, IsLine
<1>3. CASE line \in Config!Comments  BY <1>3 DEF Config!Comments, Config!Line, IsLine
<1> QED  BY <1>1, <1>2, <1>3 DEF Config!Lines

LEMMA NineinfraLines ==
  /\ IsSequence(Config!NineinfraConfig) /\ Len(Config!NineinfraConfig) = 2
  /\ IsLine(Config!NineinfraConfig[1]) /\ Sets(Config!NineinfraConfig[1], "accesskey")
  /\ IsLine(Config!NineinfraConfig[2]) /\ Sets(Config!NineinfraConfig[2], "secretkey")
<1> DEFINE user == Config!Entry("MINIO_ACCESS_KEY", "nineKey")
           password == Config!Entry("MINIO_SECRET_KEY", "nineSecret")
<1>1. /\ user.form = "entry" /\ user.key = "MINIO_ACCESS_KEY"
      /\ password.form = "entry" /\ password.key = "MINIO_SECRET_KEY"
  BY DEF Config!Entry, Config!Line
<1>2. Config!NineinfraConfig = <<user, password>>  BY DEF Config!NineinfraConfig
<1> HIDE DEF user, password
<1> DEFINE both == <<user, password>>
<1>3. both \in Seq({user, password}) /\ Len(both) = 2 /\ both[1] = user /\ both[2] = password
  OBVIOUS
<1> HIDE DEF both
<1>4. IsSequence(both)  BY <1>3 DEF IsSequence
<1>5. /\ IsLine(user) /\ Sets(user, "accesskey")
      /\ IsLine(password) /\ Sets(password, "secretkey")
  BY <1>1 DEF IsLine, Sets, KeysOf, Config!Keys, Config!UserKeys, Config!PasswordKeys
<1> QED  BY <1>2, <1>3, <1>4, <1>5 DEF both

LEMMA ConfigInitInv == ASSUME Config!Init PROVE ConfigInv
<1>1. CASE file = <<>>
  <2>1. file \in Seq({}) /\ Len(file) = 0  BY <1>1
  <2>2. IsSequence(file) /\ 1 .. Len(file) = {}  BY <2>1 DEF IsSequence
  <2> QED  BY <2>2 DEF ConfigInv
<1>2. CASE file = Config!NineinfraConfig
  <2>1. \A i \in 1 .. Len(file) : i = 1 \/ i = 2  BY <1>2, NineinfraLines
  <2> QED  BY <1>2, <2>1, NineinfraLines DEF ConfigInv
<1> QED  BY <1>1, <1>2 DEF Config!Init

LEMMA ConfigNextInv == ASSUME ConfigInv, [Config!Next]_(Config!vars) PROVE ConfigInv'
<1>1. CASE UNCHANGED Config!vars
  <2>1. file' = file  BY <1>1 DEF Config!vars
  <2> QED  BY <2>1 DEF ConfigInv, IsSequence, IsLine
<1>2. CASE Config!Next
  <2>1. PICK line \in Config!Lines : file' = Append(file, line)  BY <1>2 DEF Config!Next, Config!Add
  <2>2. IsLine(line)  BY LinesAreLines
  <2>3. PICK S : file \in Seq(S)  BY DEF ConfigInv, IsSequence
  <2> DEFINE W == S \cup {line}
  <2>4. S \subseteq W /\ line \in W  OBVIOUS
  <2> HIDE DEF W
  <2>5. file \in Seq(W) /\ Len(file) \in Nat  BY <2>3, <2>4
  <2>6. /\ file' \in Seq(W) /\ Len(file') = Len(file) + 1 /\ file'[Len(file) + 1] = line
        /\ \A i \in 1 .. Len(file) : file'[i] = file[i]
    BY <2>1, <2>4, <2>5
  <2>7. IsSequence(file')  BY <2>6 DEF IsSequence
  <2>8. \A i \in 1 .. Len(file') : i \in 1 .. Len(file) \/ i = Len(file) + 1  BY <2>5, <2>6
  <2>9. \A i \in 1 .. Len(file') : IsLine(file'[i])
    <3>1. \A i \in 1 .. Len(file) : IsLine(file[i])  BY DEF ConfigInv
    <3> QED  BY <2>2, <2>6, <2>8, <3>1
  <2> QED  BY <2>7, <2>9 DEF ConfigInv
<1> QED  BY <1>1, <1>2

(* A line that is an entry for a key sets it, and nothing else.            *)
LEMMA LineParsed ==
  ASSUME NEW c, NEW line, IsLine(line), NEW p, p = Config!ParseLine(c, line), NEW k \in Readable
  PROVE  /\ k \in DOMAIN p <=> k \in DOMAIN c \/ Sets(line, k)
         /\ Sets(line, k) => p[k] = Config!Unquoted(line)
         /\ k \in DOMAIN c /\ ~ Sets(line, k) => p[k] = c[k]
<1>1. CASE line.form # "entry"
  <2>1. Config!parsEnvEntry(line).is # "kv"  BY <1>1 DEF Config!parsEnvEntry, IsLine
  <2>2. p = c  BY <2>1 DEF Config!ParseLine
  <2> QED  BY <1>1, <2>2 DEF Sets
<1>2. CASE line.form = "entry"
  <2> DEFINE v == Config!Unquoted(line)
             d == Config!Put(c, line.key, v)
             e == Config!parsEnvEntry(line)
  <2>1. e = [is |-> "kv", key |-> line.key, value |-> Config!Unquoted(line)]
    BY <1>2 DEF Config!parsEnvEntry
  <2>2. e.is = "kv" /\ e.key = line.key /\ e.value = v  BY <2>1
  <2>3. p = IF line.key \in Config!UserKeys THEN Config!Put(d, "accesskey", v)
            ELSE IF line.key \in Config!PasswordKeys THEN Config!Put(d, "secretkey", v) ELSE d
    BY <2>2 DEF Config!ParseLine
  <2>4. /\ DOMAIN d = DOMAIN c \cup {line.key} /\ d[line.key] = v
        /\ k \in DOMAIN c /\ k # line.key => d[k] = c[k]
    BY DEF Config!Put
  <2>5. line.key \in Config!Keys  BY <1>2 DEF IsLine
  <2>6. Sets(line, k) <=> \/ k = line.key
                          \/ k = "accesskey" /\ line.key \in Config!UserKeys
                          \/ k = "secretkey" /\ line.key \in Config!PasswordKeys
    BY <1>2, <2>5 DEF Sets, KeysOf, Config!Keys, Config!UserKeys, Config!PasswordKeys
  <2>7. line.key # "accesskey" /\ line.key # "secretkey"
    BY <2>5 DEF Config!Keys, Config!UserKeys, Config!PasswordKeys
  <2>8. ~ (line.key \in Config!UserKeys /\ line.key \in Config!PasswordKeys)
    BY DEF Config!UserKeys, Config!PasswordKeys
  <2> HIDE DEF v, d, e
  <2>9. CASE line.key \in Config!UserKeys
    <3>1. p = Config!Put(d, "accesskey", v)  BY <2>3, <2>9
    <3>2. /\ DOMAIN p = DOMAIN d \cup {"accesskey"} /\ p["accesskey"] = v
          /\ k \in DOMAIN d /\ k # "accesskey" => p[k] = d[k]
      BY <3>1 DEF Config!Put
    <3> QED  BY <2>4, <2>6, <2>7, <2>8, <2>9, <3>2 DEF v
  <2>10. CASE line.key \in Config!PasswordKeys
    <3>1. p = Config!Put(d, "secretkey", v)  BY <2>3, <2>8, <2>10
    <3>2. /\ DOMAIN p = DOMAIN d \cup {"secretkey"} /\ p["secretkey"] = v
          /\ k \in DOMAIN d /\ k # "secretkey" => p[k] = d[k]
      BY <3>1 DEF Config!Put
    <3> QED  BY <2>4, <2>6, <2>7, <2>8, <2>10, <3>2 DEF v
  <2>11. CASE line.key \notin Config!UserKeys /\ line.key \notin Config!PasswordKeys
    <3>1. p = d  BY <2>3, <2>11
    <3> QED  BY <2>4, <2>6, <2>11, <3>1 DEF v
  <2> QED  BY <2>9, <2>10, <2>11
<1> QED  BY <1>1, <1>2

(* The recursive definition has a solution, whatever the number of lines.  *)
LEMMA ParsingLoop ==
  ASSUME Len(file) \in Nat
  PROVE  /\ Config!ParsedLines(file)[0] = Config!Empty
         /\ \A n \in 1 .. Len(file) :
              Config!ParsedLines(file)[n] = Config!ParseLine(Config!ParsedLines(file)[n - 1], file[n])
<1> DEFINE Loop(g, n) ==
             g = [i \in 0 .. n |-> IF i = 0 THEN Config!Empty ELSE Config!ParseLine(g[i - 1], file[i])]
           S == {n \in Nat : \E g : Loop(g, n)}
<1>1. 0 \in S
  <2>1. Loop([i \in 0 .. 0 |-> Config!Empty], 0)  OBVIOUS
  <2> QED  BY <2>1
<1>2. ASSUME NEW n \in Nat, n \in S PROVE n + 1 \in S
  <2>1. PICK g : Loop(g, n)  BY <1>2
  <2> DEFINE h == [i \in 0 .. n + 1 |-> IF i = n + 1 THEN Config!ParseLine(g[n], file[n + 1]) ELSE g[i]]
  <2>2. \A i \in 0 .. n + 1 : h[i] = IF i = 0 THEN Config!Empty ELSE Config!ParseLine(h[i - 1], file[i])
    BY <2>1
  <2>3. Loop(h, n + 1)  BY <2>2
  <2>4. \E q : Loop(q, n + 1)  BY <2>3
  <2> HIDE DEF Loop
  <2> QED  BY <2>4
<1> HIDE DEF S
<1>3. Len(file) \in S  BY <1>1, <1>2, Drive!NatSetInduction
<1>4. PICK g : Loop(g, Len(file))  BY <1>3 DEF S
<1> DEFINE Body(q) == [n \in 0 .. Len(file) |->
              IF n = 0 THEN Config!Empty ELSE Config!ParseLine(q[n - 1], file[n])]
           parsed == Config!ParsedLines(file)
<1>5. \E q : q = Body(q)
  <2>1. g = Body(g)  BY <1>4
  <2> QED  BY <2>1
<1>6. parsed = CHOOSE q : q = Body(q)  BY DEF Config!ParsedLines
<1>7. parsed = Body(parsed)  BY <1>5, <1>6
<1> HIDE DEF parsed
<1>8. \A n \in 0 .. Len(file) : Body(parsed)[n] =
         IF n = 0 THEN Config!Empty ELSE Config!ParseLine(parsed[n - 1], file[n])
  OBVIOUS
<1> HIDE DEF Body
<1>9. \A n \in 0 .. Len(file) : parsed[n] = Body(parsed)[n]  BY <1>7
<1>10. 0 \in 0 .. Len(file) /\ \A n \in 1 .. Len(file) : n \in 0 .. Len(file) /\ n # 0  OBVIOUS
<1> QED  BY <1>8, <1>9, <1>10 DEF parsed

(* The invariant of the loop, for the key k: after n lines it is there if  *)
(* an entry was for it, with the value of the last one.                    *)
Latest(c, n, k) ==
  \/ k \notin DOMAIN c /\ \A i \in 1 .. n : ~ Sets(file[i], k)
  \/ /\ k \in DOMAIN c
     /\ \E i \in 1 .. n : /\ Sets(file[i], k) /\ c[k] = Config!Unquoted(file[i])
                          /\ \A j \in 1 .. n : j > i => ~ Sets(file[j], k)

LEMMA LatestStep ==
  ASSUME ConfigInv, NEW n \in Nat, n + 1 \in 1 .. Len(file), NEW k \in Readable, NEW c, Latest(c, n, k),
         NEW p, p = Config!ParseLine(c, file[n + 1])
  PROVE  Latest(p, n + 1, k)
<1>1. IsLine(file[n + 1])  BY DEF ConfigInv
<1>2. /\ k \in DOMAIN p <=> k \in DOMAIN c \/ Sets(file[n + 1], k)
      /\ Sets(file[n + 1], k) => p[k] = Config!Unquoted(file[n + 1])
      /\ k \in DOMAIN c /\ ~ Sets(file[n + 1], k) => p[k] = c[k]
  BY <1>1, LineParsed
<1>3. /\ n + 1 \in 1 .. n + 1 /\ \A j \in 1 .. n + 1 : j \in 1 .. n \/ j = n + 1
      /\ \A j \in 1 .. n : j \in 1 .. n + 1 /\ j < n + 1
  OBVIOUS
<1>4. CASE Sets(file[n + 1], k)
  <2>1. \A j \in 1 .. n + 1 : ~ j > n + 1  OBVIOUS
  <2> QED  BY <1>2, <1>3, <1>4, <2>1 DEF Latest
<1>5. CASE ~ Sets(file[n + 1], k) /\ k \in DOMAIN c
  <2>1. PICK i \in 1 .. n : /\ Sets(file[i], k) /\ c[k] = Config!Unquoted(file[i])
                            /\ \A j \in 1 .. n : j > i => ~ Sets(file[j], k)
    BY <1>5 DEF Latest
  <2> QED  BY <1>2, <1>3, <1>5, <2>1 DEF Latest
<1>6. CASE ~ Sets(file[n + 1], k) /\ k \notin DOMAIN c
  <2>1. \A i \in 1 .. n : ~ Sets(file[i], k)  BY <1>6 DEF Latest
  <2> QED  BY <1>2, <1>3, <1>6, <2>1 DEF Latest
<1> QED  BY <1>4, <1>5, <1>6

LEMMA LatestAll ==
  ASSUME ConfigInv, NEW k \in Readable
  PROVE  Latest(Config!ParseRawConfiguration(file), Len(file), k)
<1> DEFINE parsed == Config!ParsedLines(file)
           S == {n \in Nat : n <= Len(file) => Latest(parsed[n], n, k)}
<1>1. Len(file) \in Nat  BY SequenceParts DEF ConfigInv
<1>2. /\ parsed[0] = Config!Empty
      /\ \A n \in 1 .. Len(file) : parsed[n] = Config!ParseLine(parsed[n - 1], file[n])
  BY <1>1, ParsingLoop
<1> HIDE DEF parsed
<1>3. 0 \in S
  <2>1. DOMAIN Config!Empty = {}  BY DEF Config!Empty
  <2>2. Latest(parsed[0], 0, k)  BY <1>2, <2>1 DEF Latest
  <2> QED  BY <2>2
<1>4. ASSUME NEW n \in Nat, n \in S PROVE n + 1 \in S
  <2> SUFFICES ASSUME n + 1 <= Len(file) PROVE Latest(parsed[n + 1], n + 1, k)  OBVIOUS
  <2>1. n + 1 \in 1 .. Len(file) /\ (n + 1) - 1 = n /\ n <= Len(file)  BY <1>1
  <2>2. Latest(parsed[n], n, k)  BY <1>4, <2>1
  <2>3. parsed[n + 1] = Config!ParseLine(parsed[n], file[n + 1])  BY <1>2, <2>1
  <2> QED  BY <2>1, <2>2, <2>3, LatestStep
<1> HIDE DEF S
<1>5. Len(file) \in S  BY <1>1, <1>3, <1>4, Drive!NatSetInduction
<1>6. Latest(parsed[Len(file)], Len(file), k)  BY <1>1, <1>5 DEF S
<1> QED  BY <1>6 DEF parsed, Config!ParseRawConfiguration

LEMMA ReadIsSaid ==
  ASSUME ConfigInv, NEW k \in Readable
  PROVE  Config!Read(k) = Config!Said(KeysOf(k))
<1> DEFINE c == Config!ParseRawConfiguration(file)
           Is == {i \in DOMAIN file : file[i].form = "entry" /\ file[i].key \in KeysOf(k)}
<1>1. Latest(c, Len(file), k)  BY LatestAll
<1>2. Len(file) \in Nat /\ DOMAIN file = 1 .. Len(file)  BY SequenceParts DEF ConfigInv
<1>3. Config!Read(k) = IF k \in DOMAIN c THEN c[k] ELSE <<>>  BY DEF Config!Read
<1>4. Config!Said(KeysOf(k)) =
        IF Is = {} THEN <<>> ELSE Config!Unquoted(file[CHOOSE i \in Is : \A j \in Is : j <= i])
  BY Zenon DEF Config!Said
<1> HIDE DEF c
<1>5. CASE k \notin DOMAIN c
  <2>1. Is = {}  BY <1>1, <1>2, <1>5 DEF Latest, Sets
  <2> QED  BY <1>3, <1>4, <1>5, <2>1
<1>6. CASE k \in DOMAIN c
  <2>1. PICK i \in 1 .. Len(file) : /\ Sets(file[i], k) /\ c[k] = Config!Unquoted(file[i])
                                    /\ \A j \in 1 .. Len(file) : j > i => ~ Sets(file[j], k)
    BY <1>1, <1>6 DEF Latest
  <2>2. i \in Is /\ Is \subseteq 1 .. Len(file) /\ \A j \in Is : ~ j > i  BY <1>2, <2>1 DEF Sets
  <2> HIDE DEF Is
  <2>3. \A j \in Is : j <= i  BY <1>2, <2>2
  <2>4. \A m \in Is : (\A j \in Is : j <= m) => m = i  BY <1>2, <2>2, <2>3
  <2>5. (CHOOSE m \in Is : \A j \in Is : j <= m) = i  BY <2>2, <2>3, <2>4
  <2>6. Is # {}  BY <2>2
  <2> QED  BY <1>3, <1>4, <1>6, <2>1, <2>5, <2>6
<1> QED  BY <1>5, <1>6

LEMMA ConfigParsed == ASSUME ConfigInv PROVE Config!ParsedAsWritten
<1>1. \A k \in Config!Keys : k \in Readable /\ KeysOf(k) = {k}
  BY DEF Readable, KeysOf, Config!Keys, Config!UserKeys, Config!PasswordKeys
<1>2. /\ "accesskey" \in Readable /\ KeysOf("accesskey") = Config!UserKeys
      /\ "secretkey" \in Readable /\ KeysOf("secretkey") = Config!PasswordKeys
  BY DEF Readable, KeysOf
<1>3. \A k \in Readable : Config!Read(k) = Config!Said(KeysOf(k))  BY ReadIsSaid
<1>4. \A k \in Config!Keys : Config!Read(k) = Config!Said({k})  BY <1>1, <1>3
<1>5. /\ Config!Read("accesskey") = Config!Said(Config!UserKeys)
      /\ Config!Read("secretkey") = Config!Said(Config!PasswordKeys)
  BY <1>2, <1>3
<1> QED  BY <1>4, <1>5 DEF Config!ParsedAsWritten

LEMMA ConfigCredentials == ASSUME ConfigInv PROVE Config!CredentialsKept
<1> DEFINE first == Config!NineinfraConfig
           c == Config!ParseRawConfiguration(file)
<1> SUFFICES ASSUME Config!IsPrefix(first, file)
             PROVE  Config!getMinIOTenantDetails(c)
  BY DEF Config!CredentialsKept
<1>1. Len(file) \in Nat /\ IsSequence(first) /\ Len(first) = 2  BY SequenceParts, NineinfraLines DEF ConfigInv
<1>2. Sets(first[1], "accesskey") /\ Sets(first[2], "secretkey")  BY NineinfraLines
<1> HIDE DEF first, c
<1>3. PICK S : file \in Seq(S)  BY DEF ConfigInv, IsSequence
<1>4. PICK R : first \in Seq(R)  BY <1>1 DEF IsSequence
<1>5. 2 <= Len(file) /\ SubSeq(first, 1, 2) = SubSeq(file, 1, 2)  BY <1>1 DEF Config!IsPrefix
<1>6. file[1] = first[1] /\ file[2] = first[2]
  <2>1. SubSeq(first, 1, 2)[1] = first[1] /\ SubSeq(first, 1, 2)[2] = first[2]  BY <1>1, <1>4
  <2>2. SubSeq(file, 1, 2)[1] = file[1] /\ SubSeq(file, 1, 2)[2] = file[2]  BY <1>1, <1>3, <1>5
  <2> QED  BY <1>5, <2>1, <2>2
<1>7. 1 \in 1 .. Len(file) /\ 2 \in 1 .. Len(file)  BY <1>1, <1>5
<1>8. Latest(c, Len(file), "accesskey") /\ Latest(c, Len(file), "secretkey")
  BY LatestAll DEF c, Readable
<1>9. "accesskey" \in DOMAIN c /\ "secretkey" \in DOMAIN c
  BY <1>2, <1>6, <1>7, <1>8 DEF Latest
<1> QED  BY <1>9 DEF Config!getMinIOTenantDetails

-----------------------------------------------------------------------------
(* The components together.  Each behaviour is one of one of them.         *)
LEMMA DriveLabels == Drive!LabelsApart
  BY OperatorsAssumption DEF Drive!LabelsApart, Drive!Suspended

IInv ==
  /\ part = "setup"      => SetupInv
  /\ part = "tar"        => TarInv
  /\ part = "drive"      => Drive!IInv
  /\ part = "conditions" => ConditionsInv
  /\ part = "labels"     => LabelsInv
  /\ part = "calls"      => CallsInv
  /\ part = "env"        => EnvInv
  /\ part = "options"    => OptionsInv
  /\ part = "config"     => ConfigInv

LEMMA InitIInv == ASSUME Init PROVE IInv
<1>1. part = "setup" => SetupInv
  <2>1. part = "setup" => Setup!Init  BY DEF Init
  <2> QED  BY <2>1, SetupInitInv
<1>2. part = "tar" => TarInv
  <2>1. part = "tar" => Tar!Init  BY DEF Init
  <2> QED  BY <2>1, TarInitInv
<1>3. part = "drive" => Drive!IInv
  <2>1. part = "drive" => Drive!Init  BY DEF Init
  <2> QED  BY <2>1, DriveLabels, Drive!InitIInv
<1>4. part = "conditions" => ConditionsInv
  <2>1. part = "conditions" => Errors!Init  BY DEF Init
  <2> QED  BY <2>1, ConditionsInitInv
<1>5. part = "labels" => LabelsInv
  <2>1. part = "labels" => Label!Init  BY DEF Init
  <2> QED  BY <2>1, LabelsInitInv
<1>6. part = "calls" => CallsInv
  <2>1. part = "calls" => Calls!Init  BY DEF Init
  <2> QED  BY <2>1, CallsInitInv
<1>7. part = "env" => EnvInv
  <2>1. part = "env" => Env!Init  BY DEF Init
  <2> QED  BY <2>1, EnvInitInv
<1>8. part = "options" => OptionsInv
  <2>1. part = "options" => Options!Init  BY DEF Init
  <2> QED  BY <2>1, OptionsInitInv
<1>9. part = "config" => ConfigInv
  <2>1. part = "config" => Config!Init  BY DEF Init
  <2> QED  BY <2>1, ConfigInitInv
<1> QED  BY <1>1, <1>2, <1>3, <1>4, <1>5, <1>6, <1>7, <1>8, <1>9 DEF IInv

(* A step is one of the part that moves.                                   *)
LEMMA PartSteps ==
  ASSUME [Next]_vars
  PROVE  /\ UNCHANGED part
         /\ part = "setup"      => [Setup!Next]_(Setup!vars)
         /\ part = "tar"        => [Tar!Next]_(Tar!vars)
         /\ part = "drive"      => [Drive!Next]_(Drive!vars)
         /\ part = "conditions" => [Errors!Next]_(Errors!vars)
         /\ part = "labels"     => [Label!Next]_(Label!vars)
         /\ part = "calls"      => [Calls!Next]_(Calls!vars)
         /\ part = "env"        => [Env!Next]_(Env!vars)
         /\ part = "options"    => [Options!Next]_(Options!vars)
         /\ part = "config"     => [Config!Next]_(Config!vars)
<1>1. CASE UNCHANGED vars
  <2>1. UNCHANGED part  BY <1>1 DEF vars
  <2>2. UNCHANGED Setup!vars  BY <1>1 DEF vars, setupVars, Setup!vars, Setup!args
  <2>3. UNCHANGED Tar!vars  BY <1>1 DEF vars, tarVars, Tar!vars
  <2>4. UNCHANGED Drive!vars  BY <1>1 DEF vars, driveVars, Drive!vars
  <2>5. UNCHANGED Errors!vars  BY <1>1 DEF vars, conditionsVars, Errors!vars
  <2>6. UNCHANGED Label!vars  BY <1>1 DEF vars, labelsVars, Label!vars
  <2>7. UNCHANGED Calls!vars  BY <1>1 DEF vars, callsVars, Calls!vars
  <2>8. UNCHANGED Env!vars  BY <1>1 DEF vars, envVars, Env!vars
  <2>9. UNCHANGED Options!vars  BY <1>1 DEF vars, optionsVars, Options!vars
  <2>10. UNCHANGED Config!vars  BY <1>1 DEF vars, configVars, Config!vars
  <2> QED  BY <2>1, <2>2, <2>3, <2>4, <2>5, <2>6, <2>7, <2>8, <2>9, <2>10
<1>2. CASE Next
  <2>1. UNCHANGED part  BY <1>2 DEF Next, Only
  <2>2. part = "setup" => Setup!Next  BY <1>2 DEF Next, Only
  <2>3. part = "tar" => Tar!Next  BY <1>2 DEF Next, Only
  <2>4. part = "drive" => Drive!Next  BY <1>2 DEF Next, Only
  <2>5. part = "conditions" => Errors!Next  BY <1>2 DEF Next, Only
  <2>6. part = "labels" => Label!Next  BY <1>2 DEF Next, Only
  <2>7. part = "calls" => Calls!Next  BY <1>2 DEF Next, Only
  <2>8. part = "env" => Env!Next  BY <1>2 DEF Next, Only
  <2>9. part = "options" => Options!Next  BY <1>2 DEF Next, Only
  <2>10. part = "config" => Config!Next  BY <1>2 DEF Next, Only
  <2> QED  BY <2>1, <2>2, <2>3, <2>4, <2>5, <2>6, <2>7, <2>8, <2>9, <2>10
<1> QED  BY <1>1, <1>2

LEMMA NextIInv == ASSUME IInv, [Next]_vars PROVE IInv'
<1>0. UNCHANGED part  BY PartSteps
<1>1. CASE part = "setup"
  <2>1. SetupInv /\ [Setup!Next]_(Setup!vars)  BY <1>1, PartSteps DEF IInv
  <2> QED  BY <1>0, <1>1, <2>1, SetupNextInv DEF IInv
<1>2. CASE part = "tar"
  <2>1. TarInv /\ [Tar!Next]_(Tar!vars)  BY <1>2, PartSteps DEF IInv
  <2> QED  BY <1>0, <1>2, <2>1, TarNextInv DEF IInv
<1>3. CASE part = "drive"
  <2>1. Drive!IInv /\ [Drive!Next]_(Drive!vars)  BY <1>3, PartSteps DEF IInv
  <2> QED  BY <1>0, <1>3, <2>1, DriveLabels, Drive!NextIInv DEF IInv
<1>4. CASE part = "conditions"
  <2>1. ConditionsInv /\ [Errors!Next]_(Errors!vars)  BY <1>4, PartSteps DEF IInv
  <2> QED  BY <1>0, <1>4, <2>1, ConditionsNextInv DEF IInv
<1>5. CASE part = "labels"
  <2>1. LabelsInv /\ [Label!Next]_(Label!vars)  BY <1>5, PartSteps DEF IInv
  <2> QED  BY <1>0, <1>5, <2>1, LabelsNextInv DEF IInv
<1>6. CASE part = "calls"
  <2>1. CallsInv /\ [Calls!Next]_(Calls!vars)  BY <1>6, PartSteps DEF IInv
  <2> QED  BY <1>0, <1>6, <2>1, CallsNextInv DEF IInv
<1>7. CASE part = "env"
  <2>1. EnvInv /\ [Env!Next]_(Env!vars)  BY <1>7, PartSteps DEF IInv
  <2> QED  BY <1>0, <1>7, <2>1, EnvNextInv DEF IInv
<1>8. CASE part = "options"
  <2>1. OptionsInv /\ [Options!Next]_(Options!vars)  BY <1>8, PartSteps DEF IInv
  <2> QED  BY <1>0, <1>8, <2>1, OptionsNextInv DEF IInv
<1>9. CASE part = "config"
  <2>1. ConfigInv /\ [Config!Next]_(Config!vars)  BY <1>9, PartSteps DEF IInv
  <2> QED  BY <1>0, <1>9, <2>1, ConfigNextInv DEF IInv
<1>10. CASE part \notin {"setup", "tar", "drive", "conditions", "labels", "calls", "env", "options", "config"}
  BY <1>0, <1>10 DEF IInv
<1> QED  BY <1>1, <1>2, <1>3, <1>4, <1>5, <1>6, <1>7, <1>8, <1>9, <1>10

LEMMA IInvHolds == Spec => []IInv
<1>1. Init => IInv  BY InitIInv
<1>2. IInv /\ [Next]_vars => IInv'  BY NextIInv
<1> QED  BY <1>1, <1>2, PTL DEF Spec

\* However calls fail and are made again, requests overlap and times lose their fractions,
\* every variable of the setup of a tenant, ExtractTar, a drive, its conditions and labels
\* has its type: no condition or finalizer is there twice, and a label fits.
THEOREM OperatorsTypeOK == Spec => []TypeOK
<1>1. IInv => TypeOK
  BY DriveLabels, SetupTypes, TarTypes, Drive!TypesOfShape, ConditionsTypes, LabelsTypes DEF IInv, TypeOK
<1> QED  BY <1>1, IInvHolds, PTL

\* When CreateUsers and CreateBuckets have returned nil, every user is there with the
\* policy and every bucket is made: for any secrets, buckets and number of faults.
THEOREM OperatorsDoneMeansDone == Spec => []DoneMeansDone
<1>1. IInv => DoneMeansDone  BY SetupDone DEF IInv, DoneMeansDone
<1> QED  BY <1>1, IInvHolds, PTL

\* When ExtractTar returns nil for a proper archive, each file asked for is there in whole,
\* and after every entry it has counted the files still missing: for any archive.
THEOREM OperatorsNilMeansExtracted == Spec => []NilMeansExtracted
<1>1. IInv => NilMeansExtracted  BY TarNilMeansExtracted, TarCountIsRight DEF IInv, NilMeansExtracted
<1> QED  BY <1>1, IInvHolds, PTL

\* What was set on a DirectPV object is read back: the latest error and a lost drive; a
\* label that is set by conversion only is a label value, as is what getters return of it;
\* the selector for a name finds the volumes that have it, whether their label was set as
\* it is, converted or copied, unless the name has an end that becomes a dash; and the
\* number of volumes: for any volumes, names of any characters and length, and times.
THEOREM OperatorsReadBackAsSet == Spec => []ReadBackAsSet
<1>1. IInv => ReadBackAsSet
  BY DriveLabels, Drive!CountOfShape, ConditionsLatest, ConditionsLost, LabelsRead, LabelsValid, LabelsFound
  DEF IInv, ReadBackAsSet
<1> QED  BY <1>1, IInvHolds, PTL

\* A drive that callers get, change and update at once does what DriveContract promises,
\* in its initial state and with every step: for any callers, volumes and claims.
THEOREM OperatorsKeepsContract == Spec => KeepsContract
<1>1. Init => (part = "drive" => Drive!KeepsContractAtFirst)
  BY Drive!ContractAtFirst DEF Init, Drive!KeepsContractAtFirst
<1>2. IInv /\ [Next]_vars => [part = "drive" => Drive!KeepsContractStep]_driveVars
  <2> SUFFICES ASSUME IInv, [Next]_vars, part = "drive" PROVE Drive!KeepsContractStep  OBVIOUS
  <2>1. Drive!IInv /\ [Drive!Next]_(Drive!vars)  BY PartSteps DEF IInv
  <2> QED  BY <2>1, DriveLabels, Drive!ContractStep DEF Drive!KeepsContractStep
<1> QED  BY <1>1, <1>2, IInvHolds, PTL DEF Spec, KeepsContract

\* When IsContainersEnvUpdated sees no change, each value that runs is the expected one; and
\* a rollout leaves nothing to roll out: for any containers, variables and references.
THEOREM OperatorsEnvironmentsCurrent == Spec => EnvironmentsCurrent
<1>1. IInv => (part = "env" => Env!ValuesCurrent)  BY EnvCurrent DEF IInv
<1>2. IInv /\ [Next]_vars => [part = "env" => Env!RolledOut]_envVars
  <2> SUFFICES ASSUME IInv, part = "env" PROVE Env!RolledOut  OBVIOUS
  <2> QED  BY EnvRolledOut DEF IInv
<1> QED  BY <1>1, <1>2, IInvHolds, PTL DEF Spec, EnvironmentsCurrent

\* ParseRawConfiguration gives every key the value of its last entry, and the operator can
\* log in with the config.env nineinfra wrote; the endpoint given to the other clusters is
\* the tenant's, and a KES has what it needs: for any file, values and number of replicas.
THEOREM OperatorsTenantServes == Spec => []TenantServes
<1>1. IInv => TenantServes
  BY ConfigParsed, ConfigCredentials, OptionsEndpoint, OptionsKES DEF IInv, TenantServes
<1> QED  BY <1>1, IInvHolds, PTL

\* A typed client reaches what it is called for: UpdateStatus leaves every spec alone, and
\* Update every status of a type with the subresource, which DirectPV's types are without;
\* DeleteCollection keeps to its resource and namespace and removes only what List with the
\* same options shows: for any names, namespaces, selectors and objects.
THEOREM OperatorsCallsApart == Spec => CallsApart
<1>1. IInv /\ [Next]_vars
      => [part = "calls" => Calls!WritersApart /\ Calls!ScopeKept /\ Calls!DeletesWhatIsListed]_callsVars
  <2> SUFFICES ASSUME IInv, part = "calls"
               PROVE  Calls!WritersApart /\ Calls!ScopeKept /\ Calls!DeletesWhatIsListed
    OBVIOUS
  <2> QED  BY CallsWritersApart, CallsScopeKept, CallsDeletesListed DEF IInv
<1> QED  BY <1>1, IInvHolds, PTL DEF Spec, CallsApart
=============================================================================

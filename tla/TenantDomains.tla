--------------------------- MODULE TenantDomains ----------------------------
(***************************************************************************)
(* The domains of a tenant (helper.go of minio.min.io/v2): ValidateDomains *)
(* refuses overlapping ones with the help of lcp, and GetDomainHosts gives *)
(* the hosts MINIO_DOMAIN is made of.                                      *)
(***************************************************************************)
EXTENDS Integers, Sequences, FiniteSets, SequencesExt

CONSTANTS
  Letters,     \* the alphabet, numbers in its order
  MaxLen,      \* bound: length of a name
  MaxDomains   \* bound: domains of the tenant

Names == UNION {[1..k -> Letters] : k \in 1..MaxLen}

(* A domain: a name, with or without a scheme in front; a bare name that   *)
(* happens to start with the letters "http"; or no domain name at all.     *)
Domains == [form : {"name"}, name : Names] \cup [form : {"httpd", "invalid"}, name : {<<>>}]

VARIABLE domains
vars == <<domains>>

-----------------------------------------------------------------------------
(* The scheme that is put in front where none is seen, url.Parse, and the  *)
(* host without its port: empty for a name taken for a URL.                *)
Host(d) == IF d.form = "httpd" THEN <<>> ELSE d.name

IsDomainName(d) == d.form # "invalid"

(* sort.Strings                                                            *)
Less(a, b) ==
  \E k \in 1..Len(b) :
    /\ \A j \in 1..(k - 1) : j <= Len(a) /\ a[j] = b[j]
    /\ k > Len(a) \/ a[k] < b[k]

Sorted(strs) == SortSeq(strs, Less)

End(s, n) == SubSeq(s, Len(s) - n + 1, Len(s))

(* One turn of lcp's loop, from the right: cut at the first difference, and *)
(* only there.                                                             *)
lcpStep(xfix, str) ==
  LET maxl == IF Len(str) < Len(xfix) THEN Len(str) ELSE Len(xfix)
      Diff == {i \in 0..(maxl - 1) : xfix[Len(xfix) - i] # str[Len(str) - i]}
  IN  IF maxl = 0 THEN <<>> ELSE IF Diff = {} THEN xfix
      ELSE End(xfix, CHOOSE i \in Diff : \A j \in Diff : i <= j)

lcpSuffix(strs) == IF strs = <<>> THEN <<>> ELSE FoldLeft(lcpStep, strs[1], Tail(strs))

Overlapping(hosts) == Len(hosts) > 1 /\ \E i \in DOMAIN hosts : hosts[i] = lcpSuffix(hosts)

ValidateDomains(ds) ==
  IF \E i \in DOMAIN ds : ~IsDomainName(ds[i]) THEN "invalid"
  ELSE IF Overlapping(Sorted([i \in DOMAIN ds |-> Host(ds[i])])) THEN "overlapping" ELSE "ok"

(* Those that are no domain names are left out.                            *)
GetDomainHosts(ds) ==
  LET Valid == SelectSeq(ds, IsDomainName) IN [i \in DOMAIN Valid |-> Host(Valid[i])]

-----------------------------------------------------------------------------
(* The user edits the list.                                                *)
Init == domains = <<>>

Add    == Len(domains) < MaxDomains /\ \E d \in Domains : domains' = Append(domains, d)
Drop   == \E i \in DOMAIN domains : domains' = RemoveAt(domains, i)

Next == Add \/ Drop

Spec == Init /\ [][Next]_vars

-----------------------------------------------------------------------------
Hosts == GetDomainHosts(domains)
SomeOverlap(hosts) == \E i, j \in DOMAIN hosts : i # j /\ IsSuffix(hosts[i], hosts[j])

\* Domains that do not overlap are never refused as overlapping; and of two that do
\* overlap the tenant is told, whichever of them is first and whichever is longer.
OverlapIsSeen ==
  /\ ValidateDomains(domains) = "overlapping" => SomeOverlap(Hosts)
  /\ Len(domains) = 2 /\ SomeOverlap(Hosts) => ValidateDomains(domains) # "ok"

\* The answer does not depend on the order in which the domains are written.
OrderDoesNotMatter ==
  \A i, j \in DOMAIN domains :
    ValidateDomains(domains)
    = ValidateDomains([domains EXCEPT ![i] = domains[j], ![j] = domains[i]])
=============================================================================

---------------------------- MODULE MinioConfig -----------------------------
(***************************************************************************)
(* config.env: what nineinfra writes into a Secret for the MinIO operator  *)
(* (minio.go), what a user adds to it later, and how the operator reads    *)
(* it (ParseRawConfiguration, getMinIOTenantDetails).                      *)
(***************************************************************************)
EXTENDS Naturals, Sequences, SequencesExt

CONSTANTS
  Values,    \* values a user may give
  MaxLines   \* bound: lines of the file

UserKeys     == {"MINIO_ROOT_USER", "MINIO_ACCESS_KEY"}
PasswordKeys == {"MINIO_ROOT_PASSWORD", "MINIO_SECRET_KEY"}
Keys         == UserKeys \cup PasswordKeys \cup {"OTHER"}

(* A line: blank, a comment ("#KEY=value"), one without "=", or an entry,  *)
(* whose value may have quotes around it, or only one in front.            *)
Line(form, key, quote, value) == [form |-> form, key |-> key, quote |-> quote, value |-> value]
Entry(key, value) == Line("entry", key, "none", value)

Unread   == {Line("blank", "", "none", ""), Line("malformed", "", "none", "")}
Entries  == {Line("entry", k, q, v) : k \in Keys, q \in {"none", "both", "open"}, v \in Values}
Comments == {Line("comment", k, "none", v) : k \in Keys, v \in Values}
Lines    == Unread \cup Entries \cup Comments

VARIABLE file
vars == <<file>>

-----------------------------------------------------------------------------
(* reconcileMinioTenantConfigSecret                                        *)
NineinfraConfig == <<Entry("MINIO_ACCESS_KEY", "nineKey"), Entry("MINIO_SECRET_KEY", "nineSecret")>>

(* A pair of quotes is removed, a single one stays.                        *)
Unquoted(line) == IF line.quote = "open" THEN <<"quote", line.value>> ELSE <<line.value>>

parsEnvEntry(line) ==
  CASE line.form \in {"blank", "comment"} -> [is |-> "skip"]
    [] line.form = "malformed" -> [is |-> "error"]
    [] line.form = "entry"     -> [is |-> "kv", key |-> line.key, value |-> Unquoted(line)]

Put(f, k, v) == [x \in DOMAIN f \cup {k} |-> IF x = k THEN v ELSE f[x]]

(* One turn of the loop.                                                   *)
ParseLine(config, line) ==
  LET ekv == parsEnvEntry(line)
  IN  IF ekv.is # "kv" THEN config
      ELSE LET c == Put(config, ekv.key, ekv.value)
           IN  IF ekv.key \in UserKeys THEN Put(c, "accesskey", ekv.value)
               ELSE IF ekv.key \in PasswordKeys THEN Put(c, "secretkey", ekv.value) ELSE c

Empty == [k \in {} |-> <<>>]

(* The loop over the lines: what the first n of them leave.                *)
ParsedLines(lines) ==
  LET config[n \in 0 .. Len(lines)] ==
        IF n = 0 THEN Empty ELSE ParseLine(config[n - 1], lines[n])
  IN  config

\* A line that cannot be parsed ends it.
ParseRawConfigurationStops(lines) ==
  LET Bad == {i \in DOMAIN lines : parsEnvEntry(lines[i]).is = "error"}
  IN  ParsedLines(lines)[IF Bad = {} THEN Len(lines) ELSE (CHOOSE i \in Bad : \A j \in Bad : i <= j) - 1]

ParseRawConfiguration(lines) == ParsedLines(lines)[Len(lines)]

(* An error unless both keys are there.                                    *)
getMinIOTenantDetails(config) == {"accesskey", "secretkey"} \subseteq DOMAIN config

-----------------------------------------------------------------------------
Init == file \in {<<>>, NineinfraConfig}

Add(line) == Len(file) < MaxLines /\ file' = Append(file, line)

Next == \E line \in Lines : Add(line)

Spec == Init /\ [][Next]_vars

-----------------------------------------------------------------------------
(* What the file says: the last entry for one of the keys.                 *)
Said(keys) ==
  LET Is == {i \in DOMAIN file : file[i].form = "entry" /\ file[i].key \in keys}
  IN  IF Is = {} THEN <<>> ELSE Unquoted(file[CHOOSE i \in Is : \A j \in Is : j <= i])

Read(k) == IF k \in DOMAIN ParseRawConfiguration(file) THEN ParseRawConfiguration(file)[k] ELSE <<>>

\* Whatever stands in between, every key has the value of its last entry, and the
\* credentials that of the last entry under either of their names.
ParsedAsWritten ==
  /\ \A k \in Keys : Read(k) = Said({k})
  /\ Read("accesskey") = Said(UserKeys) /\ Read("secretkey") = Said(PasswordKeys)

\* The operator can log in with the file nineinfra wrote, and with whatever lines a
\* user has added to it.
CredentialsKept ==
  IsPrefix(NineinfraConfig, file) => getMinIOTenantDetails(ParseRawConfiguration(file))
=============================================================================

--------------------------- MODULE CompanySettings ---------------------------
(***************************************************************************)
(* The settings of the company: two rows that administrators edit whole,   *)
(* on forms, each with the version its form was read at, and the logo,     *)
(* whose file is in a bucket and whose path is in the row of the company.  *)
(*                                                                         *)
(* No request locks a row it reads.  An UPDATE writes the columns that     *)
(* differ from what the request read, and the version it read plus one, so *)
(* what matters is the read and the commit, and they are two steps.  The   *)
(* bucket takes part in no transaction.                                    *)
(***************************************************************************)
EXTENDS Integers

CONSTANTS
  Admins,
  Choices,  \* what each field of the settings may say
  Budgets,  \* bounds of the requests about the settings and about what uses
            \* them, reads included; one of them is drawn at the start
  None

Rows == {"company", "commercial"}
Fields == {"pricing", "wording"}
Values == [pricing : Choices["pricing"], wording : Choices["wording"]]
Paths == Nat \ {0}

ASSUME SettingsAssumption ==
  /\ Budgets \subseteq [settings : Nat, uses : Nat]
  /\ \A f \in Fields : 0 \in Choices[f] /\ Choices[f] \subseteq Nat
  /\ None \notin Admins \cup Paths

VARIABLES
  left,     \* what is left of the budget
  files,    \* counts the files that were ever uploaded
  row,      \* the committed rows: their values and their version
  logo,     \* logo_object_path, of the company, which shares its version
  bucket,   \* the files that exist
  form,     \* what each administrator has on the screen of each row
  job,      \* the request an administrator waits for
  past      \* every content each row was ever committed with, for the
            \* properties

settings == <<row, logo, bucket, files, form, job, past>>

Shown == [values : Values, version : Nat]
Idle == [pc |-> "idle", row |-> "company", seen |-> None, values |-> None, path |-> None, old |-> None]

SettingsTypeOK ==
  /\ left \in [settings : Nat, uses : Nat]
  /\ files \in Paths
  /\ row \in [Rows -> Shown]
  /\ logo \in Paths \cup {None}
  /\ bucket \subseteq Paths
  /\ \A a \in Admins : \A s \in Rows : form[a][s] \in Shown \cup {None}
  /\ \A a \in Admins : job[a].pc \in {"idle", "save", "logo", "drop"}
  /\ past \in [Rows -> SUBSET Shown]

FirstRow == [values |-> [f \in Fields |-> 0], version |-> 1]

SettingsInit ==
  /\ left \in Budgets
  /\ files = 1
  /\ row = [s \in Rows |-> FirstRow]
  /\ logo = 1
  /\ bucket = {1}
  /\ form = [a \in Admins |-> [s \in Rows |-> None]]
  /\ job = [a \in Admins |-> Idle]
  /\ past = [s \in Rows |-> {FirstRow}]

-----------------------------------------------------------------------------
(* Operators named X_Slip are X with a plausible coding slip; no action     *)
(* uses one.  Each shows that some property would notice the slip.          *)

(* One request more about the settings, or about what uses them. *)
Count(area) == left[area] > 0 /\ left' = [left EXCEPT ![area] = @ - 1]

JobIs(a, pc) == job[a].pc = pc

(* GET /settings/company, /settings/commercial. *)
OpenForm(a, s) ==
  /\ Count("settings")
  /\ JobIs(a, "idle")
  /\ form[a][s] # row[s]
  /\ form' = [form EXCEPT ![a][s] = row[s]]
  /\ UNCHANGED <<row, logo, bucket, files, job, past>>

(* Slip: the version of the form is not looked at. *)
AsRead_Slip(a, s) == form[a][s] # None

(* _check_version: the row still has the version the form was read at;      *)
(* otherwise the save is refused.                                           *)
AsRead(a, s) == form[a][s] # None /\ form[a][s].version = row[s].version

(* update_company, update_commercial, up to the flush: a form with other    *)
(* values is compared with the row as it is read now.                       *)
BeginSave(a, s, values) ==
  /\ Count("settings")
  /\ JobIs(a, "idle")
  /\ AsRead(a, s) /\ values # row[s].values
  /\ job' = [job EXCEPT ![a] =
       [Idle EXCEPT !.pc = "save", !.row = s, !.seen = row[s], !.values = values]]
  /\ UNCHANGED <<row, logo, bucket, files, form, past>>

(* setattr of the fields that differ from the row that was read. *)
Merged(now, seen, values) ==
  [values |-> [f \in Fields |-> IF values[f] # seen.values[f] THEN values[f] ELSE now.values[f]],
   version |-> seen.version + 1]

CommitSave(a) ==
  LET s == job[a].row
      new == Merged(row[s], job[a].seen, job[a].values) IN
  /\ JobIs(a, "save")
  /\ row' = [row EXCEPT ![s] = new]
  /\ past' = [past EXCEPT ![s] = @ \cup {new}]
  /\ form' = [form EXCEPT ![a][s] = new]
  /\ job' = [job EXCEPT ![a] = Idle]
  /\ UNCHANGED <<left, logo, bucket, files>>

-----------------------------------------------------------------------------
(* Slip: a name that an earlier file of the company has. *)
FreshPath_Slip == files

(* build_logo_path: a name no other file has, or had. *)
FreshPath == files + 1

(* upload_logo up to the commit: the path of the row is read, and the file  *)
(* goes to the bucket under a new name.  No version is asked for.           *)
BeginUpload(a) ==
  /\ Count("settings")
  /\ JobIs(a, "idle")
  /\ bucket' = bucket \cup {FreshPath}
  /\ files' = FreshPath
  /\ job' = [job EXCEPT ![a] =
       [Idle EXCEPT !.pc = "logo", !.seen = row["company"], !.path = FreshPath, !.old = logo]]
  /\ UNCHANGED <<row, logo, form, past>>

(* delete_logo up to the commit; without a logo it does nothing. *)
BeginDelete(a) ==
  /\ Count("settings")
  /\ JobIs(a, "idle")
  /\ logo # None
  /\ job' = [job EXCEPT ![a] =
       [Idle EXCEPT !.pc = "logo", !.seen = row["company"], !.old = logo]]
  /\ UNCHANGED <<row, logo, bucket, files, form, past>>

(* The row takes the new path, or none. *)
CommitLogo(a) ==
  /\ JobIs(a, "logo")
  /\ logo' = job[a].path
  /\ row' = [row EXCEPT !["company"].version = job[a].seen.version + 1]
  /\ past' = [past EXCEPT !["company"] = @ \cup {row'["company"]}]
  /\ job' = [job EXCEPT ![a].pc = "drop"]
  /\ UNCHANGED <<left, bucket, files, form>>

(* The file the row had when it was read goes after the commit. *)
DropOld(a) ==
  /\ JobIs(a, "drop")
  /\ bucket' = bucket \ {job[a].old}
  /\ job' = [job EXCEPT ![a] = Idle]
  /\ UNCHANGED <<left, row, logo, files, form, past>>

(* A statement, the store or the process fails; what was committed and what *)
(* was uploaded stays.                                                      *)
Fail(a) ==
  /\ ~JobIs(a, "idle")
  /\ job' = [job EXCEPT ![a] = Idle]
  /\ UNCHANGED <<left, row, logo, bucket, files, form, past>>

SettingsStep(a) ==
  \/ \E s \in Rows : OpenForm(a, s) \/ \E values \in Values : BeginSave(a, s, values)
  \/ CommitSave(a) \/ BeginUpload(a) \/ BeginDelete(a) \/ CommitLogo(a) \/ DropOld(a) \/ Fail(a)

-----------------------------------------------------------------------------
(* The path in the row names a file that exists, whichever of two uploads   *)
(* or deletions commits last and wherever one of them dies.                 *)
LogoExists == logo # None => logo \in bucket

(* The logo, of rows of their types. *)
SettingsKept == SettingsTypeOK /\ LogoExists

(* The save of a commits at row s, and replaces a value that its form never *)
(* showed: somebody's work is lost.                                         *)
Overwrites(a, s) ==
  /\ JobIs(a, "save") /\ job[a].row = s /\ ~JobIs(a, "save")'
  /\ \E f \in Fields : /\ row'[s].values[f] # row[s].values[f]
                       /\ form[a][s].values[f] # row[s].values[f]

(* Two contents were committed at one row under one version. *)
Twin(s, v) == \E x, y \in past[s] : x # y /\ x.version = v /\ y.version = v

(* No administrator's work is replaced in silence (settings.py:5-8).        *)
NoSilentOverwrite == [][\A a \in Admins, s \in Rows : ~Overwrites(a, s)]_settings

(* What the version does give: a save whose form was stale is caught by     *)
(* _check_version unless the row was committed again between its read and   *)
(* its commit, or an earlier overlap of that kind committed another content *)
(* under the very version of the form.                                      *)
VersionProtects ==
  [][\A a \in Admins, s \in Rows :
       Overwrites(a, s) => row[s] # job[a].seen \/ Twin(s, form[a][s].version)]_settings
=============================================================================

------------------------- MODULE DocumentSequences -------------------------
(***************************************************************************)
(* Document numbering: one row of document_sequences, the immutable        *)
(* register document_sequence_issues, the requests that take a number      *)
(* (SequenceService.issue), the administrators who change the format       *)
(* (PUT /settings/sequences/{type}) and the imports of products that move  *)
(* the counter to the highest code of their file (synchronize).            *)
(*                                                                         *)
(* A request runs in one READ COMMITTED transaction.  It looks at the      *)
(* clock, reads the row without a lock, then runs UPDATE ... RETURNING,    *)
(* which takes the row lock and re-reads the committed row; the document   *)
(* that asked for the number commits or rolls back the whole transaction.  *)
(* Nothing is visible to others before the commit, and the row lock keeps  *)
(* every other writer out until then, so the new row is computed from      *)
(* `seq' and published by the commit.                                      *)
(***************************************************************************)
EXTENDS Integers, FiniteSets

CONSTANTS
  Requests,     \* transactions that take one number each
  Admins,       \* transactions that change the configuration
  Imports,      \* transactions that import products
  Imported,     \* the highest numbers their files carry
  Casts,        \* sets of transactions, of which a behaviour has one
  Units,        \* reset policies in use: a subset of ResetPolicy
  FirstPolicy,  \* the policy the migration seeds
  MonthDays,    \* days in a month of the model's calendar
  YearDays,     \* days in a year of the model's calendar
  MaxDay,       \* bound: the clock stops here
  None          \* nobody holds the row lock

ResetPolicy == {"NEVER", "YEARLY", "MONTHLY", "DAILY"}

ASSUME SequencesAssumption ==
  /\ Units \subseteq ResetPolicy
  /\ FirstPolicy \in Units
  /\ MonthDays \in Nat \ {0}
  /\ YearDays \in Nat \ {0}
  /\ MaxDay \in Nat
  /\ None \notin Requests \cup Admins \cup Imports
  /\ Requests \cap Admins = {}
  /\ Imports \cap (Requests \cup Admins) = {}
  /\ Imported \subseteq Nat \ {0}
  /\ Casts \subseteq SUBSET (Requests \cup Admins \cup Imports)

VARIABLES
  day,      \* the date every process reads
  seq,      \* the committed row of document_sequences
  issues,   \* the committed rows of document_sequence_issues
  rowLock,  \* who holds the row lock on `seq'
  req,      \* the local state of each issuing transaction
  cfg,      \* the local state of each configuring transaction
  imp,      \* the local state of each importing transaction
  jumped,   \* auxiliary: the numbers of a period that imports moved over
  cast      \* the transactions there are

vars == <<day, seq, issues, rowLock, req, cfg, imp, jumped, cast>>

-----------------------------------------------------------------------------
(* Operators named X_Slip are X with a plausible coding slip; no action uses *)
(* one.  Each shows that some property would notice the slip.               *)

(* The key of the period a date falls in: the empty string, a year, a month *)
(* or a date.  The strings have different lengths, so keys of two policies  *)
(* never coincide.                                                          *)
PeriodKeyFor(policy, d) ==
  [unit  |-> policy,
   index |-> IF policy = "NEVER" THEN 0
             ELSE IF policy = "YEARLY" THEN d \div YearDays
             ELSE IF policy = "MONTHLY" THEN d \div MonthDays
             ELSE d]

(* What a pattern prints, up to wording: the finest date marker it contains *)
(* (NEVER: none), that date, and the number.                                *)
Render(pattern, n, d) == [shows |-> PeriodKeyFor(pattern, d), number |-> n]

(* Slip: no restart when the period changes. *)
NextValue_Slip(row, period) == row.value + 1

(* CASE WHEN period_key = :period THEN current_value + 1 ELSE 1 END. *)
NextValue(row, period) == IF row.period = period THEN row.value + 1 ELSE 1

PeriodKey == [unit : ResetPolicy, index : Nat]
Row == [value : Nat, period : PeriodKey, policy : ResetPolicy,
        pattern : ResetPolicy, active : BOOLEAN, version : Nat]
Text == [shows : PeriodKey, number : Nat]
Issue == [period : PeriodKey, number : Nat, text : Text]

ReqPc == {"idle", "dated", "read", "updated", "done", "refused", "duplicate", "lost"}
Request == [pc : ReqPc, today : 0..MaxDay, period : PeriodKey, number : Nat, text : Text]
Ended == {"done", "refused", "duplicate", "lost"}
Jump == [period : PeriodKey, number : Nat]

FirstRow == [value |-> 0, period |-> PeriodKeyFor("NEVER", 0), policy |-> FirstPolicy,
             pattern |-> FirstPolicy, active |-> TRUE, version |-> 1]
NewRequest == [pc |-> "idle", today |-> 0, period |-> FirstRow.period,
               number |-> 0, text |-> Render(FirstPolicy, 0, 0)]

TypeOK ==
  /\ day \in 0..MaxDay
  /\ seq \in Row
  /\ issues \in SUBSET Issue
  /\ rowLock \in Requests \cup Admins \cup Imports \cup {None}
  /\ req \in [Requests -> Request]
  /\ cfg \in [Admins -> [pc : {"idle", "read", "done", "lost"}, seen : Row]]
  /\ imp \in [Imports -> [pc : {"idle", "moved", "done", "lost"}, number : Nat]]
  /\ jumped \in SUBSET Jump
  /\ cast \in Casts

Init ==
  /\ day = 0
  /\ seq = FirstRow
  /\ issues = {}
  /\ rowLock = None
  /\ req = [r \in Requests |-> NewRequest]
  /\ cfg = [a \in Admins |-> [pc |-> "idle", seen |-> FirstRow]]
  /\ imp = [i \in Imports |-> [pc |-> "idle", number |-> 0]]
  /\ jumped = {}
  /\ cast \in Casts

-----------------------------------------------------------------------------
(* A statement that writes the row waits until nobody holds its lock. *)
LockFree == rowLock = None

(* Slip: the lock survives the transaction. *)
Unlocked_Slip(r) == rowLock

(* The row lock once the transaction of r is over. *)
Unlocked(r) == IF rowLock = r THEN None ELSE rowLock

(* Midnight in UTC. *)
Tick ==
  /\ day < MaxDay
  /\ day' = day + 1
  /\ UNCHANGED <<seq, issues, rowLock, req, cfg, imp, jumped, cast>>

(* issue: the date is taken before the first query. *)
TakeDate(r) ==
  /\ r \in cast /\ req[r].pc = "idle"
  /\ req' = [req EXCEPT ![r].pc = "dated", ![r].today = day]
  /\ UNCHANGED <<day, seq, issues, rowLock, cfg, imp, jumped, cast>>

(* issue: the row is read without a lock; an inactive sequence refuses, and *)
(* the period is fixed from the policy just read and the date taken before. *)
ReadRow(r) ==
  /\ req[r].pc = "dated"
  /\ req' = IF seq.active
            THEN [req EXCEPT ![r].pc = "read",
                             ![r].period = PeriodKeyFor(seq.policy, req[r].today)]
            ELSE [req EXCEPT ![r].pc = "refused"]
  /\ UNCHANGED <<day, seq, issues, rowLock, cfg, imp, jumped, cast>>

(* issue: UPDATE ... RETURNING.  It waits for the row lock and works on the *)
(* row committed by then; the format it returns is the one of that row.     *)
UpdateRow(r) ==
  LET n == NextValue(seq, req[r].period) IN
  /\ req[r].pc = "read"
  /\ LockFree
  /\ rowLock' = r
  /\ req' = [req EXCEPT ![r].pc = "updated",
                        ![r].number = n,
                        ![r].text = Render(seq.pattern, n, req[r].today)]
  /\ UNCHANGED <<day, seq, issues, cfg, imp, jumped, cast>>

(* The two UNIQUE constraints of document_sequence_issues. *)
Clashes(i) ==
  \E j \in issues : \/ j.period = i.period /\ j.number = i.number
                    \/ j.text = i.text

IssueOf(r) == [period |-> req[r].period, number |-> req[r].number, text |-> req[r].text]

(* The document is saved: the register takes the number and the row moves,  *)
(* or a UNIQUE constraint aborts the whole transaction.                     *)
CommitIssue(r) ==
  /\ req[r].pc = "updated"
  /\ rowLock' = Unlocked(r)
  /\ IF Clashes(IssueOf(r))
     THEN /\ req' = [req EXCEPT ![r].pc = "duplicate"]
          /\ UNCHANGED <<seq, issues>>
     ELSE /\ req' = [req EXCEPT ![r].pc = "done"]
          /\ issues' = issues \cup {IssueOf(r)}
          /\ seq' = [seq EXCEPT !.value = req[r].number, !.period = req[r].period]
  /\ UNCHANGED <<day, cfg, imp, jumped, cast>>

(* The document that asked for the number fails, or the process dies: the   *)
(* transaction rolls back and the number goes back with it.                 *)
RollBackIssue(r) ==
  /\ req[r].pc \in {"dated", "read", "updated"}
  /\ req' = [req EXCEPT ![r].pc = "lost"]
  /\ rowLock' = Unlocked(r)
  /\ UNCHANGED <<day, seq, issues, cfg, imp, jumped, cast>>

(* update_sequence: the row is read without a lock and its version compared *)
(* with the client's; a different version is a 409 with no effect.          *)
ReadConfig(a) ==
  /\ a \in cast /\ cfg[a].pc = "idle"
  /\ cfg' = [cfg EXCEPT ![a] = [pc |-> "read", seen |-> seq]]
  /\ UNCHANGED <<day, seq, issues, rowLock, req, imp, jumped, cast>>

(* Slip: every column is written back from the row that was read. *)
Configured_Slip(seen, policy, pattern, active) ==
  [seen EXCEPT !.policy = policy, !.pattern = pattern, !.active = active,
               !.version = @ + 1]

(* The row after setattr and flush: only the columns that differ from the   *)
(* row read are written, with the version read plus one.                    *)
Configured(seen, policy, pattern, active) ==
  IF <<policy, pattern, active>> = <<seen.policy, seen.pattern, seen.active>>
  THEN seq
  ELSE [seq EXCEPT !.policy  = IF policy # seen.policy THEN policy ELSE @,
                   !.pattern = IF pattern # seen.pattern THEN pattern ELSE @,
                   !.active  = IF active # seen.active THEN active ELSE @,
                   !.version = seen.version + 1]

(* update_sequence: the flush waits for the row lock; the commit follows it. *)
WriteConfig(a, policy, pattern, active) ==
  /\ cfg[a].pc = "read"
  /\ LockFree
  /\ seq' = Configured(cfg[a].seen, policy, pattern, active)
  /\ cfg' = [cfg EXCEPT ![a].pc = "done"]
  /\ UNCHANGED <<day, issues, rowLock, req, imp, jumped, cast>>

RollBackConfig(a) ==
  /\ cfg[a].pc = "read"
  /\ cfg' = [cfg EXCEPT ![a].pc = "lost"]
  /\ UNCHANGED <<day, seq, issues, rowLock, req, imp, jumped, cast>>

(* WHERE current_value < n. *)
Behind(n) == seq.value < n

(* synchronize, near the end of an import: UPDATE ... WHERE current_value   *)
(* < n.  A row that is not behind is left alone and not waited for; another *)
(* is waited for, and looked at again once its lock is free.                *)
Synchronize(i, n) ==
  /\ i \in cast /\ imp[i].pc = "idle"
  /\ IF Behind(n)
     THEN /\ LockFree
          /\ rowLock' = i
          /\ imp' = [imp EXCEPT ![i] = [pc |-> "moved", number |-> n]]
     ELSE /\ imp' = [imp EXCEPT ![i].pc = "done"]
          /\ UNCHANGED rowLock
  /\ UNCHANGED <<day, seq, issues, req, cfg, jumped, cast>>

(* The import is confirmed: only the counter moves, in whatever period the  *)
(* row is.  The register gets no row for the numbers in between.            *)
CommitImport(i) ==
  /\ imp[i].pc = "moved"
  /\ imp' = [imp EXCEPT ![i].pc = "done"]
  /\ rowLock' = Unlocked(i)
  /\ seq' = [seq EXCEPT !.value = imp[i].number]
  /\ jumped' = jumped \cup [period : {seq.period}, number : seq.value + 1 .. imp[i].number]
  /\ UNCHANGED <<day, issues, req, cfg, cast>>

(* A later row of the file fails, or the process dies. *)
RollBackImport(i) ==
  /\ imp[i].pc = "moved"
  /\ imp' = [imp EXCEPT ![i].pc = "lost"]
  /\ rowLock' = Unlocked(i)
  /\ UNCHANGED <<day, seq, issues, req, cfg, jumped, cast>>

RequestStep(r) == TakeDate(r) \/ ReadRow(r) \/ UpdateRow(r) \/ CommitIssue(r)

ConfigStep(a) ==
  \/ ReadConfig(a)
  \/ \E policy, pattern \in Units, active \in BOOLEAN : WriteConfig(a, policy, pattern, active)

ImportStep(i) == CommitImport(i) \/ \E n \in Imported : Synchronize(i, n)

Next ==
  \/ Tick
  \/ \E r \in Requests : RequestStep(r) \/ RollBackIssue(r)
  \/ \E a \in Admins : ConfigStep(a) \/ RollBackConfig(a)
  \/ \E i \in Imports : ImportStep(i) \/ RollBackImport(i)

Spec == Init /\ [][Next]_vars

(* A request that arrived keeps running: the event loop schedules every     *)
(* coroutine and PostgreSQL wakes a waiter when the lock is free.           *)
Fairness ==
  /\ \A r \in Requests : WF_vars((req[r].pc # "idle" /\ RequestStep(r)))
  /\ \A a \in Admins : WF_vars((cfg[a].pc # "idle" /\ ConfigStep(a)))
  /\ \A i \in Imports : WF_vars((imp[i].pc # "idle" /\ ImportStep(i)))

LiveSpec == Spec /\ Fairness

-----------------------------------------------------------------------------
Numbers(period) == {i.number : i \in {j \in issues : j.period = period}}
Jumped(period) == {k.number : k \in {j \in jumped : j.period = period}}

(* The numbers of a period that are spoken for. *)
Taken(period) == Numbers(period) \cup Jumped(period)

(* No number goes missing: in every period what was handed out, together    *)
(* with what imports moved over, is 1..k, whatever rolled back in between,  *)
(* and the row counts into it (README "Reglas del correlativo").  In a      *)
(* period no import touched, no number is ahead of the row.  (In one that   *)
(* an import moved, the row may come back over New Year and begin again.)   *)
Contiguous ==
  /\ \A p \in {j.period : j \in issues \cup jumped} : Taken(p) = 1..Cardinality(Taken(p))
  /\ seq.value > 0 => seq.value \in Taken(seq.period)
  /\ Jumped(seq.period) = {} =>
       \A i \in issues : i.period = seq.period => i.number <= seq.value

(* No two rows of the register share a number of a period, or a text.       *)
NoSharedNumber ==
  \A i, j \in issues : (i.period = j.period /\ i.number = j.number) \/ i.text = j.text => i = j

(* What the register must be at any time, around midnight and imports too:  *)
(* no number of a period is missing and nothing is in it twice.             *)
RegisterSound == Contiguous /\ NoSharedNumber

(* The counter is never rewound inside a period: not by a change of format, *)
(* whose handler read the row before other requests took numbers, and not   *)
(* by an import whose file ends below what others issued meanwhile.         *)
CounterNeverRewinds ==
  [][seq'.period = seq.period => seq'.value >= seq.value]_vars

(* A document's text uses the format in force when its number is registered *)
(* (RETURNING), not the format of the unlocked read.                        *)
TextUsesCurrentFormat ==
  [][\A i \in issues' \ issues : i.text.shows.unit = seq.pattern]_vars

(* An edit of the format or an import that overlaps requests in flight: the *)
(* counter it read is not written back, and who registers after the edit    *)
(* prints its format.                                                       *)
EditsOverlapSafely == CounterNeverRewinds /\ TextUsesCurrentFormat

(* Every request that took its date ends: no rollback or clash leaves the   *)
(* row lock behind for the others to wait on.                               *)
EveryRequestEnds ==
  \A r \in Requests : req[r].pc = "dated" ~> req[r].pc \in Ended
=============================================================================

------------------------------ MODULE Records ------------------------------
(***************************************************************************)
(* The records of one OCR job: their import when a run completes, the      *)
(* reviewers who correct and approve them, the admin who deletes them, the *)
(* maintenance scripts that rewrite or re-read them, and what an export    *)
(* shows of them.                                                          *)
(*                                                                         *)
(* A request is one transaction under READ COMMITTED.  It compares the     *)
(* version in Python, without a lock; its INSERT into record_revisions     *)
(* waits for any transaction that has written the same record, and the     *)
(* unique key (record_id, version) refuses the second writer of a version. *)
(* An UPDATE writes the columns that differ from what the session read.    *)
(*                                                                         *)
(* A value says where a text came from, not what it is.  How often a job   *)
(* runs, and that two runs of it can overlap, is the business of OcrJobs.  *)
(***************************************************************************)
EXTENDS Naturals, FiniteSets

CONSTANTS
  Records,     \* record ids; a deleted one is used again once nobody refers to it
  Keys,        \* (source_key, source_page, source_record_index) of the job's rows
  Fields,      \* business fields
  Reviewers,   \* requests of reviewers in flight
  Imports,     \* runs of the job that reach complete_job
  NoRow,       \* what is in the table under an id that is not there
  NoValue,     \* a field that a JSON column does not have
  NoRecord,    \* what a request that has no record in hand has in hand
  MaxVersion,  \* versions up to which a record is followed: bounds the model
  Allowed,     \* which of Spendable may happen
  Budget       \* how many of them, all in all: bounds the model

Spendable == {"correct", "approve", "bulk", "import", "delete", "abort",
              "not_recorded", "word_amounts", "backfill", "reprocess"}

\* The placeholder is the text for "no information".
Blank == ""
Text  == {Blank, "placeholder", "read", "clean"} \cup Reviewers
Cell  == Text \cup {NoValue}

Status == {"PENDING_REVIEW", "APPROVED"}

\* validation_issues, by which script can explain them.
Issues == {"none", "not_recorded", "words", "other"}

Row == [key : Keys, status : Status, version : Nat \ {0}, values : [Fields -> Text],
        normalized : [Fields -> Cell], audit : BOOLEAN, corrected : [Fields -> Cell],
        missing : SUBSET Fields, issues : Issues, reviewed : BOOLEAN]

Op == {"correct", "approve", "bulk"}

\* `seen` is history: the values in the version that the request names, which are
\* not stored.  A bulk approval names no version (BulkApproveRequest has ids only).
Revision == [rec : Records, version : Nat, op : Op, previous : [Fields -> Text],
             new : [Fields -> Cell], seen : [Fields -> Cell]]

ASSUME RecordsAssumption ==
  /\ NoRow \notin Row
  /\ NoValue \notin Text
  /\ NoRecord \notin Records
  /\ MaxVersion \in Nat \ {0}
  /\ Allowed \subseteq Spendable
  /\ Budget \in Nat

VARIABLES
  row,        \* ocr_records: a Row under each id, or NoRow
  revisions,  \* record_revisions
  typed,      \* the job's document type: typed, or handwritten
  pc,         \* where each request is
  op,         \* what it is for
  rec,        \* the record it has in hand
  todo,       \* records a bulk approval has still to read
  seen,       \* the row on the reviewer's screen, whose version the request names
  snap,       \* the row as the session read it
  pending,    \* rows it has written and not committed
  added,      \* revisions it has inserted and not committed
  inserted,   \* rows an import has inserted and not committed
  holder,     \* imports that hold the lock on the job's row
  script,     \* the script that is running
  copies,     \* the rows it has selected, as it read them
  rewritten,  \* history: records a script wrote under the eyes of a reviewer
  reviewed,   \* history: keys with a revision that no admin has deleted
  discarded,  \* history: keys a reprocess deleted that changed since it looked
  left        \* what remains of Budget

reqVars    == <<pc, op, rec, todo, seen, snap, pending, added>>
importVars == <<inserted, holder>>
scriptVars == <<script, copies>>
history    == <<rewritten, reviewed, discarded>>
vars == <<row, revisions, typed, reqVars, importVars, scriptVars, history, left>>

NoRows == [r \in Records |-> NoRow]
Nil    == [f \in Fields |-> NoValue]

Init ==
  /\ row = NoRows /\ revisions = {} /\ typed \in BOOLEAN
  /\ pc      = [s \in Reviewers |-> "idle"]
  /\ op      = [s \in Reviewers |-> "correct"]
  /\ rec     = [s \in Reviewers |-> NoRecord]
  /\ todo    = [s \in Reviewers |-> {}]
  /\ seen    = [s \in Reviewers |-> NoRow]
  /\ snap    = [s \in Reviewers |-> NoRow]
  /\ pending = [s \in Reviewers |-> NoRows]
  /\ added   = [s \in Reviewers |-> {}]
  /\ inserted = [i \in Imports |-> NoRows] /\ holder = {}
  /\ script = "none" /\ copies = NoRows
  /\ rewritten = {} /\ reviewed = {} /\ discarded = {}
  /\ left = Budget

-----------------------------------------------------------------------------
(* Building blocks *)

Spend(what) ==
  /\ what \in Allowed
  /\ left > 0
  /\ left' = left - 1

Live == {r \in Records : row[r] # NoRow}
Held(s) == {r \in Records : pending[s][r] # NoRow}
Locked(r) == \E s \in Reviewers : r \in Held(s)

\* {**under, **over}
Overlay(under, over) == [f \in Fields |-> IF over[f] = NoValue THEN under[f] ELSE over[f]]

\* One column of an UPDATE: only what differs from what was read is written.
Column(read, new, now) == IF new = read THEN now ELSE new

Update(read, new, now) ==
  [key |-> now.key,
   status     |-> Column(read.status, new.status, now.status),
   version    |-> Column(read.version, new.version, now.version),
   values     |-> Column(read.values, new.values, now.values),
   normalized |-> Column(read.normalized, new.normalized, now.normalized),
   audit      |-> Column(read.audit, new.audit, now.audit),
   corrected  |-> Column(read.corrected, new.corrected, now.corrected),
   missing    |-> Column(read.missing, new.missing, now.missing),
   issues     |-> Column(read.issues, new.issues, now.issues),
   reviewed   |-> Column(read.reviewed, new.reviewed, now.reviewed)]

\* Mutant: the status that the queue had before, which is not in the enum.
StatusForOld(missing) == IF missing # {} THEN "NEEDS_REVIEW" ELSE "APPROVED"

StatusFor(missing) == IF missing # {} THEN "PENDING_REVIEW" ELSE "APPROVED"

-----------------------------------------------------------------------------
(* Import *)

\* _initial_status_for
InitialStatusFor(missing, confidence) ==
  IF missing # {} \/ confidence = "low" THEN "PENDING_REVIEW" ELSE "APPROVED"

\* create_record: normalized_data falls back to the field values.
Created(key, status, values, normalized, missing, issues) ==
  [key |-> key, status |-> status, version |-> 1, values |-> values,
   normalized |-> IF normalized = Nil THEN values ELSE normalized,
   audit |-> FALSE, corrected |-> Nil, missing |-> missing, issues |-> issues,
   reviewed |-> FALSE]

\* What not_recorded.resolve approves: normalized_data has the audit entry only.
Resolved(key, values) ==
  [Created(key, "APPROVED", values, Nil, {}, "none") EXCEPT !.normalized = Nil, !.audit = TRUE]

\* import_records_from_xlsx.  Fields the reader left empty get the placeholder;
\* nothing is missing; and not_recorded.resolve may clean the values and approve.
\* "none" includes the issues that no script looks at.
FromXlsx(key) ==
  LET Read == [Fields -> {"read", "placeholder"}]
  IN  {Created(key, InitialStatusFor({}, confidence), values, Nil, {}, issues) :
         confidence \in {"low", "high"}, values \in Read, issues \in {"none", "not_recorded"}}
      \cup {Resolved(key, values) : values \in [Fields -> {"read", "placeholder", "clean"}]}

\* import_records_from_csv.  There is no confidence; a field is missing because
\* the reader says so, whether it is blank or not, or to confirm an amount.
FromCsv(key) ==
  {Created(key, InitialStatusFor(missing, "none"), values, values, missing, issues) :
     values \in [Fields -> {"read", Blank}], missing \in SUBSET Fields,
     issues \in {"none", "other"}}
  \cup {Created(key, "PENDING_REVIEW", values, Nil, missing, "words") :
     values \in [Fields -> {"read", Blank}] \ {[f \in Fields |-> Blank]},
     missing \in (SUBSET Fields) \ {{}}}

\* A new id: nobody refers to it.
Fresh(r) ==
  /\ row[r] = NoRow /\ copies[r] = NoRow
  /\ \A s \in Reviewers : rec[s] # r /\ r \notin todo[s] /\ pending[s][r] = NoRow
  /\ \A i \in Imports : inserted[i][r] = NoRow

Absent(key) == \A r \in Live : row[r].key # key

\* Mutant: a run imports before it has marked the job completed.
ImportUnlocked(i) ==
  /\ i \notin holder
  /\ Spend("import")
  /\ \E key \in Keys, r \in Records :
       /\ Absent(key) /\ Fresh(r)
       /\ \E new \in IF typed THEN FromCsv(key) ELSE FromXlsx(key) :
            inserted' = [inserted EXCEPT ![i][r] = new]
  /\ holder' = holder \cup {i}
  /\ UNCHANGED <<row, revisions, typed, reqVars, scriptVars, history>>

\* complete_job: mark_completed's UPDATE holds the job's row until the commit, so
\* that a second run of the job reads which keys are there after the first.
Import(i) ==
  /\ holder = {}
  /\ Spend("import")
  /\ \E key \in Keys, r \in Records :
       /\ Absent(key) /\ Fresh(r)
       /\ \E new \in IF typed THEN FromCsv(key) ELSE FromXlsx(key) :
            inserted' = [inserted EXCEPT ![i][r] = new]
  /\ holder' = {i}
  /\ UNCHANGED <<row, revisions, typed, reqVars, scriptVars, history>>

\* The next row of the sheet.
ImportNext(i) ==
  /\ i \in holder
  /\ \E key \in Keys, r \in Records :
       /\ Absent(key) /\ Fresh(r)
       /\ \A q \in Records : inserted[i][q] # NoRow => inserted[i][q].key # key
       /\ \E new \in IF typed THEN FromCsv(key) ELSE FromXlsx(key) :
            inserted' = [inserted EXCEPT ![i][r] = new]
  /\ UNCHANGED <<row, revisions, typed, reqVars, holder, scriptVars, history, left>>

ImportCommit(i) ==
  /\ i \in holder
  /\ row' = [r \in Records |-> IF inserted[i][r] # NoRow THEN inserted[i][r] ELSE row[r]]
  /\ rewritten' = {r \in rewritten : inserted[i][r] = NoRow}
  /\ inserted'  = [inserted EXCEPT ![i] = NoRows]
  /\ holder'    = holder \ {i}
  /\ UNCHANGED <<revisions, typed, reqVars, scriptVars, reviewed, discarded, left>>

ImportAbort(i) ==
  /\ i \in holder
  /\ Spend("abort")
  /\ inserted' = [inserted EXCEPT ![i] = NoRows]
  /\ holder'   = holder \ {i}
  /\ UNCHANGED <<row, revisions, typed, reqVars, scriptVars, history>>

-----------------------------------------------------------------------------
(* Review *)

\* The request ends: it has committed, or its transaction is rolled back.
End(s) ==
  /\ pc'      = [pc EXCEPT ![s] = "idle"]
  /\ rec'     = [rec EXCEPT ![s] = NoRecord]
  /\ todo'    = [todo EXCEPT ![s] = {}]
  /\ seen'    = [seen EXCEPT ![s] = NoRow]
  /\ snap'    = [snap EXCEPT ![s] = NoRow]
  /\ pending' = [pending EXCEPT ![s] = NoRows]
  /\ added'   = [added EXCEPT ![s] = {}]
  /\ UNCHANGED op

\* A reviewer opens a record, to correct or approve it.
Open(s, r, what) ==
  /\ pc[s] = "idle"
  /\ what \in {"correct", "approve"} /\ Spend(what)
  /\ row[r] # NoRow /\ row[r].version < MaxVersion
  /\ pc'   = [pc EXCEPT ![s] = "open"]
  /\ op'   = [op EXCEPT ![s] = what]
  /\ rec'  = [rec EXCEPT ![s] = r]
  /\ seen' = [seen EXCEPT ![s] = row[r]]
  /\ UNCHANGED <<row, revisions, typed, todo, snap, pending, added, importVars, scriptVars, history>>

\* Mutant: the version of the request is not compared.
IsCurrentAlways(s, r) == row[r] # NoRow

\* get_record_or_raise, and the comparison with the version of the request.
IsCurrent(s, r) == row[r] # NoRow /\ row[r].version = seen[s].version

\* _set_review_status leaves a record alone that has the status already.
NothingToDo(s, r) == op[s] # "correct" /\ row[r].status = "APPROVED"

Read(s) ==
  /\ pc[s] = "open"
  /\ IsCurrent(s, rec[s]) /\ ~NothingToDo(s, rec[s])
  /\ pc'   = [pc EXCEPT ![s] = "read"]
  /\ snap' = [snap EXCEPT ![s] = row[rec[s]]]
  /\ UNCHANGED <<row, revisions, typed, op, rec, todo, seen, pending, added,
                 importVars, scriptVars, history, left>>

\* 404, 409, or an approval of what is approved.
Decline(s) ==
  /\ pc[s] = "open"
  /\ IsCurrent(s, rec[s]) => NothingToDo(s, rec[s])
  /\ End(s)
  /\ UNCHANGED <<row, revisions, typed, importVars, scriptVars, history, left>>

\* bulk_approve_records: the records of a page, whatever their version.
OpenBulk(s, rs) ==
  /\ pc[s] = "idle" /\ Spend("bulk")
  /\ rs # {} /\ \A r \in rs : row[r] # NoRow /\ row[r].version < MaxVersion
  /\ pc'   = [pc EXCEPT ![s] = "next"]
  /\ op'   = [op EXCEPT ![s] = "bulk"]
  /\ todo' = [todo EXCEPT ![s] = rs]
  /\ UNCHANGED <<row, revisions, typed, rec, seen, snap, pending, added, importVars, scriptVars, history>>

\* The version that is compared is that of the row just read: nothing is compared.
ReadNext(s) ==
  /\ pc[s] = "next"
  /\ \E r \in todo[s] :
       /\ row[r] # NoRow /\ row[r].version < MaxVersion
       /\ todo' = [todo EXCEPT ![s] = @ \ {r}]
       /\ IF NothingToDo(s, r)
            THEN UNCHANGED <<pc, rec, snap>>
            ELSE /\ pc'   = [pc EXCEPT ![s] = "read"]
                 /\ rec'  = [rec EXCEPT ![s] = r]
                 /\ snap' = [snap EXCEPT ![s] = row[r]]
  /\ UNCHANGED <<row, revisions, typed, op, seen, pending, added, importVars, scriptVars,
                 history, left>>

\* One record of a bulk approval is gone: none is approved.
NextIsGone(s) ==
  /\ pc[s] = "next"
  /\ \E r \in todo[s] : row[r] = NoRow
  /\ End(s)
  /\ UNCHANGED <<row, revisions, typed, importVars, scriptVars, history, left>>

\* apply_correction: what the record becomes.
Corrected(read, change) ==
  LET values == Overlay(read.values, change)
      still  == {f \in read.missing : values[f] = Blank}
  IN  [read EXCEPT !.values = values, !.corrected = Overlay(@, change),
                   !.missing = still, !.status = StatusFor(still),
                   !.reviewed = TRUE, !.version = @ + 1]

\* _set_review_status
Approved(read) == [read EXCEPT !.status = "APPROVED", !.reviewed = TRUE, !.version = @ + 1]

\* Mutant: record_revisions has no unique key.
VersionNotChecked(r, version) == TRUE

VersionIsFree(r, version) == \A v \in revisions : v.rec = r => v.version # version

Changes(s) == [Fields -> {NoValue, Blank, s}]

\* What the request vouches for.
Vouched(s) == IF op[s] = "bulk" THEN Nil ELSE seen[s].values

Reads(s) == pc[s] = "read" /\ ~Locked(rec[s])

\* append_revision's INSERT, and the UPDATE of the record.
Write(s) ==
  LET r == rec[s]
      read == snap[s]
  IN  /\ Reads(s)
      /\ row[r] # NoRow /\ VersionIsFree(r, read.version + 1)
      /\ \E change \in IF op[s] = "correct" THEN Changes(s) ELSE {read.values} :
           LET new == IF op[s] = "correct" THEN Corrected(read, change) ELSE Approved(read)
           IN  /\ pending' = [pending EXCEPT ![s][r] = Update(read, new, row[r])]
               /\ added' = [added EXCEPT ![s] = @ \cup
                    {[rec |-> r, version |-> read.version + 1, op |-> op[s],
                      previous |-> read.values, new |-> change, seen |-> Vouched(s)]}]
      /\ pc'   = [pc EXCEPT ![s] = "next"]
      /\ rec'  = [rec EXCEPT ![s] = NoRecord]
      /\ snap' = [snap EXCEPT ![s] = NoRow]
      /\ seen' = [seen EXCEPT ![s] = NoRow]
      /\ UNCHANGED <<row, revisions, typed, op, todo, importVars, scriptVars, history, left>>

\* The record is gone, or the version is taken: IntegrityError, 500.
WriteRefused(s) ==
  /\ Reads(s)
  /\ row[rec[s]] = NoRow \/ ~VersionIsFree(rec[s], snap[s].version + 1)
  /\ End(s)
  /\ UNCHANGED <<row, revisions, typed, importVars, scriptVars, history, left>>

\* All the records of the request at once.
Commit(s) ==
  /\ pc[s] = "next" /\ todo[s] = {}
  /\ row' = [r \in Records |-> IF pending[s][r] # NoRow THEN pending[s][r] ELSE row[r]]
  /\ revisions' = revisions \cup added[s]
  /\ reviewed'  = reviewed \cup {pending[s][r].key : r \in Held(s)}
  /\ End(s)
  /\ UNCHANGED <<typed, importVars, scriptVars, rewritten, discarded, left>>

\* The reviewer leaves the page, the connection breaks, or the database picks
\* the request to break a deadlock of two bulk approvals.
Abort(s) ==
  /\ pc[s] # "idle"
  /\ Spend("abort")
  /\ End(s)
  /\ UNCHANGED <<row, revisions, typed, importVars, scriptVars, history>>

\* delete_record: its revisions go with it.
Delete(r) ==
  /\ row[r] # NoRow /\ ~Locked(r)
  /\ Spend("delete")
  /\ row' = [row EXCEPT ![r] = NoRow]
  /\ revisions' = {v \in revisions : v.rec # r}
  /\ reviewed'  = reviewed \ {row[r].key}
  /\ UNCHANGED <<typed, reqVars, importVars, scriptVars, rewritten, discarded>>

-----------------------------------------------------------------------------
(* Scripts *)

\* Mutant: reviewed records are selected too.
UntouchedOrNot(r) == TRUE

\* "untouched by a human (version 1, no reviewer)"
Untouched(r) == row[r].version = 1 /\ ~row[r].reviewed

\* The SELECT of each script, and the plan that lets the record be.
Selects(what, r) ==
  /\ row[r] # NoRow /\ Untouched(r)
  /\ CASE what = "not_recorded" -> /\ ~typed /\ row[r].status = "PENDING_REVIEW"
                                   /\ row[r].issues = "not_recorded"
       [] what = "word_amounts" -> /\ typed /\ row[r].status = "PENDING_REVIEW"
                                   /\ row[r].issues = "words" /\ Cardinality(row[r].missing) = 1
       [] what = "backfill"     -> /\ typed /\ \E f \in Fields :
                                        row[r].values[f] = Blank \/ f \in row[r].missing
       [] what = "reprocess"    -> TRUE

\* A script reads all it is going to change before it changes any of it.
Select(what) ==
  /\ script = "none" /\ Spend(what)
  /\ \E r \in Records : Selects(what, r)
  /\ what = "reprocess" => \A r \in Live : Selects(what, r)
  /\ script' = what
  /\ copies' = [r \in Records |-> IF Selects(what, r) THEN row[r] ELSE NoRow]
  /\ UNCHANGED <<row, revisions, typed, reqVars, importVars, history>>

\* approve_not_recorded.plan_update: the cleaned values, and the audit entry.
NotRecorded(read) ==
  {[read EXCEPT !.values = [f \in Fields |-> IF f \in cleaned THEN "clean" ELSE @[f]],
                !.issues = "none", !.audit = TRUE, !.status = "APPROVED"] :
     cleaned \in SUBSET {f \in Fields : read.values[f] = "read"}}

\* approve_word_amounts.plan_update
WordAmounts(read) ==
  {[read EXCEPT !.missing = {}, !.issues = "none", !.audit = TRUE, !.status = "APPROVED"]}

\* backfill_mas_kahwin_from_raw: the field is written, and the rest re-assessed.
Refilled(read, f, text, missing, issues) ==
  [read EXCEPT !.values[f] = text, !.missing = missing, !.issues = issues,
               !.status = IF missing = {} /\ issues = "none" THEN "APPROVED" ELSE "PENDING_REVIEW"]

\* backfill_mas_kahwin_from_raw.plan_update: the field is filled in from the
\* reader's own text, filled in to be confirmed, or cleared.
Backfill(read) ==
  LET candidates == {f \in Fields : read.values[f] = Blank \/ f \in read.missing}
  IN  {Refilled(read, f, "clean", read.missing \ {f}, issues) :
         f \in candidates, issues \in {read.issues, "none"}}
      \cup {Refilled(read, f, "clean", read.missing \cup {f}, "words") : f \in candidates}
      \cup {Refilled(read, f, Blank, read.missing, "other") : f \in candidates \cap read.missing}

Plan(read) ==
  CASE script = "not_recorded" -> NotRecorded(read)
    [] script = "word_amounts" -> WordAmounts(read)
    [] script = "backfill"     -> Backfill(read)

Selected == {r \in Records : copies[r] # NoRow}
Watched  == {r \in Records : \E s \in Reviewers : rec[s] = r}
Changed  == {r \in Selected : row[r] # copies[r]}

ScriptEnds == script' = "none" /\ copies' = NoRows

\* session.commit(), after every 500 rows and at the end: each row by its primary
\* key, whatever became of it, once no transaction holds it.
Rewrite(done) ==
  /\ script \in {"not_recorded", "word_amounts", "backfill"}
  /\ done # {} /\ done \subseteq Selected
  /\ script = "word_amounts" => done = Selected
  /\ \A r \in done : row[r] # NoRow /\ ~Locked(r)
  /\ \E new \in [done -> UNION {Plan(copies[r]) : r \in done}] :
       /\ \A r \in done : new[r] \in Plan(copies[r])
       /\ row' = [r \in Records |->
                    IF r \in done THEN Update(copies[r], new[r], row[r]) ELSE row[r]]
  /\ rewritten' = rewritten \cup (done \cap (Changed \cup Watched))
  /\ copies' = [r \in Records |-> IF r \in done THEN NoRow ELSE copies[r]]
  /\ script' = IF done = Selected THEN "none" ELSE script
  /\ UNCHANGED <<revisions, typed, reqVars, importVars, reviewed, discarded, left>>

\* A row is gone (StaleDataError), or the script is stopped, by its --limit too: nothing
\* more is written.
ScriptFails ==
  /\ script # "none"
  /\ \/ script # "reprocess" /\ \E r \in Selected : row[r] = NoRow
        /\ UNCHANGED left
     \/ Spend("abort")
  /\ ScriptEnds
  /\ UNCHANGED <<row, revisions, typed, reqVars, importVars, history>>

\* reprocess_typed_jobs and reprocess_hollow_handwritten: the job's records and
\* revisions are deleted, to be imported again.
Reprocess ==
  /\ script = "reprocess"
  /\ \A r \in Live : ~Locked(r)
  /\ row' = NoRows
  /\ revisions' = {}
  /\ discarded' = discarded \cup {row[r].key : r \in {q \in Live : row[q] # copies[q]}}
  /\ ScriptEnds
  /\ UNCHANGED <<typed, reqVars, importVars, rewritten, reviewed, left>>

-----------------------------------------------------------------------------
(* Export *)

\* Mutant: what was read wins over what was corrected.
EffectiveReadWins(r) == Overlay(Overlay(row[r].values, row[r].corrected), row[r].normalized)

\* _effective_values, on the business fields.
Effective(r) ==
  IF row[r].normalized # Nil \/ row[r].audit
    THEN Overlay(row[r].normalized, row[r].corrected)
    ELSE Overlay(row[r].values, row[r].corrected)

\* _is_exportable
Exportable == {r \in Live : row[r].status = "APPROVED"}

-----------------------------------------------------------------------------

Next ==
  \/ \E i \in Imports : Import(i) \/ ImportNext(i) \/ ImportCommit(i) \/ ImportAbort(i)
  \/ \E s \in Reviewers :
       \/ \E r \in Records, what \in {"correct", "approve"} : Open(s, r, what)
       \/ \E rs \in SUBSET Records : OpenBulk(s, rs)
       \/ Read(s) \/ Decline(s) \/ ReadNext(s) \/ NextIsGone(s)
       \/ Write(s) \/ WriteRefused(s) \/ Commit(s) \/ Abort(s)
  \/ \E r \in Records : Delete(r)
  \/ \E what \in {"not_recorded", "word_amounts", "backfill", "reprocess"} : Select(what)
  \/ \E done \in SUBSET Records : Rewrite(done)
  \/ ScriptFails \/ Reprocess

Spec == Init /\ [][Next]_vars

-----------------------------------------------------------------------------
(* Properties *)

RecordsTypeOK ==
  /\ row \in [Records -> Row \cup {NoRow}]
  /\ revisions \in SUBSET Revision
  /\ typed \in BOOLEAN
  /\ pc   \in [Reviewers -> {"idle", "open", "next", "read"}]
  /\ op   \in [Reviewers -> Op]
  /\ rec  \in [Reviewers -> Records \cup {NoRecord}]
  /\ todo \in [Reviewers -> SUBSET Records]
  /\ seen \in [Reviewers -> Row \cup {NoRow}]
  /\ snap \in [Reviewers -> Row \cup {NoRow}]
  /\ pending  \in [Reviewers -> [Records -> Row \cup {NoRow}]]
  /\ added    \in [Reviewers -> SUBSET Revision]
  /\ inserted \in [Imports -> [Records -> Row \cup {NoRow}]]
  /\ holder \subseteq Imports
  /\ script \in {"none", "not_recorded", "word_amounts", "backfill", "reprocess"}
  /\ copies \in [Records -> Row \cup {NoRow}]
  /\ rewritten \subseteq Records /\ reviewed \subseteq Keys /\ discarded \subseteq Keys
  /\ left \in Nat

Trail(r) == {v \in revisions : v.rec = r}
After(v) == Overlay(v.previous, v.new)

\* The revisions of a record are numbered from 2 to its version, each continues
\* from the one before, and the last one gives its values: no review is lost
\* under another one (append_revision, apply_correction, _set_review_status).
AuditTrailReplays ==
  \A r \in Live \ rewritten :
    /\ {v.version : v \in Trail(r)} = 2 .. row[r].version
    /\ \A v, w \in Trail(r) :
         /\ v.version = w.version => v = w
         /\ w.version = v.version + 1 => w.previous = After(v)
         /\ v.version = row[r].version => row[r].values = After(v)

\* A correction or an approval of a record is of the values that its reviewer had
\* on the screen: the version in the request vouches for them (apply_correction,
\* _set_review_status).  A bulk approval has no version, so that nothing vouches
\* for what it approves, and the property leaves it out.
ReviewIsOfWhatWasSeen ==
  \A v \in revisions : v.op # "bulk" /\ v.rec \notin rewritten => v.seen = v.previous

\* What a reviewer entered is what the record and its export show, whatever was
\* read, cleaned or corrected before.
CorrectionsShown ==
  \A r \in Live \ rewritten, f \in Fields :
    row[r].corrected[f] # NoValue =>
      row[r].values[f] = row[r].corrected[f] /\ Effective(r)[f] = row[r].corrected[f]

\* A record with a missing field leaves the review queue only when a reviewer
\* approves it as it is, and then until the next correction.
MissingNeedsApproval ==
  \A r \in Live \ rewritten :
    row[r].status = "APPROVED" /\ row[r].missing # {} =>
      \E v \in Trail(r) : v.version = row[r].version /\ v.op # "correct"

\* The rows of a job are imported once, however many runs complete it: also those
\* of typed documents, whose NULL source_page the unique key does not compare.
OneRecordPerKey ==
  \A q, r \in Live : row[q].key = row[r].key => q = r

\* A reviewed record goes only with an admin's deletion, or with a reprocess
\* that had selected its job before the review.
ReviewsSurvive ==
  \A k \in reviewed \ discarded : \E r \in Live : row[r].key = k /\ row[r].version > 1

\* An export "must use effective reviewed values, with corrections applied over
\* normalized data" (the exports design): what the record shows.
ExportMatchesRecord ==
  \A r \in Exportable : Effective(r) = row[r].values
=============================================================================

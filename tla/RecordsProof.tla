---------------------------- MODULE RecordsProof ----------------------------
(***************************************************************************)
(* Proofs about Records, for any number of records, fields, reviewers,     *)
(* imports and mishaps: the types, the audit trail, what a review is of,   *)
(* the corrections, the missing fields, one record per key, and that       *)
(* reviewed records stay.                                                  *)
(***************************************************************************)
EXTENDS Records, TLAPS

-----------------------------------------------------------------------------
(* The invariant *)

\* Only the rows of a typed document miss a field.
Good(x) == typed \/ x.missing = {}

NewRow(x) ==
  /\ x.version = 1 /\ x.corrected = Nil /\ Good(x)
  /\ x.status = "APPROVED" => x.missing = {}

\* A row and the revisions of its record.
Sound(x, trail) ==
  /\ {v.version : v \in trail} = 2 .. x.version
  /\ \A v, w \in trail :
       /\ v.version = w.version => v = w
       /\ w.version = v.version + 1 => w.previous = After(v)
       /\ v.version = x.version => x.values = After(v)
  /\ \A f \in Fields : x.corrected[f] # NoValue => x.values[f] = x.corrected[f]
  /\ x.status = "APPROVED" /\ x.missing # {} =>
       \E v \in trail : v.version = x.version /\ v.op # "correct"
  /\ x.version = 1 => x.corrected = Nil

TableInv ==
  /\ \A r \in Live : Good(row[r])
  /\ \A v \in revisions : v.rec \in Live /\ (v.op # "bulk" /\ v.rec \notin rewritten => v.seen = v.previous)
  /\ \A r \in Live \ rewritten : Sound(row[r], Trail(r))
  /\ OneRecordPerKey /\ ReviewsSurvive

\* Nobody but its import refers to a row that is not committed.
ImportInv ==
  /\ \A i, k \in holder : i = k
  /\ \A i \in Imports, r \in Records : inserted[i][r] # NoRow =>
       /\ i \in holder /\ NewRow(inserted[i][r])
       /\ row[r] = NoRow /\ copies[r] = NoRow
       /\ \A s \in Reviewers : rec[s] # r /\ r \notin todo[s] /\ pending[s][r] = NoRow
       /\ \A q \in Live : row[q].key # inserted[i][r].key
       /\ \A q \in Records : inserted[i][q] # NoRow /\ inserted[i][q].key = inserted[i][r].key
                               => q = r

\* The row that a request has read, or that its reviewer has on the screen.
Known(s) == IF pc[s] = "read" THEN snap[s] ELSE seen[s]

\* A version vouches for the row: what a request knows is older than the row, or
\* the row.  What is read is what was on the screen, but for a bulk approval.
ReadsCurrent(s) ==
  /\ pc[s] \in {"idle", "next"} => rec[s] = NoRecord
  /\ todo[s] = {} \/ (op[s] = "bulk" /\ pc[s] # "idle")
  /\ pc[s] \in {"open", "read"} => rec[s] \in Records /\ Known(s) # NoRow
  /\ pc[s] \in {"open", "read"} /\ rec[s] \in Live \ rewritten =>
       /\ Known(s).version <= row[rec[s]].version
       /\ Known(s).version = row[rec[s]].version => Known(s) = row[rec[s]]
  /\ pc[s] = "read" => Good(snap[s])
  /\ pc[s] = "read" /\ op[s] # "bulk" =>
       seen[s] # NoRow /\ (rec[s] \notin rewritten => seen[s] = snap[s])

ReadInv == \A s \in Reviewers : ReadsCurrent(s)

\* The revision v takes a record from the row old to the row new.
Continues(v, old, new) ==
  /\ v.version = old.version + 1 /\ new.version = v.version
  /\ v.previous = old.values /\ (v.op # "bulk" => v.seen = old.values) /\ new.values = After(v)
  /\ \A f \in Fields : new.corrected[f] # NoValue => new.values[f] = new.corrected[f]
  /\ new.status = "APPROVED" /\ new.missing # {} => v.op # "correct"

\* What a request has written and not committed: each record with one revision.
WritesNext(s) ==
  /\ \A v \in added[s] : v.rec \in Held(s)
  /\ \A r \in Held(s) :
       /\ row[r] # NoRow /\ pending[s][r].key = row[r].key
       /\ pending[s][r].version > 1 /\ Good(pending[s][r])
       /\ r \notin rewritten =>
            \E v \in added[s] : /\ v.rec = r /\ \A u \in added[s] : u.rec = r => u = v
                                /\ Continues(v, row[r], pending[s][r])

WriteInv ==
  /\ \A s \in Reviewers : WritesNext(s)
  /\ \A s, q \in Reviewers : s # q => Held(s) \cap Held(q) = {}

ScriptInv ==
  /\ \A r \in Records : copies[r] # NoRow => copies[r].version = 1 /\ Good(copies[r])
  /\ script = "not_recorded" => ~typed
  /\ script \in {"word_amounts", "backfill"} => typed

RecordsInv ==
  RecordsTypeOK /\ TableInv /\ ImportInv /\ ReadInv /\ WriteInv /\ ScriptInv

-----------------------------------------------------------------------------
(* Rows *)

Business == [Fields -> Text]
Cells    == [Fields -> Cell]

LEMMA RowParts ==
  /\ \A x \in Row : /\ x.key \in Keys /\ x.status \in Status /\ x.version \in Nat \ {0}
                    /\ x.values \in Business /\ x.normalized \in Cells /\ x.audit \in BOOLEAN
                    /\ x.corrected \in Cells /\ x.missing \in SUBSET Fields /\ x.issues \in Issues
                    /\ x.reviewed \in BOOLEAN
  /\ \A k \in Keys, st \in Status, n \in Nat \ {0}, b \in Business, c, d \in Cells,
        a, re \in BOOLEAN, m \in SUBSET Fields, is \in Issues :
       [key |-> k, status |-> st, version |-> n, values |-> b, normalized |-> c, audit |-> a,
        corrected |-> d, missing |-> m, issues |-> is, reviewed |-> re] \in Row
  /\ NoRow \notin Row
BY RecordsAssumption DEF Row, Business, Cells

LEMMA CellFacts ==
  /\ Nil \in Cells
  /\ Business \subseteq Cells
  /\ \A b \in Business, c \in Cells : Overlay(b, c) \in Business
  /\ \A c, d \in Cells : Overlay(c, d) \in Cells
  /\ \A b \in Business : Overlay(b, b) = b
  /\ NoValue \notin Text
BY RecordsAssumption DEF Business, Cells, Cell, Nil, Overlay

\* An UPDATE writes each column from what was read, from what is new, or not at all.
LEMMA UpdateRow ==
  ASSUME NEW read \in Row, NEW new \in Row, NEW now \in Row
  PROVE  /\ Update(read, new, now) \in Row
         /\ Update(read, new, now).key = now.key
         /\ Update(read, new, now).version = Column(read.version, new.version, now.version)
         /\ Update(read, new, now).missing = Column(read.missing, new.missing, now.missing)
<1>1. \A S, a, b, c : b \in S /\ c \in S => Column(a, b, c) \in S
  BY DEF Column
<1>2. /\ Column(read.status, new.status, now.status) \in Status
      /\ Column(read.version, new.version, now.version) \in Nat \ {0}
      /\ Column(read.values, new.values, now.values) \in Business
      /\ Column(read.normalized, new.normalized, now.normalized) \in Cells
      /\ Column(read.audit, new.audit, now.audit) \in BOOLEAN
      /\ Column(read.corrected, new.corrected, now.corrected) \in Cells
      /\ Column(read.missing, new.missing, now.missing) \in SUBSET Fields
      /\ Column(read.issues, new.issues, now.issues) \in Issues
      /\ Column(read.reviewed, new.reviewed, now.reviewed) \in BOOLEAN
  BY <1>1, RowParts
<1>3. now.key \in Keys
  BY RowParts
<1>4. Update(read, new, now) \in Row
  BY <1>2, <1>3 DEF Update, Row, Business, Cells
<1> QED BY <1>4 DEF Update

\* Nothing else has been written meanwhile: the row becomes what the request made of it.
LEMMA UpdateOfRead ==
  ASSUME NEW read \in Row, NEW new \in Row, new.key = read.key
  PROVE  /\ Update(read, new, read).status = new.status
         /\ Update(read, new, read).version = new.version
         /\ Update(read, new, read).values = new.values
         /\ Update(read, new, read).corrected = new.corrected
         /\ Update(read, new, read).missing = new.missing
         /\ Update(read, new, read).key = new.key
BY DEF Update, Column

LEMMA CreatedRow ==
  ASSUME NEW k \in Keys, NEW st \in Status, NEW b \in Business, NEW c \in Cells,
         NEW m \in SUBSET Fields, NEW is \in Issues
  PROVE  /\ Created(k, st, b, c, m, is) \in Row
         /\ Created(k, st, b, c, m, is).version = 1
         /\ Created(k, st, b, c, m, is).corrected = Nil
         /\ Created(k, st, b, c, m, is).missing = m
         /\ Created(k, st, b, c, m, is).status = st
         /\ Created(k, st, b, c, m, is).key = k
<1>1. (IF c = Nil THEN b ELSE c) \in Cells
  BY CellFacts
<1>2. Nil \in Cells
  BY CellFacts
<1>3. Created(k, st, b, c, m, is) \in Row
  BY <1>1, <1>2 DEF Created, Row, Business, Cells
<1> QED BY <1>3 DEF Created

LEMMA ResolvedRow ==
  ASSUME NEW k \in Keys, NEW b \in Business
  PROVE  /\ Resolved(k, b) \in Row
         /\ Resolved(k, b).version = 1 /\ Resolved(k, b).corrected = Nil
         /\ Resolved(k, b).missing = {} /\ Resolved(k, b).key = k
<1> DEFINE x == Created(k, "APPROVED", b, Nil, {}, "none")
<1>1. "APPROVED" \in Status /\ "none" \in Issues /\ Nil \in Cells /\ {} \in SUBSET Fields
  BY CellFacts DEF Status, Issues
<1>2. x \in Row /\ x.version = 1 /\ x.corrected = Nil /\ x.missing = {} /\ x.key = k
  BY <1>1, CreatedRow
<1>3. Resolved(k, b) = [x EXCEPT !.normalized = Nil, !.audit = TRUE]
  BY DEF Resolved
<1> HIDE DEF x
<1>4. Resolved(k, b) \in Row
  BY <1>1, <1>2, <1>3 DEF Row, Cells
<1> QED BY <1>2, <1>3, <1>4 DEF Row

\* What an import creates is sound.
LEMMA XlsxRows ==
  ASSUME NEW key \in Keys, NEW x \in FromXlsx(key)
  PROVE  x \in Row /\ x.version = 1 /\ x.corrected = Nil /\ x.missing = {} /\ x.key = key
<1>1. [Fields -> {"read", "placeholder"}] \subseteq Business
      /\ [Fields -> {"read", "placeholder", "clean"}] \subseteq Business
  BY DEF Business, Text
<1>2. \A confidence : InitialStatusFor({}, confidence) \in Status
  BY DEF InitialStatusFor, Status
<1>3. {"none", "not_recorded"} \subseteq Issues /\ Nil \in Cells /\ {} \in SUBSET Fields
  BY CellFacts DEF Issues
<1>4. CASE \E confidence \in {"low", "high"}, values \in [Fields -> {"read", "placeholder"}],
              issues \in {"none", "not_recorded"} :
             x = Created(key, InitialStatusFor({}, confidence), values, Nil, {}, issues)
  BY <1>1, <1>2, <1>3, <1>4, CreatedRow
<1>5. CASE \E values \in [Fields -> {"read", "placeholder", "clean"}] : x = Resolved(key, values)
  BY <1>1, <1>5, ResolvedRow
<1> QED BY <1>4, <1>5 DEF FromXlsx

LEMMA CsvRows ==
  ASSUME NEW key \in Keys, NEW x \in FromCsv(key)
  PROVE  /\ x \in Row /\ x.version = 1 /\ x.corrected = Nil /\ x.key = key
         /\ x.status = "APPROVED" => x.missing = {}
<1>1. [Fields -> {"read", Blank}] \subseteq Business /\ Business \subseteq Cells
  BY ZenonT(60), CellFacts DEF Business, Text, Blank
<1>2. \A missing : /\ InitialStatusFor(missing, "none") \in Status
                   /\ InitialStatusFor(missing, "none") = "APPROVED" => missing = {}
  BY DEF InitialStatusFor, Status
<1>3. {"none", "other", "words"} \subseteq Issues /\ "PENDING_REVIEW" \in Status
      /\ "PENDING_REVIEW" # "APPROVED" /\ Nil \in Cells
  BY CellFacts DEF Issues, Status
<1>4. CASE \E values \in [Fields -> {"read", Blank}], missing \in SUBSET Fields,
              issues \in {"none", "other"} :
             x = Created(key, InitialStatusFor(missing, "none"), values, values, missing, issues)
  BY <1>1, <1>2, <1>3, <1>4, CreatedRow
<1>5. CASE \E values \in [Fields -> {"read", Blank}], missing \in SUBSET Fields :
             x = Created(key, "PENDING_REVIEW", values, Nil, missing, "words")
  BY <1>1, <1>3, <1>5, CreatedRow
<1> QED BY <1>4, <1>5 DEF FromCsv

LEMMA CorrectedRow ==
  ASSUME NEW x \in Row, NEW change \in Cells
  PROVE  /\ Corrected(x, change) \in Row
         /\ Corrected(x, change).key = x.key
         /\ Corrected(x, change).version = x.version + 1
         /\ Corrected(x, change).values = Overlay(x.values, change)
         /\ Corrected(x, change).corrected = Overlay(x.corrected, change)
         /\ Corrected(x, change).missing \subseteq x.missing
         /\ Corrected(x, change).status = "APPROVED" => Corrected(x, change).missing = {}
<1> DEFINE values == Overlay(x.values, change)
           still  == {f \in x.missing : values[f] = Blank}
           new    == [x EXCEPT !.values = values, !.corrected = Overlay(@, change),
                               !.missing = still, !.status = StatusFor(still),
                               !.reviewed = TRUE, !.version = @ + 1]
<1>1. Corrected(x, change) = new
  BY DEF Corrected
<1>2. StatusFor(still) \in Status /\ (StatusFor(still) = "APPROVED" => still = {})
  BY DEF StatusFor, Status
<1>3. still \in SUBSET Fields /\ still \subseteq x.missing
  BY RowParts
<1>4. values \in Business /\ Overlay(x.corrected, change) \in Cells
  BY RowParts, CellFacts
<1>5. x.version + 1 \in Nat \ {0}
  BY RowParts
<1> HIDE DEF still, values
<1>6. /\ new.key = x.key /\ new.version = x.version + 1 /\ new.values = values
      /\ new.corrected = Overlay(x.corrected, change) /\ new.missing = still
      /\ new.status = StatusFor(still)
  BY DEF Row
<1>7. new \in Row
  BY <1>2, <1>3, <1>4, <1>5 DEF Row, Business, Cells
<1> HIDE DEF new
<1> QED BY <1>1, <1>2, <1>3, <1>6, <1>7 DEF values

LEMMA ApprovedRow ==
  ASSUME NEW x \in Row
  PROVE  /\ Approved(x) \in Row
         /\ Approved(x).key = x.key
         /\ Approved(x).version = x.version + 1
         /\ Approved(x).values = x.values
         /\ Approved(x).corrected = x.corrected
         /\ Approved(x).missing = x.missing
<1>1. x.version + 1 \in Nat \ {0} /\ "APPROVED" \in Status
  BY RowParts DEF Status
<1>2. Approved(x) \in Row
  BY <1>1 DEF Approved, Row
<1> QED BY <1>2 DEF Approved, Row

\* A script leaves the version and the corrections alone, and approves nothing
\* that misses a field.
LEMMA PlanRow ==
  ASSUME NEW x \in Row, NEW new \in Plan(x), Good(x), ScriptInv,
         script \in {"not_recorded", "word_amounts", "backfill"}
  PROVE  /\ new \in Row /\ new.key = x.key /\ new.version = x.version
         /\ new.corrected = x.corrected /\ Good(new)
         /\ new.status = "APPROVED" => new.missing = {}
<1>1. "APPROVED" \in Status /\ "PENDING_REVIEW" \in Status /\ "clean" \in Text /\ Blank \in Text
      /\ {"none", "other", "words"} \subseteq Issues /\ "PENDING_REVIEW" # "APPROVED"
  BY DEF Status, Text, Blank, Issues
<1>2. CASE script = "not_recorded"
  <2>1. PICK cleaned \in SUBSET {f \in Fields : x.values[f] = "read"} :
          new = [x EXCEPT !.values = [f \in Fields |-> IF f \in cleaned THEN "clean" ELSE @[f]],
                          !.issues = "none", !.audit = TRUE, !.status = "APPROVED"]
    BY <1>2 DEF Plan, NotRecorded
  <2> DEFINE values == [f \in Fields |-> IF f \in cleaned THEN "clean" ELSE x.values[f]]
  <2>2. values \in Business
    BY <1>1, RowParts DEF Business
  <2>3. new = [x EXCEPT !.values = values, !.issues = "none", !.audit = TRUE, !.status = "APPROVED"]
    BY <2>1
  <2> HIDE DEF values
  <2>4. new \in Row
    BY <1>1, <2>2, <2>3 DEF Row, Business
  <2>5. /\ new.key = x.key /\ new.version = x.version /\ new.corrected = x.corrected
        /\ new.missing = x.missing
    BY <2>3 DEF Row
  <2>6. x.missing = {}
    BY <1>2 DEF ScriptInv, Good
  <2> QED BY <2>4, <2>5, <2>6 DEF Good
<1>3. CASE script = "word_amounts"
  <2>1. new = [x EXCEPT !.missing = {}, !.issues = "none", !.audit = TRUE, !.status = "APPROVED"]
    BY <1>3 DEF Plan, WordAmounts
  <2>2. new \in Row
    BY <1>1, <2>1 DEF Row
  <2>3. /\ new.key = x.key /\ new.version = x.version /\ new.corrected = x.corrected
        /\ new.missing = {}
    BY <2>1 DEF Row
  <2> QED BY <2>2, <2>3 DEF Good
<1>4. CASE script = "backfill"
  <2>1. typed
    BY <1>4 DEF ScriptInv
  <2>2. PICK f \in Fields, text \in Text, missing \in SUBSET Fields, issues \in Issues :
          new = Refilled(x, f, text, missing, issues)
    <3>1. /\ x.missing \in SUBSET Fields /\ x.issues \in Issues
          /\ \A f \in Fields : x.missing \ {f} \in SUBSET Fields /\ x.missing \cup {f} \in SUBSET Fields
      BY RowParts
    <3> DEFINE candidates == {f \in Fields : x.values[f] = Blank \/ f \in x.missing}
    <3>2. \/ \E f \in candidates, issues \in {x.issues, "none"} :
               new = Refilled(x, f, "clean", x.missing \ {f}, issues)
          \/ \E f \in candidates : new = Refilled(x, f, "clean", x.missing \cup {f}, "words")
          \/ \E f \in candidates \cap x.missing : new = Refilled(x, f, Blank, x.missing, "other")
      BY <1>4 DEF Plan, Backfill
    <3>3. candidates \subseteq Fields
      OBVIOUS
    <3> HIDE DEF candidates
    <3>4. CASE \E f \in candidates, issues \in {x.issues, "none"} :
                 new = Refilled(x, f, "clean", x.missing \ {f}, issues)
      BY <1>1, <3>1, <3>3, <3>4
    <3>5. CASE \E f \in candidates : new = Refilled(x, f, "clean", x.missing \cup {f}, "words")
      BY <1>1, <3>1, <3>3, <3>5
    <3>6. CASE \E f \in candidates \cap x.missing : new = Refilled(x, f, Blank, x.missing, "other")
      BY <1>1, <3>1, <3>3, <3>6
    <3> QED BY <3>2, <3>4, <3>5, <3>6
  <2> DEFINE values == [x.values EXCEPT ![f] = text]
             status == IF missing = {} /\ issues = "none" THEN "APPROVED" ELSE "PENDING_REVIEW"
  <2>3. values \in Business
    BY RowParts DEF Business
  <2>4. status \in Status /\ (status = "APPROVED" => missing = {})
    BY <1>1
  <2>5. new = [x EXCEPT !.values = values, !.missing = missing, !.issues = issues, !.status = status]
    BY <2>2 DEF Refilled, Row
  <2> HIDE DEF values, status
  <2>6. new \in Row
    BY <2>3, <2>4, <2>5 DEF Row, Business
  <2>7. /\ new.key = x.key /\ new.version = x.version /\ new.corrected = x.corrected
        /\ new.missing = missing /\ new.status = status
    BY <2>5 DEF Row
  <2> QED BY <2>1, <2>4, <2>6, <2>7 DEF Good
<1> QED BY <1>2, <1>3, <1>4

-----------------------------------------------------------------------------
(* Types *)

LEMMA InitTypes == Init => RecordsTypeOK
BY RecordsAssumption DEF Init, RecordsTypeOK, Op, NoRows

LEMMA EndTypes ==
  ASSUME RecordsTypeOK, NEW s \in Reviewers, End(s)
  PROVE  /\ pc'   \in [Reviewers -> {"idle", "open", "next", "read"}]
         /\ op'   \in [Reviewers -> Op]
         /\ rec'  \in [Reviewers -> Records \cup {NoRecord}]
         /\ todo' \in [Reviewers -> SUBSET Records]
         /\ seen' \in [Reviewers -> Row \cup {NoRow}]
         /\ snap' \in [Reviewers -> Row \cup {NoRow}]
         /\ pending' \in [Reviewers -> [Records -> Row \cup {NoRow}]]
         /\ added'   \in [Reviewers -> SUBSET Revision]
BY DEF RecordsTypeOK, End, NoRows

\* The row that a request writes, and the revision it inserts.
LEMMA WriteShape ==
  ASSUME RecordsTypeOK, ReadInv, NEW s \in Reviewers, Write(s)
  PROVE  /\ rec[s] \in Records /\ row[rec[s]] \in Row /\ snap[s] \in Row
         /\ Vouched(s) \in Cells /\ (op[s] # "bulk" => Vouched(s) = seen[s].values)
         /\ \E change \in Cells, new \in Row :
              /\ op[s] = "correct" => new = Corrected(snap[s], change)
              /\ op[s] # "correct" => new = Approved(snap[s]) /\ change = snap[s].values
              /\ pending' = [pending EXCEPT ![s][rec[s]] = Update(snap[s], new, row[rec[s]])]
              /\ added' = [added EXCEPT ![s] = @ \cup
                   {[rec |-> rec[s], version |-> snap[s].version + 1, op |-> op[s],
                     previous |-> snap[s].values, new |-> change, seen |-> Vouched(s)]}]
<1>1. snap[s] \in Row /\ snap[s].values \in Cells
  BY RowParts, CellFacts DEF RecordsTypeOK, ReadInv, ReadsCurrent, Known, Write, Reads
<1>a. Vouched(s) \in Cells /\ (op[s] # "bulk" => Vouched(s) = seen[s].values)
  <2>1. op[s] # "bulk" => seen[s] \in Row
    BY DEF RecordsTypeOK, ReadInv, ReadsCurrent, Write, Reads
  <2>2. op[s] # "bulk" => seen[s].values \in Cells
    BY <2>1, RowParts, CellFacts
  <2> QED BY <2>2, CellFacts DEF Vouched
<1>2. rec[s] \in Records
  BY DEF ReadInv, ReadsCurrent, Write, Reads
<1>3. row[rec[s]] \in Row
  BY <1>2 DEF RecordsTypeOK, Write
<1>4. PICK change \in IF op[s] = "correct" THEN Changes(s) ELSE {snap[s].values} :
        LET new == IF op[s] = "correct" THEN Corrected(snap[s], change) ELSE Approved(snap[s])
        IN  /\ pending' = [pending EXCEPT ![s][rec[s]] = Update(snap[s], new, row[rec[s]])]
            /\ added' = [added EXCEPT ![s] = @ \cup
                 {[rec |-> rec[s], version |-> snap[s].version + 1, op |-> op[s],
                   previous |-> snap[s].values, new |-> change, seen |-> Vouched(s)]}]
  BY DEF Write
<1>5. Changes(s) \subseteq Cells
  BY DEF Changes, Cells, Cell, Text, Blank
<1>6. change \in Cells
  BY <1>1, <1>4, <1>5
<1>7. Corrected(snap[s], change) \in Row /\ Approved(snap[s]) \in Row
  BY <1>1, <1>6, CorrectedRow, ApprovedRow
<1> DEFINE new == IF op[s] = "correct" THEN Corrected(snap[s], change) ELSE Approved(snap[s])
<1>8. new \in Row /\ (op[s] = "correct" => new = Corrected(snap[s], change))
      /\ (op[s] # "correct" => new = Approved(snap[s]) /\ change = snap[s].values)
  BY <1>4, <1>7
<1>9. pending' = [pending EXCEPT ![s][rec[s]] = Update(snap[s], new, row[rec[s]])]
  BY <1>4
<1> HIDE DEF new
<1> QED BY <1>1, <1>a, <1>2, <1>3, <1>4, <1>6, <1>8, <1>9

LEMMA TypesStep == ASSUME RecordsTypeOK, ReadInv, ScriptInv, Next PROVE RecordsTypeOK'
<1> USE DEF RecordsTypeOK
<1>1. ASSUME NEW i \in Imports, Import(i) \/ ImportNext(i)
      PROVE  RecordsTypeOK'
  <2>1. PICK key \in Keys, r \in Records : \E new \in IF typed THEN FromCsv(key) ELSE FromXlsx(key) :
          inserted' = [inserted EXCEPT ![i][r] = new]
    BY <1>1 DEF Import, ImportNext
  <2>2. inserted' \in [Imports -> [Records -> Row \cup {NoRow}]]
    BY <2>1, XlsxRows, CsvRows
  <2>3. left' \in Nat /\ holder' \subseteq Imports
    BY <1>1 DEF Import, ImportNext, Spend
  <2> QED BY <1>1, <2>2, <2>3 DEF Import, ImportNext, reqVars, scriptVars, history
<1>2. ASSUME NEW i \in Imports, ImportCommit(i) \/ ImportAbort(i)
      PROVE  RecordsTypeOK'
  <2>1. left' \in Nat
    BY <1>2 DEF ImportCommit, ImportAbort, Spend
  <2>2. row' \in [Records -> Row \cup {NoRow}]
    BY <1>2 DEF ImportCommit, ImportAbort
  <2>3. inserted' \in [Imports -> [Records -> Row \cup {NoRow}]]
    BY <1>2 DEF ImportCommit, ImportAbort, NoRows
  <2>4. rewritten' \subseteq Records /\ reviewed' \subseteq Keys /\ discarded' \subseteq Keys
    BY <1>2 DEF ImportCommit, ImportAbort, history
  <2> QED BY <1>2, <2>1, <2>2, <2>3, <2>4 DEF ImportCommit, ImportAbort, reqVars, scriptVars, history
<1>3. ASSUME NEW s \in Reviewers, NEW r \in Records, NEW what \in {"correct", "approve"}, Open(s, r, what)
      PROVE  RecordsTypeOK'
  <2>1. left' \in Nat
    BY <1>3 DEF Open, Spend
  <2> QED BY <1>3, <2>1 DEF Open, Op, importVars, scriptVars, history
<1>4. ASSUME NEW s \in Reviewers, NEW rs \in SUBSET Records, OpenBulk(s, rs)
      PROVE  RecordsTypeOK'
  <2>1. left' \in Nat
    BY <1>4 DEF OpenBulk, Spend
  <2> QED BY <1>4, <2>1 DEF OpenBulk, Op, importVars, scriptVars, history
<1>5. ASSUME NEW s \in Reviewers, Read(s)
      PROVE  RecordsTypeOK'
  <2>1. rec[s] \in Records
    BY <1>5 DEF Read, ReadInv, ReadsCurrent
  <2> QED BY <1>5, <2>1 DEF Read, importVars, scriptVars, history
<1>6. ASSUME NEW s \in Reviewers, ReadNext(s)
      PROVE  RecordsTypeOK'
  <2> PICK r \in todo[s] :
        /\ todo' = [todo EXCEPT ![s] = @ \ {r}]
        /\ IF NothingToDo(s, r)
             THEN UNCHANGED <<pc, rec, snap>>
             ELSE /\ pc'   = [pc EXCEPT ![s] = "read"]
                  /\ rec'  = [rec EXCEPT ![s] = r]
                  /\ snap' = [snap EXCEPT ![s] = row[r]]
    BY <1>6 DEF ReadNext
  <2>1. r \in Records
    OBVIOUS
  <2>2. todo' \in [Reviewers -> SUBSET Records]
    OBVIOUS
  <2>3. CASE NothingToDo(s, r)
    BY <1>6, <2>2, <2>3 DEF ReadNext, importVars, scriptVars, history
  <2>4. CASE ~NothingToDo(s, r)
    <3>1. /\ pc' \in [Reviewers -> {"idle", "open", "next", "read"}]
          /\ rec' \in [Reviewers -> Records \cup {NoRecord}]
      BY <2>1, <2>4
    <3>2. snap' \in [Reviewers -> Row \cup {NoRow}]
      <4>1. row[r] \in Row \cup {NoRow} /\ snap' = [snap EXCEPT ![s] = row[r]]
        BY <2>1, <2>4
      <4>2. snap \in [Reviewers -> Row \cup {NoRow}]
        OBVIOUS
      <4> QED BY ONLY <4>1, <4>2
    <3> QED BY <1>6, <2>2, <3>1, <3>2 DEF ReadNext, importVars, scriptVars, history
  <2> QED BY <2>3, <2>4
<1>7. ASSUME NEW s \in Reviewers, Decline(s) \/ NextIsGone(s) \/ WriteRefused(s)
      PROVE  RecordsTypeOK'
  <2>1. End(s)
    BY <1>7 DEF Decline, NextIsGone, WriteRefused
  <2> QED BY <1>7, <2>1, EndTypes DEF Decline, NextIsGone, WriteRefused, importVars, scriptVars, history
<1>8. ASSUME NEW s \in Reviewers, Abort(s)
      PROVE  RecordsTypeOK'
  <2>1. End(s) /\ left' \in Nat
    BY <1>8 DEF Abort, Spend
  <2> QED BY <1>8, <2>1, EndTypes DEF Abort, importVars, scriptVars, history
<1>9. ASSUME NEW s \in Reviewers, Write(s)
      PROVE  RecordsTypeOK'
  <2>1. rec[s] \in Records /\ row[rec[s]] \in Row /\ snap[s] \in Row /\ Vouched(s) \in Cells
    BY <1>9, WriteShape
  <2>2. PICK change \in Cells, new \in Row :
          /\ pending' = [pending EXCEPT ![s][rec[s]] = Update(snap[s], new, row[rec[s]])]
          /\ added' = [added EXCEPT ![s] = @ \cup
               {[rec |-> rec[s], version |-> snap[s].version + 1, op |-> op[s],
                 previous |-> snap[s].values, new |-> change, seen |-> Vouched(s)]}]
    BY <1>9, WriteShape
  <2>3. Update(snap[s], new, row[rec[s]]) \in Row
    BY <2>1, UpdateRow
  <2>4. pending' \in [Reviewers -> [Records -> Row \cup {NoRow}]]
    BY <2>2, <2>3
  <2>5. [rec |-> rec[s], version |-> snap[s].version + 1, op |-> op[s],
         previous |-> snap[s].values, new |-> change, seen |-> Vouched(s)] \in Revision
    <3>1. snap[s].version + 1 \in Nat /\ snap[s].values \in Business
      BY <2>1, RowParts
    <3> QED BY <2>1, <3>1 DEF Revision, Business, Cells
  <2>6. added' \in [Reviewers -> SUBSET Revision]
    BY <2>2, <2>5
  <2> QED BY <1>9, <2>4, <2>6 DEF Write, importVars, scriptVars, history
<1>10. ASSUME NEW s \in Reviewers, Commit(s)
       PROVE  RecordsTypeOK'
  <2>1. End(s)
    BY <1>10 DEF Commit
  <2>2. row' \in [Records -> Row \cup {NoRow}] /\ revisions' \in SUBSET Revision
    BY <1>10 DEF Commit
  <2>3. reviewed' \subseteq Keys
    <3>1. \A r \in Held(s) : pending[s][r].key \in Keys
      BY RowParts DEF Held
    <3> QED BY <1>10, <3>1 DEF Commit
  <2> QED BY <1>10, <2>1, <2>2, <2>3, EndTypes DEF Commit, importVars, scriptVars
<1>11. ASSUME NEW r \in Records, Delete(r)
       PROVE  RecordsTypeOK'
  <2>1. left' \in Nat
    BY <1>11 DEF Delete, Spend
  <2> QED BY <1>11, <2>1 DEF Delete, reqVars, importVars, scriptVars
<1>12. ASSUME NEW what \in {"not_recorded", "word_amounts", "backfill", "reprocess"}, Select(what)
       PROVE  RecordsTypeOK'
  <2>1. left' \in Nat
    BY <1>12 DEF Select, Spend
  <2> QED BY <1>12, <2>1 DEF Select, reqVars, importVars, history
<1>13. ASSUME NEW done \in SUBSET Records, Rewrite(done) PROVE RecordsTypeOK'
  <2>1. PICK new \in [done -> UNION {Plan(copies[r]) : r \in done}] :
          /\ \A r \in done : new[r] \in Plan(copies[r])
          /\ row' = [r \in Records |->
                       IF r \in done THEN Update(copies[r], new[r], row[r]) ELSE row[r]]
    BY <1>13 DEF Rewrite
  <2>2. \A r \in done : copies[r] \in Row /\ Good(copies[r]) /\ row[r] \in Row
    BY <1>13 DEF Rewrite, Selected, ScriptInv
  <2>3. \A r \in done : new[r] \in Row
    BY <1>13, <2>1, <2>2, PlanRow DEF Rewrite
  <2>4. \A r \in done : Update(copies[r], new[r], row[r]) \in Row
    BY <2>2, <2>3, UpdateRow
  <2>5. row' \in [Records -> Row \cup {NoRow}]
    BY <2>1, <2>4
  <2>6. rewritten' \subseteq Records
    BY <1>13 DEF Rewrite, Changed, Selected
  <2> QED BY <1>13, <2>5, <2>6 DEF Rewrite, ScriptEnds, NoRows, reqVars, importVars
<1>14. ASSUME ScriptFails PROVE RecordsTypeOK'
  <2>1. left' \in Nat
    BY <1>14 DEF ScriptFails, Spend
  <2> QED BY <1>14, <2>1 DEF ScriptFails, ScriptEnds, NoRows, reqVars, importVars, history
<1>15. ASSUME Reprocess PROVE RecordsTypeOK'
  <2>1. \A r \in Live : row[r].key \in Keys
    BY RowParts DEF Live
  <2>2. discarded' \subseteq Keys
    BY <1>15, <2>1 DEF Reprocess
  <2> QED BY <1>15, <2>2 DEF Reprocess, ScriptEnds, NoRows, reqVars, importVars
<1> QED
  BY <1>1, <1>2, <1>3, <1>4, <1>5, <1>6, <1>7, <1>8, <1>9, <1>10, <1>11, <1>12, <1>13, <1>14, <1>15
  DEF Next

-----------------------------------------------------------------------------
(* The table *)

LEMMA SoundNew == ASSUME NEW x \in Row, NewRow(x) PROVE Sound(x, {})
<1>1. 2 .. x.version = {}
  BY DEF NewRow
<1>2. \A f \in Fields : x.corrected[f] = NoValue
  BY DEF NewRow, Nil
<1> QED BY <1>1, <1>2 DEF NewRow, Sound

LEMMA SoundNext ==
  ASSUME NEW old \in Row, NEW new \in Row, NEW trail \in SUBSET Revision, NEW v \in Revision,
         Sound(old, trail), Continues(v, old, new)
  PROVE  Sound(new, trail \cup {v})
<1>1. /\ old.version \in Nat \ {0} /\ new.version = old.version + 1 /\ v.version = new.version
      /\ \A u \in trail : u.version \in 2 .. old.version
  BY RowParts DEF Sound, Continues
<1>2. {u.version : u \in trail \cup {v}} = 2 .. new.version
  <2>1. {u.version : u \in trail \cup {v}} = {u.version : u \in trail} \cup {v.version}
    OBVIOUS
  <2>2. {u.version : u \in trail} = 2 .. old.version
    BY DEF Sound
  <2>3. (2 .. old.version) \cup {old.version + 1} = 2 .. (old.version + 1)
    BY <1>1
  <2> QED BY <1>1, <2>1, <2>2, <2>3
<1>3. ASSUME NEW u \in trail \cup {v}, NEW w \in trail \cup {v}
      PROVE  /\ u.version = w.version => u = w
             /\ w.version = u.version + 1 => w.previous = After(u)
             /\ u.version = new.version => new.values = After(u)
  <2>1. CASE u \in trail /\ w \in trail
    <3>1. u.version # new.version
      BY <1>1, <2>1
    <3> QED BY <2>1, <3>1 DEF Sound
  <2>2. CASE u \in trail /\ w = v
    <3>1. u.version # new.version
      BY <1>1, <2>2
    <3>2. w.version = u.version + 1 => u.version = old.version
      BY <1>1, <2>2
    <3>3. u.version = old.version => old.values = After(u)
      BY <2>2 DEF Sound
    <3>4. v.previous = old.values
      BY DEF Continues
    <3> QED BY <1>1, <2>2, <3>1, <3>2, <3>3, <3>4
  <2>3. CASE u = v /\ w \in trail
    <3>1. w.version # u.version /\ w.version # u.version + 1
      BY <1>1, <2>3
    <3> QED BY <2>3, <3>1 DEF Continues
  <2>4. CASE u = v /\ w = v
    <3>1. w.version # u.version + 1
      BY <1>1, <2>4
    <3> QED BY <2>4, <3>1 DEF Continues
  <2> QED BY <2>1, <2>2, <2>3, <2>4
<1>4. new.version # 1
  BY <1>1
<1> QED BY <1>1, <1>2, <1>3, <1>4 DEF Sound, Continues

LEMMA SoundRewritten ==
  ASSUME NEW old \in Row, NEW new \in Row, NEW trail,
         Sound(old, trail), old.version = 1, new.version = 1, new.corrected = old.corrected,
         new.status = "APPROVED" => new.missing = {}
  PROVE  Sound(new, trail)
<1>1. trail = {}
  <2>1. 2 .. old.version = {}
    OBVIOUS
  <2> QED BY <2>1 DEF Sound
<1>2. old.corrected = Nil
  BY DEF Sound
<1>3. \A f \in Fields : new.corrected[f] = NoValue
  BY <1>2 DEF Nil
<1>4. 2 .. new.version = {}
  OBVIOUS
<1> QED BY <1>1, <1>2, <1>3, <1>4 DEF Sound

LEMMA TableFrame ==
  ASSUME TableInv, UNCHANGED <<row, revisions, typed, rewritten, reviewed, discarded>>
  PROVE  TableInv'
<1>1. Live' = Live /\ \A r : Trail(r)' = Trail(r)
  BY DEF Live, Trail
<1> QED BY <1>1 DEF TableInv, Good, OneRecordPerKey, ReviewsSurvive

LEMMA TableImportCommit ==
  ASSUME RecordsInv, NEW i \in Imports, ImportCommit(i)
  PROVE  TableInv'
<1> USE DEF RecordsInv
<1> DEFINE New == {r \in Records : inserted[i][r] # NoRow}
<1>1. /\ row' = [r \in Records |-> IF r \in New THEN inserted[i][r] ELSE row[r]]
      /\ rewritten' = rewritten \ New
      /\ revisions' = revisions /\ typed' = typed /\ reviewed' = reviewed /\ discarded' = discarded
  BY DEF ImportCommit, RecordsTypeOK
<1>2. \A r \in New : /\ inserted[i][r] \in Row /\ NewRow(inserted[i][r]) /\ row[r] = NoRow
                     /\ \A q \in Live : row[q].key # inserted[i][r].key
                     /\ \A q \in New : inserted[i][q].key = inserted[i][r].key => q = r
  BY DEF RecordsTypeOK, ImportInv
<1>3. New \subseteq Records /\ Live \subseteq Records
  BY DEF Live
<1> HIDE DEF New
<1>4. Live' = Live \cup New /\ New \cap Live = {}
  BY <1>1, <1>2, <1>3, RowParts DEF Live
<1>5. \A r \in New : row'[r] = inserted[i][r]
  BY <1>1, <1>3
<1>6. \A r \in Live : row'[r] = row[r] /\ r \notin New
  BY <1>1, <1>3, <1>4
<1>7. \A r : Trail(r)' = Trail(r)
  BY <1>1 DEF Trail
<1>8. \A r \in New : Trail(r) = {}
  BY <1>4 DEF TableInv, Trail
<1>9. \A r \in Live' : Good(row[r])'
  BY <1>1, <1>2, <1>4, <1>5, <1>6 DEF TableInv, Good, NewRow
<1>10. \A v \in revisions' : v.rec \in Live' /\ (v.op # "bulk" /\ v.rec \notin rewritten' => v.seen = v.previous)
  BY <1>1, <1>4 DEF TableInv
<1>11. \A r \in Live' \ rewritten' : Sound(row'[r], Trail(r)')
  <2> TAKE r \in Live' \ rewritten'
  <2>1. CASE r \in New
    BY <1>2, <1>5, <1>7, <1>8, <2>1, SoundNew
  <2>2. CASE r \in Live
    BY <1>1, <1>6, <1>7, <2>2 DEF TableInv
  <2> QED BY <1>4, <2>1, <2>2
<1>12. OneRecordPerKey'
  <2> SUFFICES ASSUME NEW q \in Live', NEW r \in Live', row'[q].key = row'[r].key
               PROVE  q = r
    BY DEF OneRecordPerKey
  <2> QED BY <1>2, <1>4, <1>5, <1>6 DEF TableInv, OneRecordPerKey
<1>13. ReviewsSurvive'
  BY <1>1, <1>4, <1>6 DEF TableInv, ReviewsSurvive
<1> QED BY <1>9, <1>10, <1>11, <1>12, <1>13 DEF TableInv

LEMMA TableCommit ==
  ASSUME RecordsInv, NEW s \in Reviewers, Commit(s)
  PROVE  TableInv'
<1> USE DEF RecordsInv
<1>1. /\ row' = [r \in Records |-> IF r \in Held(s) THEN pending[s][r] ELSE row[r]]
      /\ revisions' = revisions \cup added[s]
      /\ reviewed' = reviewed \cup {pending[s][r].key : r \in Held(s)}
      /\ rewritten' = rewritten /\ typed' = typed /\ discarded' = discarded
  BY DEF Commit, Held
<1>2. Held(s) \subseteq Live /\ Live \subseteq Records
  BY DEF Held, Live, WriteInv, WritesNext
<1>3. \A r \in Held(s) : /\ pending[s][r] \in Row /\ row[r] \in Row /\ row'[r] = pending[s][r]
                         /\ pending[s][r].key = row[r].key /\ pending[s][r].version > 1
                         /\ Good(pending[s][r])
  BY <1>1 DEF Held, RecordsTypeOK, WriteInv, WritesNext
<1>4. \A r \in Live \ Held(s) : row'[r] = row[r]
  BY <1>1, <1>2
<1>5. Live' = Live
  BY <1>1, <1>2, <1>3, <1>4, RowParts DEF Live
<1>6. \A r \in Live' : Good(row[r])'
  BY <1>1, <1>3, <1>4, <1>5 DEF TableInv, Good
<1>7. \A v \in revisions' : v.rec \in Live' /\ (v.op # "bulk" /\ v.rec \notin rewritten' => v.seen = v.previous)
  <2> TAKE v \in revisions'
  <2>1. CASE v \in revisions
    BY <1>1, <1>5, <2>1 DEF TableInv
  <2>2. CASE v \in added[s]
    <3>1. v.rec \in Held(s)
      BY <2>2 DEF WriteInv, WritesNext
    <3>2. v.rec \notin rewritten => Continues(v, row[v.rec], pending[s][v.rec])
      BY <2>2, <3>1 DEF WriteInv, WritesNext
    <3> QED BY <1>1, <1>2, <1>5, <3>1, <3>2 DEF Continues
  <2> QED BY <1>1, <2>1, <2>2
<1>8. \A r \in Live' \ rewritten' : Sound(row'[r], Trail(r)')
  <2> TAKE r \in Live' \ rewritten'
  <2>1. Sound(row[r], Trail(r)) /\ Trail(r) \in SUBSET Revision
    BY <1>1, <1>5 DEF TableInv, Trail, RecordsTypeOK
  <2>2. CASE r \in Held(s)
    <3>1. PICK v \in added[s] : /\ v.rec = r /\ \A u \in added[s] : u.rec = r => u = v
                                /\ Continues(v, row[r], pending[s][r])
      BY <1>1, <2>2 DEF WriteInv, WritesNext
    <3>2. Trail(r)' = Trail(r) \cup {v}
      BY <1>1, <3>1 DEF Trail
    <3>3. v \in Revision
      BY DEF RecordsTypeOK
    <3> QED BY <1>3, <2>1, <2>2, <3>1, <3>2, <3>3, SoundNext
  <2>3. CASE r \notin Held(s)
    <3>1. Trail(r)' = Trail(r)
      BY <1>1, <2>3 DEF Trail, WriteInv, WritesNext
    <3> QED BY <1>4, <1>5, <2>1, <2>3, <3>1
  <2> QED BY <2>2, <2>3
<1>9. \A r \in Live : row'[r].key = row[r].key
  BY <1>3, <1>4
<1>10. OneRecordPerKey'
  BY <1>5, <1>9 DEF TableInv, OneRecordPerKey
<1>11. ReviewsSurvive'
  <2> SUFFICES ASSUME NEW k \in reviewed' \ discarded'
               PROVE  \E r \in Live' : row'[r].key = k /\ row'[r].version > 1
    BY DEF ReviewsSurvive
  <2>1. CASE k \in reviewed
    <3>1. PICK r \in Live : row[r].key = k /\ row[r].version > 1
      BY <1>1, <2>1 DEF TableInv, ReviewsSurvive
    <3>2. row'[r].version > 1
      BY <1>3, <1>4, <3>1
    <3> QED BY <1>5, <1>9, <3>1, <3>2
  <2>2. CASE k \in {pending[s][r].key : r \in Held(s)}
    BY <1>2, <1>3, <1>5, <2>2
  <2> QED BY <1>1, <2>1, <2>2
<1> QED BY <1>6, <1>7, <1>8, <1>10, <1>11 DEF TableInv

LEMMA TableDelete ==
  ASSUME RecordsInv, NEW r \in Records, Delete(r)
  PROVE  TableInv'
<1> USE DEF RecordsInv
<1>1. /\ row' = [row EXCEPT ![r] = NoRow]
      /\ revisions' = {v \in revisions : v.rec # r}
      /\ reviewed' = reviewed \ {row[r].key}
      /\ rewritten' = rewritten /\ typed' = typed /\ discarded' = discarded /\ r \in Live
  BY DEF Delete, Live
<1>2. Live' = Live \ {r} /\ \A q \in Live' : row'[q] = row[q]
  BY <1>1 DEF Live, RecordsTypeOK
<1>3. \A q \in Live' : Trail(q)' = Trail(q)
  BY <1>1, <1>2 DEF Trail
<1>4. /\ \A q \in Live' : Good(row[q])'
      /\ \A v \in revisions' : v.rec \in Live' /\ (v.op # "bulk" /\ v.rec \notin rewritten' => v.seen = v.previous)
  BY <1>1, <1>2 DEF TableInv, Good
<1>5. \A q \in Live' \ rewritten' : Sound(row'[q], Trail(q)')
  BY <1>1, <1>2, <1>3 DEF TableInv
<1>6. OneRecordPerKey'
  BY <1>2 DEF TableInv, OneRecordPerKey
<1>7. ReviewsSurvive'
  BY <1>1, <1>2 DEF TableInv, ReviewsSurvive
<1> QED BY <1>4, <1>5, <1>6, <1>7 DEF TableInv

\* What each record that a script writes becomes.
Rewrites(done) ==
  /\ \A r \in done : /\ r \in Live /\ copies[r] \in Row /\ copies[r].version = 1
                     /\ r \notin Watched \/ r \in rewritten'
                     /\ \A s \in Reviewers : r \notin Held(s)
  /\ \A r \in done : /\ row'[r] \in Row /\ row'[r].key = row[r].key
                     /\ row'[r].version = row[r].version /\ Good(row[r])'
                     /\ row[r] = copies[r] =>
                          /\ row'[r].corrected = row[r].corrected
                          /\ row'[r].status = "APPROVED" => row'[r].missing = {}
  /\ \A r \in Records \ done : row'[r] = row[r]
  /\ rewritten \subseteq rewritten' /\ rewritten' \subseteq rewritten \cup done
  /\ \A r \in done \ rewritten' : row[r] = copies[r]
  /\ revisions' = revisions /\ typed' = typed
  /\ reviewed' = reviewed /\ discarded' = discarded

LEMMA RewriteShape ==
  ASSUME RecordsInv, NEW done \in SUBSET Records, Rewrite(done)
  PROVE  Rewrites(done)
<1> USE DEF RecordsInv
<1>1. PICK new \in [done -> UNION {Plan(copies[r]) : r \in done}] :
        /\ \A r \in done : new[r] \in Plan(copies[r])
        /\ row' = [r \in Records |->
                     IF r \in done THEN Update(copies[r], new[r], row[r]) ELSE row[r]]
  BY DEF Rewrite
<1>2. \A r \in done : /\ r \in Live /\ row[r] \in Row /\ Good(row[r])
                          /\ copies[r] \in Row /\ copies[r].version = 1 /\ Good(copies[r])
                          /\ \A s \in Reviewers : r \notin Held(s)
  BY DEF Rewrite, Selected, Live, Locked, ScriptInv, RecordsTypeOK, TableInv
<1>3. /\ rewritten' = rewritten \cup (done \cap (Changed \cup Watched))
      /\ revisions' = revisions /\ typed' = typed /\ reviewed' = reviewed /\ discarded' = discarded
  BY DEF Rewrite
<1>4. \A r \in Records \ done : row'[r] = row[r]
  BY <1>1
<1>5. \A r \in done \ rewritten' : row[r] = copies[r]
  BY <1>3 DEF Rewrite, Changed
<1>6. ASSUME NEW r \in done
      PROVE  /\ row'[r] \in Row /\ row'[r].key = row[r].key
             /\ row'[r].version = row[r].version /\ Good(row[r])'
             /\ row[r] = copies[r] =>
                  /\ row'[r].corrected = row[r].corrected
                  /\ row'[r].status = "APPROVED" => row'[r].missing = {}
  <2>1. /\ new[r] \in Row /\ new[r].key = copies[r].key /\ new[r].version = copies[r].version
        /\ new[r].corrected = copies[r].corrected /\ Good(new[r])
        /\ new[r].status = "APPROVED" => new[r].missing = {}
    <3>1. script \in {"not_recorded", "word_amounts", "backfill"} /\ ScriptInv
      BY DEF Rewrite
    <3>2. new[r] \in Plan(copies[r]) /\ copies[r] \in Row /\ Good(copies[r])
      BY <1>1, <1>2
    <3> QED BY <3>1, <3>2, PlanRow
  <2>2. row'[r] = Update(copies[r], new[r], row[r])
    BY <1>1
  <2>3. /\ row'[r] \in Row /\ row'[r].key = row[r].key
        /\ row'[r].version = Column(copies[r].version, new[r].version, row[r].version)
        /\ row'[r].missing = Column(copies[r].missing, new[r].missing, row[r].missing)
    BY <1>2, <2>1, <2>2, UpdateRow
  <2>4. row'[r].version = row[r].version
    BY <2>1, <2>3 DEF Column
  <2>5. Good(row[r])'
    BY <1>2, <1>3, <2>1, <2>3 DEF Good, Column
  <2>6. row[r] = copies[r] => /\ row'[r].corrected = new[r].corrected
                              /\ row'[r].status = new[r].status /\ row'[r].missing = new[r].missing
    BY <1>2, <2>1, <2>2, UpdateOfRead
  <2> QED BY <2>1, <2>3, <2>4, <2>5, <2>6
<1>7. \A r \in done : r \notin Watched \/ r \in rewritten'
  BY <1>3
<1>8. rewritten \subseteq rewritten' /\ rewritten' \subseteq rewritten \cup done
  BY <1>3 DEF Changed
<1> QED BY <1>2, <1>3, <1>4, <1>5, <1>6, <1>7, <1>8 DEF Rewrites

LEMMA TableRewrite ==
  ASSUME RecordsInv, NEW done \in SUBSET Records, Rewrite(done)
  PROVE  TableInv'
<1> USE DEF RecordsInv, Rewrites
<1>0. Rewrites(done)
  BY RewriteShape
<1>1. Live' = Live /\ Live \subseteq Records
  <2>1. \A r \in Records : row'[r] # NoRow <=> row[r] # NoRow
    BY <1>0, RowParts DEF Live
  <2> QED BY <2>1 DEF Live
<1>2. \A r : Trail(r)' = Trail(r)
  BY <1>0 DEF Trail
<1>3. \A r \in Live : row'[r].key = row[r].key /\ row'[r].version = row[r].version
  BY <1>0, <1>1
<1>4. \A r \in Live' : Good(row[r])'
  <2> TAKE r \in Live'
  <2>1. CASE r \in done
    BY <2>1, <1>0
  <2>2. CASE r \notin done
    BY <1>1, <2>2, <1>0 DEF TableInv, Good
  <2> QED BY <2>1, <2>2
<1>5. \A v \in revisions' : v.rec \in Live' /\ (v.op # "bulk" /\ v.rec \notin rewritten' => v.seen = v.previous)
  BY <1>0, <1>1 DEF TableInv
<1>6. \A r \in Live' \ rewritten' : Sound(row'[r], Trail(r)')
  <2> TAKE r \in Live' \ rewritten'
  <2>1. Sound(row[r], Trail(r)) /\ row[r] \in Row
    BY <1>0, <1>1 DEF TableInv, Live, RecordsTypeOK
  <2>2. CASE r \in done
    <3>1. /\ row[r].version = 1 /\ row'[r] \in Row /\ row'[r].version = 1
          /\ row'[r].corrected = row[r].corrected
          /\ row'[r].status = "APPROVED" => row'[r].missing = {}
      BY <2>2, <1>0
    <3> QED BY <1>2, <2>1, <3>1, SoundRewritten
  <2>3. CASE r \notin done
    BY <1>1, <1>2, <2>1, <2>3, <1>0
  <2> QED BY <2>2, <2>3
<1>7. OneRecordPerKey'
  BY <1>1, <1>3 DEF TableInv, OneRecordPerKey
<1>8. ReviewsSurvive'
  BY <1>1, <1>3, <1>0 DEF TableInv, ReviewsSurvive
<1> QED BY <1>4, <1>5, <1>6, <1>7, <1>8 DEF TableInv

LEMMA TableReprocess ==
  ASSUME RecordsInv, Reprocess
  PROVE  TableInv'
<1> USE DEF RecordsInv
<1>1. Live' = {} /\ revisions' = {} /\ reviewed' = reviewed
  BY DEF Reprocess, Live, NoRows
<1>2. \A k \in reviewed \ discarded : k \in discarded'
  <2> TAKE k \in reviewed \ discarded
  <2>1. PICK r \in Live : row[r].key = k /\ row[r].version > 1
    BY DEF TableInv, ReviewsSurvive
  <2>2. row[r] # copies[r]
    BY <2>1 DEF Live, ScriptInv
  <2> QED BY <2>1, <2>2 DEF Reprocess
<1>3. discarded \subseteq discarded'
  BY DEF Reprocess
<1> QED BY <1>1, <1>2, <1>3 DEF TableInv, OneRecordPerKey, ReviewsSurvive

-----------------------------------------------------------------------------
(* Imports *)

LEMMA ImportFrame ==
  ASSUME ImportInv, UNCHANGED <<inserted, holder, typed>>,
         \A r \in Records : row[r] = NoRow /\ copies[r] = NoRow =>
           /\ row'[r] = NoRow /\ copies'[r] = NoRow
           /\ \A s \in Reviewers : /\ rec[s] # r => rec'[s] # r
                                   /\ r \notin todo[s] => r \notin todo'[s]
                                   /\ pending[s][r] = NoRow => pending'[s][r] = NoRow,
         \A q \in Live' : q \in Live /\ row'[q].key = row[q].key
  PROVE  ImportInv'
BY DEF ImportInv, NewRow, Good

LEMMA NothingInserted ==
  ASSUME holder' = {}, \A i \in Imports : inserted'[i] = NoRows
  PROVE  ImportInv'
BY DEF ImportInv, NoRows

LEMMA ImportAdds ==
  ASSUME RecordsTypeOK, ImportInv, NEW i \in Imports, NEW r \in Records, NEW key \in Keys, NEW new,
         new \in IF typed THEN FromCsv(key) ELSE FromXlsx(key),
         Absent(key), Fresh(r), inserted' = [inserted EXCEPT ![i][r] = new],
         holder \subseteq {i}, holder' = {i},
         \A q \in Records : inserted[i][q] # NoRow => inserted[i][q].key # key,
         UNCHANGED <<row, typed, reqVars, scriptVars>>
  PROVE  ImportInv'
<1>1. NewRow(new) /\ new.key = key /\ new # NoRow
  BY XlsxRows, CsvRows, RowParts DEF NewRow, Good
<1>2. \A k \in Imports, q \in Records :
        inserted'[k][q] = IF k = i /\ q = r THEN new ELSE inserted[k][q]
  BY DEF RecordsTypeOK
<1>3. \A k \in Imports, q \in Records : inserted'[k][q] # NoRow => k = i
  BY <1>2 DEF ImportInv
<1>4. /\ row[r] = NoRow /\ copies[r] = NoRow
      /\ \A s \in Reviewers : rec[s] # r /\ r \notin todo[s] /\ pending[s][r] = NoRow
      /\ \A q \in Live : row[q].key # key
  BY DEF Fresh, Absent
<1>5. Live' = Live /\ row' = row /\ copies' = copies /\ rec' = rec /\ todo' = todo /\ pending' = pending
      /\ typed' = typed
  BY DEF Live, reqVars, scriptVars
<1>6. ASSUME NEW k \in Imports, NEW q \in Records, inserted'[k][q] # NoRow
      PROVE  /\ k \in holder' /\ NewRow(inserted[k][q])'
             /\ row'[q] = NoRow /\ copies'[q] = NoRow
             /\ \A s \in Reviewers : rec'[s] # q /\ q \notin todo'[s] /\ pending'[s][q] = NoRow
             /\ \A p \in Live' : row'[p].key # inserted'[k][q].key
  <2>1. k = i
    BY <1>3, <1>6
  <2>2. CASE q = r
    BY <1>1, <1>2, <1>4, <1>5, <2>1, <2>2 DEF NewRow, Good
  <2>3. CASE q # r
    <3>1. inserted'[k][q] = inserted[k][q] /\ inserted[k][q] # NoRow
      BY <1>2, <1>6, <2>3
    <3> QED BY <1>5, <2>1, <3>1 DEF ImportInv, NewRow, Good
  <2> QED BY <2>2, <2>3
<1>7. ASSUME NEW k \in Imports, NEW q \in Records, inserted'[k][q] # NoRow,
             NEW p \in Records, inserted'[k][p] # NoRow, inserted'[k][p].key = inserted'[k][q].key
      PROVE  p = q
  <2>1. k = i
    BY <1>3, <1>7
  <2> QED BY <1>1, <1>2, <1>7, <2>1 DEF ImportInv
<1>8. \A a, b \in holder' : a = b
  OBVIOUS
<1> QED BY <1>6, <1>7, <1>8 DEF ImportInv

LEMMA ImportStep == ASSUME RecordsInv, Next PROVE ImportInv'
<1> USE DEF RecordsInv
<1>1. ASSUME NEW i \in Imports, Import(i) PROVE ImportInv'
  <2>1. PICK key \in Keys, r \in Records :
          /\ Absent(key) /\ Fresh(r)
          /\ \E new \in IF typed THEN FromCsv(key) ELSE FromXlsx(key) :
               inserted' = [inserted EXCEPT ![i][r] = new]
    BY <1>1 DEF Import
  <2>2. holder = {} /\ holder' = {i} /\ UNCHANGED <<row, typed, reqVars, scriptVars>>
    BY <1>1 DEF Import
  <2>3. \A q \in Records : inserted[i][q] = NoRow
    BY <2>2 DEF ImportInv
  <2> QED BY <2>1, <2>2, <2>3, ImportAdds
<1>2. ASSUME NEW i \in Imports, ImportNext(i) PROVE ImportInv'
  <2>1. PICK key \in Keys, r \in Records :
          /\ Absent(key) /\ Fresh(r)
          /\ \A q \in Records : inserted[i][q] # NoRow => inserted[i][q].key # key
          /\ \E new \in IF typed THEN FromCsv(key) ELSE FromXlsx(key) :
               inserted' = [inserted EXCEPT ![i][r] = new]
    BY <1>2 DEF ImportNext
  <2>2. holder \subseteq {i} /\ holder' = {i} /\ UNCHANGED <<row, typed, reqVars, scriptVars>>
    BY <1>2 DEF ImportNext, ImportInv
  <2> QED BY <2>1, <2>2, ImportAdds
<1>3. ASSUME NEW i \in Imports, ImportCommit(i) \/ ImportAbort(i) PROVE ImportInv'
  <2>1. /\ i \in holder /\ holder' = holder \ {i}
        /\ inserted' = [inserted EXCEPT ![i] = NoRows]
    BY <1>3 DEF ImportCommit, ImportAbort
  <2>2. holder' = {}
    BY <2>1 DEF ImportInv
  <2>3. \A k \in Imports : inserted'[k] = NoRows
    <3> TAKE k \in Imports
    <3>1. CASE k = i
      BY <2>1, <3>1 DEF RecordsTypeOK
    <3>2. CASE k # i
      <4>1. k \notin holder
        BY <2>1, <3>2 DEF ImportInv
      <4>2. \A r \in Records : inserted[k][r] = NoRow
        BY <4>1 DEF ImportInv
      <4>3. inserted'[k] = inserted[k] /\ inserted[k] \in [Records -> Row \cup {NoRow}]
        BY <2>1, <3>2 DEF RecordsTypeOK
      <4> QED BY <4>2, <4>3 DEF NoRows
    <3> QED BY <3>1, <3>2
  <2> QED BY <2>2, <2>3, NothingInserted
<1>4. ASSUME NEW s \in Reviewers, NEW r \in Records, NEW what \in {"correct", "approve"}, Open(s, r, what)
      PROVE  ImportInv'
  <2>1. /\ row[r] # NoRow /\ rec' = [rec EXCEPT ![s] = r]
        /\ UNCHANGED <<row, typed, todo, pending, inserted, holder, copies>>
    BY <1>4 DEF Open, importVars, scriptVars
  <2>2. Live' = Live
    BY <2>1 DEF Live
  <2> QED BY <2>1, <2>2, ImportFrame DEF RecordsTypeOK
<1>5. ASSUME NEW s \in Reviewers, NEW rs \in SUBSET Records, OpenBulk(s, rs)
      PROVE  ImportInv'
  <2>1. /\ \A r \in rs : row[r] # NoRow
        /\ todo' = [todo EXCEPT ![s] = rs]
        /\ UNCHANGED <<row, typed, rec, pending, inserted, holder, copies>>
    BY <1>5 DEF OpenBulk, importVars, scriptVars
  <2>2. Live' = Live
    BY <2>1 DEF Live
  <2> QED BY <2>1, <2>2, ImportFrame DEF RecordsTypeOK
<1>6. ASSUME NEW s \in Reviewers, Read(s)
      PROVE  ImportInv'
  <2>1. UNCHANGED <<row, typed, rec, todo, pending, inserted, holder, copies>>
    BY <1>6 DEF Read, importVars, scriptVars
  <2>2. Live' = Live
    BY <2>1 DEF Live
  <2> QED BY <2>1, <2>2, ImportFrame
<1>7. ASSUME NEW s \in Reviewers, ReadNext(s)
      PROVE  ImportInv'
  <2>1. PICK r \in todo[s] : /\ row[r] # NoRow
                             /\ todo' = [todo EXCEPT ![s] = @ \ {r}]
                             /\ rec' = rec \/ rec' = [rec EXCEPT ![s] = r]
    BY <1>7 DEF ReadNext
  <2>2. UNCHANGED <<row, typed, pending, inserted, holder, copies>>
    BY <1>7 DEF ReadNext, importVars, scriptVars
  <2>3. Live' = Live
    BY <2>2 DEF Live
  <2>4. \A q \in Reviewers : todo'[q] \subseteq todo[q] /\ (rec'[q] = rec[q] \/ rec'[q] = r)
    BY <2>1 DEF RecordsTypeOK
  <2> QED BY <2>1, <2>2, <2>3, <2>4, ImportFrame
<1>8. ASSUME NEW s \in Reviewers,
             Decline(s) \/ NextIsGone(s) \/ WriteRefused(s) \/ Commit(s) \/ Abort(s)
      PROVE  ImportInv'
  <2>1. End(s) /\ UNCHANGED <<typed, inserted, holder, copies>>
    BY <1>8 DEF Decline, NextIsGone, WriteRefused, Commit, Abort, importVars, scriptVars
  <2>2. \A q \in Reviewers, r \in Records : /\ rec'[q] = rec[q] \/ rec'[q] = NoRecord
                                            /\ todo'[q] \subseteq todo[q]
                                            /\ pending'[q][r] \in {pending[q][r], NoRow}
    BY <2>1 DEF End, NoRows, RecordsTypeOK
  <2>3. \A r \in Records : \/ row'[r] = row[r]
                           \/ row[r] # NoRow /\ row'[r].key = row[r].key
    <3>1. CASE Commit(s)
      <4>1. row' = [r \in Records |-> IF pending[s][r] # NoRow THEN pending[s][r] ELSE row[r]]
        BY <3>1 DEF Commit
      <4>2. \A r \in Records : pending[s][r] # NoRow =>
              row[r] # NoRow /\ pending[s][r].key = row[r].key
        BY DEF WriteInv, WritesNext, Held
      <4> QED BY <4>1, <4>2
    <3>2. CASE ~Commit(s)
      <4>1. row' = row
        BY <1>8, <3>2 DEF Decline, NextIsGone, WriteRefused, Abort
      <4> QED BY <4>1
    <3> QED BY <3>1, <3>2
  <2>4. \A q \in Live' : q \in Live /\ row'[q].key = row[q].key
    BY <2>3 DEF Live
  <2> QED BY <2>1, <2>2, <2>3, <2>4, ImportFrame, RecordsAssumption
<1>9. ASSUME NEW s \in Reviewers, Write(s)
      PROVE  ImportInv'
  <2>1. /\ UNCHANGED <<row, typed, todo, inserted, holder, copies>>
        /\ rec' = [rec EXCEPT ![s] = NoRecord] /\ rec[s] \in Records /\ row[rec[s]] # NoRow
    BY <1>9, WriteShape DEF Write, importVars, scriptVars
  <2>2. \A q \in Reviewers, r \in Records : r # rec[s] => pending'[q][r] = pending[q][r]
    <3>1. \E x : pending' = [pending EXCEPT ![s][rec[s]] = x]
      BY <1>9, WriteShape
    <3> QED BY <3>1 DEF RecordsTypeOK
  <2>3. Live' = Live
    BY <2>1 DEF Live
  <2>4. \A q \in Reviewers : rec'[q] = rec[q] \/ rec'[q] = NoRecord
    BY <2>1 DEF RecordsTypeOK
  <2> QED BY <2>1, <2>2, <2>3, <2>4, ImportFrame, RecordsAssumption
<1>10. ASSUME NEW r \in Records, Delete(r) PROVE ImportInv'
  <2>1. row' = [row EXCEPT ![r] = NoRow] /\ UNCHANGED <<typed, rec, todo, pending, inserted, holder, copies>>
    BY <1>10 DEF Delete, reqVars, importVars, scriptVars
  <2>2. \A q \in Records : row'[q] = row[q] \/ row'[q] = NoRow
    BY <2>1 DEF RecordsTypeOK
  <2>3. \A q \in Live' : q \in Live /\ row'[q].key = row[q].key
    BY <2>2 DEF Live
  <2> QED BY <2>1, <2>2, <2>3, ImportFrame
<1>11. ASSUME NEW what \in {"not_recorded", "word_amounts", "backfill", "reprocess"}, Select(what)
       PROVE  ImportInv'
  <2>1. /\ \A r \in Records : row[r] = NoRow => copies'[r] = NoRow
        /\ UNCHANGED <<row, typed, rec, todo, pending, inserted, holder>>
    BY <1>11 DEF Select, reqVars, importVars
  <2>2. Live' = Live
    BY <2>1 DEF Live
  <2> QED BY <2>1, <2>2, ImportFrame
<1>12. ASSUME NEW done \in SUBSET Records, Rewrite(done) PROVE ImportInv'
  <2>0. Rewrites(done)
    BY <1>12, RewriteShape
  <2>1. /\ UNCHANGED <<typed, rec, todo, pending, inserted, holder>>
        /\ \A r \in Records : copies'[r] \in {NoRow, copies[r]}
    BY <1>12 DEF Rewrite, reqVars, importVars
  <2>2. \A r \in Records : row'[r] = row[r] \/ (r \in Live /\ row'[r].key = row[r].key)
    BY <2>0 DEF Rewrites
  <2>3. \A q \in Live' : q \in Live /\ row'[q].key = row[q].key
    BY <2>2 DEF Live
  <2>4. \A r \in Records : row[r] = NoRow => row'[r] = NoRow
    BY <2>2 DEF Live
  <2> QED BY <2>1, <2>3, <2>4, ImportFrame
<1>13. ASSUME ScriptFails \/ Reprocess PROVE ImportInv'
  <2>1. /\ UNCHANGED <<typed, rec, todo, pending, inserted, holder>>
        /\ \A r \in Records : copies'[r] = NoRow /\ row'[r] \in {row[r], NoRow}
    BY <1>13 DEF ScriptFails, Reprocess, ScriptEnds, NoRows, reqVars, importVars
  <2>2. \A q \in Live' : q \in Live /\ row'[q].key = row[q].key
    BY <2>1 DEF Live
  <2> QED BY <2>1, <2>2, ImportFrame
<1> QED
  BY <1>1, <1>2, <1>3, <1>4, <1>5, <1>6, <1>7, <1>8, <1>9, <1>10, <1>11, <1>12, <1>13 DEF Next

-----------------------------------------------------------------------------
(* What requests have read *)

\* A request stays where it is.
Same(s) ==
  /\ pc'[s] = pc[s] /\ op'[s] = op[s] /\ rec'[s] = rec[s] /\ todo'[s] = todo[s]
  /\ seen'[s] = seen[s] /\ snap'[s] = snap[s]

\* Nobody opens the record s has in hand again: it stays, goes, or is written anew.
LEMMA ReadStays ==
  ASSUME RecordsInv, RecordsTypeOK', NEW s \in Reviewers,
         Same(s), typed' = typed,
         rec[s] \in Records =>
           /\ rec[s] \notin rewritten' => rec[s] \notin rewritten
           /\ rec[s] \in Live' \ rewritten' =>
                /\ rec[s] \in Live
                /\ row'[rec[s]] = row[rec[s]] \/ row'[rec[s]].version > row[rec[s]].version
  PROVE  ReadsCurrent(s)'
<1>1. ReadsCurrent(s)
  BY DEF RecordsInv, ReadInv
<1>0. Known(s)' = Known(s)
  BY DEF Known, Same
<1>2. CASE pc[s] \in {"idle", "next"}
  BY <1>1, <1>2 DEF ReadsCurrent, Same
<1>3. CASE pc[s] \in {"open", "read"}
  <2>1. rec[s] \in Records /\ Known(s) \in Row
    BY <1>1, <1>3 DEF ReadsCurrent, Known, RecordsInv, RecordsTypeOK
  <2>2. rec[s] \in Live' \ rewritten' =>
          /\ Known(s).version <= row'[rec[s]].version
          /\ Known(s).version = row'[rec[s]].version => Known(s) = row'[rec[s]]
    <3> HAVE rec[s] \in Live' \ rewritten'
    <3>1. /\ rec[s] \in Live \ rewritten /\ row[rec[s]] \in Row /\ row'[rec[s]] \in Row
          /\ row'[rec[s]] = row[rec[s]] \/ row'[rec[s]].version > row[rec[s]].version
      BY <2>1 DEF Live, RecordsInv, RecordsTypeOK
    <3>2. /\ Known(s).version <= row[rec[s]].version
          /\ Known(s).version = row[rec[s]].version => Known(s) = row[rec[s]]
      BY <1>1, <1>3, <3>1 DEF ReadsCurrent
    <3>3. Known(s).version \in Nat /\ row[rec[s]].version \in Nat /\ row'[rec[s]].version \in Nat
      BY <2>1, <3>1, RowParts
    <3> QED BY <3>1, <3>2, <3>3
  <2>3. pc[s] = "read" => Good(snap[s])'
    BY <1>1 DEF ReadsCurrent, Good, Same
  <2>4. pc[s] = "read" /\ op[s] # "bulk" =>
          seen[s] # NoRow /\ (rec[s] \notin rewritten' => seen[s] = snap[s])
    BY <1>1, <2>1 DEF ReadsCurrent
  <2> QED BY <1>0, <1>1, <1>3, <2>1, <2>2, <2>3, <2>4 DEF ReadsCurrent, Same
<1> QED BY <1>2, <1>3 DEF RecordsInv, RecordsTypeOK

LEMMA ReadFrame ==
  ASSUME RecordsInv, RecordsTypeOK', UNCHANGED <<pc, op, rec, todo, seen, snap, typed, row, rewritten>>
  PROVE  ReadInv'
<1>1. Live' = Live
  BY DEF Live
<1>2. \A s \in Reviewers : Same(s)
  BY DEF Same
<1> QED BY <1>1, <1>2, ReadStays DEF ReadInv

\* One request moves.
LEMMA ReadOther ==
  ASSUME RecordsInv, RecordsTypeOK', NEW s \in Reviewers, ReadsCurrent(s)',
         UNCHANGED <<typed, row, rewritten>>,
         \A q \in Reviewers \ {s} : Same(q)
  PROVE  ReadInv'
<1>1. Live' = Live
  BY DEF Live
<1>2. \A q \in Reviewers \ {s} : ReadsCurrent(q)'
  BY <1>1, ReadStays
<1> QED BY <1>2 DEF ReadInv

LEMMA EndParts ==
  ASSUME RecordsTypeOK, NEW s \in Reviewers, End(s)
  PROVE  /\ pc'[s] = "idle" /\ rec'[s] = NoRecord /\ todo'[s] = {} /\ pending'[s] = NoRows /\ added'[s] = {}
         /\ \A q \in Reviewers \ {s} :
              /\ Same(q) /\ pending'[q] = pending[q] /\ added'[q] = added[q]
BY DEF End, Same, RecordsTypeOK

LEMMA ReadStep == ASSUME RecordsInv, RecordsTypeOK', Next PROVE ReadInv'
<1> USE DEF RecordsInv
<1>1. ASSUME NEW i \in Imports, Import(i) \/ ImportNext(i) \/ ImportAbort(i) PROVE ReadInv'
  BY <1>1, ReadFrame DEF Import, ImportNext, ImportAbort, reqVars, history
<1>2. ASSUME NEW i \in Imports, ImportCommit(i) PROVE ReadInv'
  <2>1. /\ UNCHANGED <<pc, op, rec, todo, seen, snap, typed>>
        /\ row' = [r \in Records |-> IF inserted[i][r] # NoRow THEN inserted[i][r] ELSE row[r]]
        /\ rewritten' = {r \in rewritten : inserted[i][r] = NoRow}
    BY <1>2 DEF ImportCommit, reqVars
  <2>2. ASSUME NEW s \in Reviewers, rec[s] \in Records
        PROVE  inserted[i][rec[s]] = NoRow
    BY <2>2 DEF ImportInv
  <2>3. ASSUME NEW s \in Reviewers PROVE ReadsCurrent(s)'
    <3>1. rec[s] \in Records =>
            /\ rec[s] \notin rewritten' => rec[s] \notin rewritten
            /\ row'[rec[s]] = row[rec[s]]
      BY <2>1, <2>2
    <3>2. rec[s] \in Live' => rec[s] \in Records
      BY DEF Live
    <3>3. rec[s] \in Live' => rec[s] \in Live
      BY <3>1 DEF Live
    <3>4. Same(s)
      BY <2>1 DEF Same
    <3> QED BY <2>1, <3>1, <3>2, <3>3, <3>4, ReadStays
  <2> QED BY <2>3 DEF ReadInv
<1>3. ASSUME NEW s \in Reviewers, NEW r \in Records, NEW what \in {"correct", "approve"}, Open(s, r, what)
      PROVE  ReadInv'
  <2>1. /\ row[r] # NoRow /\ pc' = [pc EXCEPT ![s] = "open"] /\ rec' = [rec EXCEPT ![s] = r]
        /\ seen' = [seen EXCEPT ![s] = row[r]] /\ UNCHANGED <<todo, snap, row, typed, rewritten>>
        /\ pc[s] = "idle" /\ op' = [op EXCEPT ![s] = what]
    BY <1>3 DEF Open, history
  <2>2. pc'[s] = "open" /\ rec'[s] = r /\ seen'[s] = row[r] /\ todo'[s] = {}
    BY <2>1 DEF RecordsTypeOK, ReadInv, ReadsCurrent
  <2>3. row[r].version \in Nat
    BY <2>1, RowParts DEF RecordsTypeOK
  <2>4. ReadsCurrent(s)'
    BY <2>1, <2>2, <2>3 DEF ReadsCurrent, Known
  <2>5. \A q \in Reviewers \ {s} : Same(q)
    BY <2>1 DEF Same, RecordsTypeOK
  <2> QED BY <2>1, <2>4, <2>5, ReadOther
<1>4. ASSUME NEW s \in Reviewers, NEW rs \in SUBSET Records, OpenBulk(s, rs)
      PROVE  ReadInv'
  <2>1. /\ pc[s] = "idle" /\ pc' = [pc EXCEPT ![s] = "next"]
        /\ UNCHANGED <<rec, seen, snap, row, typed, rewritten>>
        /\ op' = [op EXCEPT ![s] = "bulk"] /\ todo' = [todo EXCEPT ![s] = rs]
    BY <1>4 DEF OpenBulk, history
  <2>2. pc'[s] = "next" /\ rec'[s] = NoRecord /\ op'[s] = "bulk"
    BY <2>1 DEF RecordsTypeOK, ReadInv, ReadsCurrent
  <2>3. ReadsCurrent(s)'
    BY <2>2 DEF ReadsCurrent
  <2>4. \A q \in Reviewers \ {s} : Same(q)
    BY <2>1 DEF Same, RecordsTypeOK
  <2> QED BY <2>1, <2>3, <2>4, ReadOther
<1>5. ASSUME NEW s \in Reviewers, Read(s)
      PROVE  ReadInv'
  <2>1. /\ pc[s] = "open" /\ row[rec[s]] # NoRow /\ row[rec[s]].version = seen[s].version
        /\ pc' = [pc EXCEPT ![s] = "read"] /\ snap' = [snap EXCEPT ![s] = row[rec[s]]]
        /\ UNCHANGED <<op, rec, todo, seen, row, typed, rewritten>>
    BY <1>5 DEF Read, IsCurrent, history
  <2>2. /\ pc'[s] = "read" /\ op'[s] = op[s] /\ rec'[s] = rec[s] /\ todo'[s] = todo[s]
        /\ seen'[s] = seen[s] /\ snap'[s] = row[rec[s]]
    BY <2>1 DEF RecordsTypeOK
  <2>3. ReadsCurrent(s) /\ rec[s] \in Live /\ Good(row[rec[s]]) /\ Live' = Live
    BY <2>1 DEF ReadInv, ReadsCurrent, Live, TableInv
  <2>a. row[rec[s]].version \in Nat
    BY <2>3, RowParts DEF Live, RecordsTypeOK
  <2>4. ReadsCurrent(s)'
    BY <2>1, <2>2, <2>3, <2>a DEF ReadsCurrent, Known, Good
  <2>5. \A q \in Reviewers \ {s} : Same(q)
    BY <2>1 DEF Same, RecordsTypeOK
  <2> QED BY <2>1, <2>4, <2>5, ReadOther
<1>6. ASSUME NEW s \in Reviewers, ReadNext(s)
      PROVE  ReadInv'
  <2>0. UNCHANGED <<op, seen, row, typed, rewritten>> /\ pc[s] = "next"
    BY <1>6 DEF ReadNext, history
  <2>1. PICK r \in todo[s] :
          /\ row[r] # NoRow /\ todo' = [todo EXCEPT ![s] = @ \ {r}]
          /\ IF NothingToDo(s, r)
               THEN UNCHANGED <<pc, rec, snap>>
               ELSE /\ pc'   = [pc EXCEPT ![s] = "read"]
                    /\ rec'  = [rec EXCEPT ![s] = r]
                    /\ snap' = [snap EXCEPT ![s] = row[r]]
    BY <1>6 DEF ReadNext
  <2>2. ReadsCurrent(s) /\ op[s] = "bulk" /\ rec[s] = NoRecord
    BY <2>0, <2>1 DEF ReadInv, ReadsCurrent
  <2>3. \A q \in Reviewers \ {s} : Same(q)
    BY <2>0, <2>1 DEF Same, RecordsTypeOK
  <2>4. CASE NothingToDo(s, r)
    <3>1. pc'[s] = "next" /\ rec'[s] = NoRecord /\ op'[s] = "bulk"
      BY <2>0, <2>1, <2>2, <2>4
    <3>2. ReadsCurrent(s)'
      BY <3>1 DEF ReadsCurrent
    <3> QED BY <2>0, <2>3, <3>2, ReadOther
  <2>5. CASE ~NothingToDo(s, r)
    <3>1. pc'[s] = "read" /\ rec'[s] = r /\ op'[s] = "bulk" /\ snap'[s] = row[r]
      BY <2>0, <2>1, <2>2, <2>5 DEF RecordsTypeOK
    <3>2. r \in Live /\ Good(row[r]) /\ row[r].version \in Nat
      BY <2>1, RowParts DEF Live, TableInv, RecordsTypeOK
    <3>3. ReadsCurrent(s)'
      BY <2>0, <3>1, <3>2 DEF ReadsCurrent, Known, Good, Live
    <3> QED BY <2>0, <2>3, <3>3, ReadOther
  <2> QED BY <2>4, <2>5
<1>7. ASSUME NEW s \in Reviewers, Decline(s) \/ NextIsGone(s) \/ WriteRefused(s) \/ Abort(s)
      PROVE  ReadInv'
  <2>1. End(s) /\ UNCHANGED <<row, typed, rewritten>>
    BY <1>7 DEF Decline, NextIsGone, WriteRefused, Abort, history
  <2>2. ReadsCurrent(s)'
    BY <2>1, EndParts DEF ReadsCurrent
  <2> QED BY <2>1, <2>2, EndParts, ReadOther
<1>8. ASSUME NEW s \in Reviewers, Write(s)
      PROVE  ReadInv'
  <2>1. /\ pc' = [pc EXCEPT ![s] = "next"] /\ rec' = [rec EXCEPT ![s] = NoRecord]
        /\ snap' = [snap EXCEPT ![s] = NoRow] /\ seen' = [seen EXCEPT ![s] = NoRow]
        /\ UNCHANGED <<op, todo, row, typed, rewritten>> /\ pc[s] = "read"
    BY <1>8 DEF Write, Reads, history
  <2>2. pc'[s] = "next" /\ rec'[s] = NoRecord /\ op'[s] = op[s] /\ todo'[s] = todo[s]
    BY <2>1 DEF RecordsTypeOK
  <2>3. ReadsCurrent(s)'
    BY <2>1, <2>2 DEF ReadInv, ReadsCurrent
  <2>4. \A q \in Reviewers \ {s} : Same(q)
    BY <2>1 DEF Same, RecordsTypeOK
  <2> QED BY <2>1, <2>3, <2>4, ReadOther
<1>9. ASSUME NEW s \in Reviewers, Commit(s)
      PROVE  ReadInv'
  <2>1. /\ End(s) /\ typed' = typed /\ rewritten' = rewritten
        /\ row' = [r \in Records |-> IF r \in Held(s) THEN pending[s][r] ELSE row[r]]
    BY <1>9 DEF Commit, Held
  <2>2. ReadsCurrent(s)'
    BY <2>1, EndParts DEF ReadsCurrent
  <2>3. \A r \in Records : r \in Live' => r \in Live
    BY <2>1 DEF Live, WriteInv, WritesNext
  <2>4. \A r \in Records \ rewritten : row'[r] = row[r] \/ row'[r].version > row[r].version
    <3> TAKE r \in Records \ rewritten
    <3>1. CASE r \in Held(s)
      <4>1. row'[r] = pending[s][r] /\ row[r] \in Row
        BY <2>1, <3>1 DEF WriteInv, WritesNext, RecordsTypeOK
      <4>2. pending[s][r].version = row[r].version + 1
        BY <3>1 DEF WriteInv, WritesNext, Continues
      <4> QED BY <4>1, <4>2, RowParts
    <3>2. CASE r \notin Held(s)
      BY <2>1, <3>2
    <3> QED BY <3>1, <3>2
  <2>5. \A q \in Reviewers \ {s} : ReadsCurrent(q)'
    BY <2>1, <2>3, <2>4, EndParts, ReadStays
  <2> QED BY <2>2, <2>5 DEF ReadInv
<1>10. ASSUME NEW r \in Records, Delete(r) PROVE ReadInv'
  <2>1. row' = [row EXCEPT ![r] = NoRow] /\ UNCHANGED <<pc, op, rec, todo, seen, snap, typed, rewritten>>
    BY <1>10 DEF Delete, reqVars
  <2>2. \A q \in Live' : q \in Live /\ row'[q] = row[q]
    BY <2>1 DEF Live, RecordsTypeOK
  <2>3. \A s \in Reviewers : Same(s)
    BY <2>1 DEF Same
  <2> QED BY <2>1, <2>2, <2>3, ReadStays DEF ReadInv
<1>11. ASSUME NEW what \in {"not_recorded", "word_amounts", "backfill", "reprocess"}, Select(what)
       PROVE  ReadInv'
  BY <1>11, ReadFrame DEF Select, reqVars, history
<1>12. ASSUME NEW done \in SUBSET Records, Rewrite(done) PROVE ReadInv'
  <2>0. Rewrites(done)
    BY <1>12, RewriteShape
  <2>1. UNCHANGED <<pc, op, rec, todo, seen, snap, typed>>
    BY <1>12 DEF Rewrite, reqVars
  <2>2. ASSUME NEW s \in Reviewers PROVE ReadsCurrent(s)'
    <3>1. rec[s] \in Records => (rec[s] \notin rewritten' => rec[s] \notin rewritten)
      BY <2>0 DEF Rewrites
    <3>2. rec[s] \in Records \ rewritten' => rec[s] \notin done
      <4> HAVE rec[s] \in Records \ rewritten'
      <4>1. rec[s] \in Watched
        BY DEF Watched
      <4> QED BY <2>0, <4>1 DEF Rewrites
    <3>3. rec[s] \in Records \ rewritten' => row'[rec[s]] = row[rec[s]]
      BY <2>0, <3>2 DEF Rewrites
    <3>4. rec[s] \in Live' \ rewritten' => rec[s] \in Live
      BY <3>3 DEF Live
    <3>5. Same(s)
      BY <2>1 DEF Same
    <3> QED BY <2>1, <3>1, <3>3, <3>4, <3>5, ReadStays
  <2> QED BY <2>2 DEF ReadInv
<1>13. ASSUME ScriptFails PROVE ReadInv'
  BY <1>13, ReadFrame DEF ScriptFails, reqVars, history
<1>14. ASSUME Reprocess PROVE ReadInv'
  <2>1. Live' = {} /\ UNCHANGED <<pc, op, rec, todo, seen, snap, typed, rewritten>>
    BY <1>14 DEF Reprocess, Live, NoRows, reqVars
  <2>2. \A s \in Reviewers : Same(s)
    BY <2>1 DEF Same
  <2> QED BY <2>1, <2>2, ReadStays DEF ReadInv
<1> QED
  BY <1>1, <1>2, <1>3, <1>4, <1>5, <1>6, <1>7, <1>8, <1>9, <1>10, <1>11, <1>12, <1>13, <1>14 DEF Next

-----------------------------------------------------------------------------
(* What requests have written *)

LEMMA WritesStay ==
  ASSUME RecordsInv, NEW s \in Reviewers, pending'[s] = pending[s], added'[s] = added[s], typed' = typed,
         \A r \in Held(s) : row'[r] = row[r] /\ (r \notin rewritten' => r \notin rewritten)
  PROVE  WritesNext(s)'
<1>1. WritesNext(s)
  BY DEF RecordsInv, WriteInv
<1>2. Held(s)' = Held(s)
  BY DEF Held
<1> QED BY <1>1, <1>2 DEF WritesNext, Good

LEMMA WriteFrame ==
  ASSUME RecordsInv, UNCHANGED <<pending, added, typed>>,
         \A s \in Reviewers : \A r \in Held(s) : row'[r] = row[r] /\ (r \notin rewritten' => r \notin rewritten)
  PROVE  WriteInv'
<1>1. \A s \in Reviewers : WritesNext(s)'
  BY WritesStay
<1>2. \A s \in Reviewers : Held(s)' = Held(s)
  BY DEF Held
<1> QED BY <1>1, <1>2 DEF RecordsInv, WriteInv

\* The request s ends, and what the others have written stays.
LEMMA WriteEnds ==
  ASSUME RecordsInv, NEW s \in Reviewers, End(s), UNCHANGED <<typed, rewritten>>,
         \A q \in Reviewers \ {s} : \A r \in Held(q) : row'[r] = row[r]
  PROVE  WriteInv'
<1> USE DEF RecordsInv
<1>1. /\ Held(s)' = {} /\ added'[s] = {}
      /\ \A q \in Reviewers \ {s} : pending'[q] = pending[q] /\ added'[q] = added[q] /\ Held(q)' = Held(q)
  BY EndParts DEF Held, NoRows
<1>2. WritesNext(s)'
  BY <1>1 DEF WritesNext
<1>3. \A q \in Reviewers \ {s} : WritesNext(q)'
  BY <1>1, WritesStay
<1> QED BY <1>1, <1>2, <1>3 DEF WriteInv

\* The unique key on versions: a request that read an older row cannot write.
LEMMA WriteIsOfRow ==
  ASSUME RecordsInv, NEW s \in Reviewers, Write(s), rec[s] \notin rewritten
  PROVE  /\ snap[s] = row[rec[s]] /\ (op[s] # "bulk" => seen[s] = row[rec[s]])
         /\ Sound(row[rec[s]], Trail(rec[s]))
<1> USE DEF RecordsInv
<1> DEFINE r == rec[s]
<1>1. /\ r \in Records /\ row[r] \in Row /\ snap[s] \in Row /\ r \in Live
      /\ \A v \in revisions : v.rec = r => v.version # snap[s].version + 1
  BY WriteShape DEF Write, VersionIsFree, Live
<1>2. /\ op[s] # "bulk" => seen[s] = snap[s]
      /\ snap[s].version <= row[r].version
      /\ snap[s].version = row[r].version => snap[s] = row[r]
  BY <1>1 DEF ReadInv, ReadsCurrent, Known, Write, Reads
<1>3. Sound(row[r], Trail(r))
  BY <1>1 DEF TableInv
<1>4. snap[s].version + 1 \notin 2 .. row[r].version
  <2>1. \A n \in 2 .. row[r].version : \E v \in Trail(r) : v.version = n
    BY <1>3 DEF Sound
  <2> QED BY <1>1, <2>1 DEF Trail
<1>5. snap[s].version \in Nat \ {0} /\ row[r].version \in Nat \ {0}
  BY <1>1, RowParts
<1>6. snap[s].version = row[r].version
  BY <1>2, <1>4, <1>5
<1> QED BY <1>2, <1>3, <1>6

LEMMA WriteWrites ==
  ASSUME RecordsInv, NEW s \in Reviewers, Write(s)
  PROVE  WriteInv'
<1> USE DEF RecordsInv
<1> DEFINE r == rec[s]
<1>1. r \in Records /\ row[r] \in Row /\ snap[s] \in Row /\ row[r] # NoRow
  BY WriteShape, RowParts
<1>2. PICK change \in Cells, new \in Row :
        /\ op[s] = "correct" => new = Corrected(snap[s], change)
        /\ op[s] # "correct" => new = Approved(snap[s]) /\ change = snap[s].values
        /\ pending' = [pending EXCEPT ![s][r] = Update(snap[s], new, row[r])]
        /\ added' = [added EXCEPT ![s] = @ \cup
             {[rec |-> r, version |-> snap[s].version + 1, op |-> op[s],
               previous |-> snap[s].values, new |-> change, seen |-> Vouched(s)]}]
  BY WriteShape
<1> DEFINE written == Update(snap[s], new, row[r])
           v == [rec |-> r, version |-> snap[s].version + 1, op |-> op[s],
                 previous |-> snap[s].values, new |-> change, seen |-> Vouched(s)]
<1>3. /\ new.version = snap[s].version + 1 /\ new.missing \subseteq snap[s].missing
      /\ new.key = snap[s].key
      /\ new.values = Overlay(snap[s].values, change)
      /\ op[s] = "correct" => /\ new.corrected = Overlay(snap[s].corrected, change)
                              /\ new.status = "APPROVED" => new.missing = {}
      /\ op[s] # "correct" => new.corrected = snap[s].corrected /\ new.values = snap[s].values
  <2>1. CASE op[s] = "correct"
    BY <1>1, <1>2, <2>1, CorrectedRow
  <2>2. CASE op[s] # "correct"
    BY <1>1, <1>2, <2>2, ApprovedRow, CellFacts, RowParts
  <2> QED BY <2>1, <2>2
<1>4. /\ written \in Row /\ written.key = row[r].key
      /\ written.version = Column(snap[s].version, new.version, row[r].version)
      /\ written.missing = Column(snap[s].missing, new.missing, row[r].missing)
  BY <1>1, <1>2, UpdateRow
<1>5. written.version > 1
  <2>1. snap[s].version \in Nat \ {0}
    BY <1>1, RowParts
  <2> QED BY <1>3, <1>4, <2>1 DEF Column
<1>6. Good(written)
  <2>1. Good(snap[s]) /\ Good(row[r])
    BY <1>1 DEF ReadInv, ReadsCurrent, Write, Reads, TableInv, Live
  <2> QED BY <1>3, <1>4, <2>1 DEF Good, Column
<1>7. r \notin rewritten => Continues(v, row[r], written)
  <2> HAVE r \notin rewritten
  <2>1. /\ snap[s] = row[r] /\ (op[s] # "bulk" => seen[s] = row[r])
        /\ Sound(row[r], Trail(r))
    BY WriteIsOfRow
  <2>2. /\ written.status = new.status /\ written.version = new.version
        /\ written.values = new.values /\ written.corrected = new.corrected
        /\ written.missing = new.missing
    BY <1>1, <1>2, <1>3, <2>1, UpdateOfRead
  <2>3. v.version = row[r].version + 1 /\ written.version = v.version
    BY <1>3, <2>1, <2>2
  <2>a. v.op # "bulk" => v.seen = row[r].values
    BY <2>1, WriteShape
  <2>4. v.previous = row[r].values /\ written.values = After(v)
    BY <1>3, <2>1, <2>2 DEF After
  <2>5. ASSUME NEW f \in Fields, written.corrected[f] # NoValue
        PROVE  written.values[f] = written.corrected[f]
    <3>1. row[r].corrected[f] # NoValue => row[r].values[f] = row[r].corrected[f]
      BY <2>1 DEF Sound
    <3>2. CASE op[s] = "correct"
      BY <1>3, <2>1, <2>2, <2>5, <3>1, <3>2 DEF Overlay
    <3>3. CASE op[s] # "correct"
      BY <1>3, <2>1, <2>2, <2>5, <3>1, <3>3
    <3> QED BY <3>2, <3>3
  <2>6. written.status = "APPROVED" /\ written.missing # {} => v.op # "correct"
    BY <1>3, <2>2
  <2> HIDE DEF written, v
  <2> QED BY <2>3, <2>a, <2>4, <2>5, <2>6 DEF Continues
<1>8. v.rec = r
  OBVIOUS
<1>9. /\ pending' = [pending EXCEPT ![s][r] = written]
      /\ added' = [added EXCEPT ![s] = @ \cup {v}]
  BY <1>2
<1>10. UNCHANGED <<row, rewritten, typed>>
  BY DEF Write, history
<1>11. \A q \in Reviewers : r \notin Held(q)
  BY DEF Write, Reads, Locked
<1> HIDE DEF written, v, r
<1>12. written # NoRow
  BY <1>4, RowParts
<1>13. /\ pending'[s][r] = written
       /\ \A p \in Records \ {r} : pending'[s][p] = pending[s][p]
       /\ added'[s] = added[s] \cup {v}
       /\ \A q \in Reviewers \ {s} : pending'[q] = pending[q] /\ added'[q] = added[q]
  BY <1>1, <1>9 DEF RecordsTypeOK
<1>14. Held(s)' = Held(s) \cup {r} /\ \A q \in Reviewers \ {s} : Held(q)' = Held(q)
  BY <1>1, <1>12, <1>13 DEF Held
<1>15. \A q \in Reviewers \ {s} : WritesNext(q)'
  BY <1>10, <1>13, WritesStay
<1>16. WritesNext(s)
  BY DEF WriteInv
<1>17. WritesNext(s)'
  <2>1. \A u \in added'[s] : u.rec \in Held(s)'
    BY <1>8, <1>13, <1>14, <1>16 DEF WritesNext
  <2>2. ASSUME NEW p \in Held(s)'
        PROVE  /\ row'[p] # NoRow /\ pending'[s][p].key = row'[p].key
               /\ pending'[s][p].version > 1 /\ Good(pending[s][p])'
               /\ p \notin rewritten' =>
                    \E w \in added'[s] : /\ w.rec = p /\ \A u \in added'[s] : u.rec = p => u = w
                                         /\ Continues(w, row'[p], pending'[s][p])
    <3>1. CASE p = r
      <4>1. \A u \in added'[s] : u.rec = r => u = v
        BY <1>11, <1>13, <1>16 DEF WritesNext
      <4>2. Good(pending[s][p])'
        BY <1>6, <1>10, <1>13, <3>1 DEF Good
      <4> QED BY <1>1, <1>4, <1>5, <1>7, <1>8, <1>10, <1>13, <3>1, <4>1, <4>2
    <3>2. CASE p # r
      <4>1. p \in Held(s) /\ p \in Records
        BY <1>14, <3>2 DEF Held
      <4>2. pending'[s][p] = pending[s][p]
        BY <1>13, <3>2, <4>1
      <4>3. p \notin rewritten =>
              \E w \in added[s] : /\ w.rec = p /\ \A u \in added[s] : u.rec = p => u = w
                                  /\ Continues(w, row[p], pending[s][p])
        BY <1>16, <4>1 DEF WritesNext
      <4>4. p \notin rewritten =>
              \E w \in added'[s] : /\ w.rec = p /\ \A u \in added'[s] : u.rec = p => u = w
                                   /\ Continues(w, row[p], pending[s][p])
        BY <1>8, <1>13, <3>2, <4>3
      <4>5. /\ row[p] # NoRow /\ pending[s][p].key = row[p].key
            /\ pending[s][p].version > 1 /\ Good(pending[s][p])
        BY <1>16, <4>1 DEF WritesNext
      <4> QED BY <1>10, <4>2, <4>4, <4>5 DEF Good
    <3> QED BY <3>1, <3>2
  <2> QED BY <2>1, <2>2 DEF WritesNext
<1>18. \A p, q \in Reviewers : p # q => Held(p)' \cap Held(q)' = {}
  BY <1>11, <1>14 DEF WriteInv
<1> QED BY <1>15, <1>17, <1>18 DEF WriteInv

LEMMA WriteStep == ASSUME RecordsInv, Next PROVE WriteInv'
<1> USE DEF RecordsInv
<1>1. ASSUME NEW i \in Imports, Import(i) \/ ImportNext(i) \/ ImportAbort(i) PROVE WriteInv'
  BY <1>1, WriteFrame DEF Import, ImportNext, ImportAbort, reqVars, history
<1>2. ASSUME NEW i \in Imports, ImportCommit(i) PROVE WriteInv'
  <2>1. /\ UNCHANGED <<pending, added, typed>>
        /\ row' = [r \in Records |-> IF inserted[i][r] # NoRow THEN inserted[i][r] ELSE row[r]]
        /\ rewritten' = {r \in rewritten : inserted[i][r] = NoRow}
    BY <1>2 DEF ImportCommit, reqVars
  <2>2. \A s \in Reviewers : \A r \in Held(s) : r \in Records /\ inserted[i][r] = NoRow
    BY DEF ImportInv, Held
  <2> QED BY <2>1, <2>2, WriteFrame
<1>3. ASSUME NEW s \in Reviewers, NEW r \in Records, NEW what \in {"correct", "approve"}, Open(s, r, what)
      PROVE  WriteInv'
  BY <1>3, WriteFrame DEF Open, history
<1>4. ASSUME NEW s \in Reviewers, NEW rs \in SUBSET Records, OpenBulk(s, rs)
      PROVE  WriteInv'
  BY <1>4, WriteFrame DEF OpenBulk, history
<1>5. ASSUME NEW s \in Reviewers, Read(s) \/ ReadNext(s)
      PROVE  WriteInv'
  BY <1>5, WriteFrame DEF Read, ReadNext, history
<1>6. ASSUME NEW s \in Reviewers, Decline(s) \/ NextIsGone(s) \/ WriteRefused(s) \/ Abort(s)
      PROVE  WriteInv'
  <2>1. End(s) /\ UNCHANGED <<row, typed, rewritten>>
    BY <1>6 DEF Decline, NextIsGone, WriteRefused, Abort, history
  <2> QED BY <2>1, WriteEnds
<1>7. ASSUME NEW s \in Reviewers, Write(s) PROVE WriteInv'
  BY <1>7, WriteWrites
<1>8. ASSUME NEW s \in Reviewers, Commit(s) PROVE WriteInv'
  <2>1. /\ End(s) /\ UNCHANGED <<typed, rewritten>>
        /\ row' = [r \in Records |-> IF r \in Held(s) THEN pending[s][r] ELSE row[r]]
    BY <1>8 DEF Commit, Held
  <2>2. \A q \in Reviewers \ {s} : \A r \in Held(q) : r \in Records /\ r \notin Held(s)
    BY DEF WriteInv, Held
  <2> QED BY <2>1, <2>2, WriteEnds
<1>9. ASSUME NEW r \in Records, Delete(r) PROVE WriteInv'
  <2>1. /\ row' = [row EXCEPT ![r] = NoRow] /\ UNCHANGED <<pending, added, typed, rewritten>>
        /\ \A s \in Reviewers : r \notin Held(s)
    BY <1>9 DEF Delete, Locked, reqVars
  <2>2. \A q \in Records \ {r} : row'[q] = row[q]
    BY <2>1 DEF RecordsTypeOK
  <2> QED BY <2>1, <2>2, WriteFrame DEF Held
<1>10. ASSUME NEW what \in {"not_recorded", "word_amounts", "backfill", "reprocess"}, Select(what)
       PROVE  WriteInv'
  BY <1>10, WriteFrame DEF Select, reqVars, history
<1>11. ASSUME NEW done \in SUBSET Records, Rewrite(done) PROVE WriteInv'
  <2>0. Rewrites(done)
    BY <1>11, RewriteShape
  <2>1. UNCHANGED <<pending, added, typed>>
    BY <1>11 DEF Rewrite, reqVars
  <2>2. \A s \in Reviewers : \A r \in Held(s) : r \in Records \ done
    BY <2>0 DEF Rewrites, Held
  <2> QED BY <2>0, <2>1, <2>2, WriteFrame DEF Rewrites
<1>12. ASSUME ScriptFails PROVE WriteInv'
  BY <1>12, WriteFrame DEF ScriptFails, reqVars, history
<1>13. ASSUME Reprocess PROVE WriteInv'
  <2>1. UNCHANGED <<pending, added, typed, rewritten>>
    BY <1>13 DEF Reprocess, reqVars
  <2>2. \A s \in Reviewers : Held(s) = {}
    BY <1>13 DEF Reprocess, Locked, WriteInv, WritesNext, Live, Held
  <2> QED BY <2>1, <2>2, WriteFrame
<1> QED
  BY <1>1, <1>2, <1>3, <1>4, <1>5, <1>6, <1>7, <1>8, <1>9, <1>10, <1>11, <1>12, <1>13 DEF Next

-----------------------------------------------------------------------------
(* The scripts, and the theorems *)

LEMMA ScriptStep == ASSUME RecordsInv, Next PROVE ScriptInv'
<1> USE DEF RecordsInv
<1>1. ASSUME UNCHANGED <<script, copies, typed>> PROVE ScriptInv'
  BY <1>1 DEF ScriptInv, Good
<1>2. ASSUME ScriptEnds PROVE ScriptInv'
  BY <1>2 DEF ScriptEnds, ScriptInv, NoRows
<1>3. ASSUME NEW what \in {"not_recorded", "word_amounts", "backfill", "reprocess"}, Select(what)
      PROVE  ScriptInv'
  <2>1. /\ script' = what /\ typed' = typed /\ \E r \in Records : Selects(what, r)
        /\ copies' = [r \in Records |-> IF Selects(what, r) THEN row[r] ELSE NoRow]
    BY <1>3 DEF Select
  <2>2. \A r \in Records : Selects(what, r) => row[r].version = 1 /\ Good(row[r])
    BY DEF Selects, Untouched, TableInv, Live
  <2>3. (what = "not_recorded" => ~typed) /\ (what \in {"word_amounts", "backfill"} => typed)
    BY <2>1 DEF Selects
  <2> QED BY <2>1, <2>2, <2>3 DEF ScriptInv, Good
<1>4. CASE \E i \in Imports : Import(i) \/ ImportNext(i) \/ ImportCommit(i) \/ ImportAbort(i)
  BY <1>1, <1>4 DEF Import, ImportNext, ImportCommit, ImportAbort, scriptVars
<1>5. CASE \E s \in Reviewers : \/ \E r \in Records, what \in {"correct", "approve"} : Open(s, r, what)
                                \/ \E rs \in SUBSET Records : OpenBulk(s, rs)
                                \/ Read(s) \/ Decline(s) \/ ReadNext(s) \/ NextIsGone(s)
                                \/ Write(s) \/ WriteRefused(s) \/ Commit(s) \/ Abort(s)
  BY <1>1, <1>5 DEF Open, OpenBulk, Read, Decline, ReadNext, NextIsGone, Write, WriteRefused, Commit,
                    Abort, scriptVars
<1>6. CASE \E r \in Records : Delete(r)
  BY <1>1, <1>6 DEF Delete, scriptVars
<1>7. CASE ScriptFails \/ Reprocess
  BY <1>2, <1>7 DEF ScriptFails, Reprocess
<1>8. CASE \E done \in SUBSET Records : Rewrite(done)
  BY <1>2, <1>8 DEF Rewrite, ScriptInv, Good
<1> QED BY <1>3, <1>4, <1>5, <1>6, <1>7, <1>8 DEF Next

LEMMA TableStep == ASSUME RecordsInv, Next PROVE TableInv'
<1>0. TableInv
  BY DEF RecordsInv
<1>1. CASE \E i \in Imports : Import(i) \/ ImportNext(i) \/ ImportAbort(i)
  BY <1>0, <1>1, TableFrame DEF Import, ImportNext, ImportAbort, history
<1>2. CASE \E i \in Imports : ImportCommit(i)
  BY <1>2, TableImportCommit
<1>3. CASE \E s \in Reviewers : \/ \E r \in Records, what \in {"correct", "approve"} : Open(s, r, what)
                                \/ \E rs \in SUBSET Records : OpenBulk(s, rs)
                                \/ Read(s) \/ Decline(s) \/ ReadNext(s) \/ NextIsGone(s)
                                \/ Write(s) \/ WriteRefused(s) \/ Abort(s)
  BY <1>0, <1>3, TableFrame DEF Open, OpenBulk, Read, Decline, ReadNext, NextIsGone, Write,
                                WriteRefused, Abort, history
<1>4. CASE \E s \in Reviewers : Commit(s)
  BY <1>4, TableCommit
<1>5. CASE \E r \in Records : Delete(r)
  BY <1>5, TableDelete
<1>6. CASE \E what \in {"not_recorded", "word_amounts", "backfill", "reprocess"} : Select(what)
  BY <1>0, <1>6, TableFrame DEF Select, history
<1>7. CASE \E done \in SUBSET Records : Rewrite(done)
  BY <1>7, TableRewrite
<1>8. CASE ScriptFails
  BY <1>0, <1>8, TableFrame DEF ScriptFails, history
<1>9. CASE Reprocess
  BY <1>9, TableReprocess
<1> QED BY <1>1, <1>2, <1>3, <1>4, <1>5, <1>6, <1>7, <1>8, <1>9 DEF Next

LEMMA InitInv == Init => RecordsInv
<1> SUFFICES ASSUME Init PROVE RecordsInv
  OBVIOUS
<1>1. RecordsTypeOK
  BY InitTypes
<1>2. Live = {} /\ revisions = {} /\ \A s \in Reviewers : Held(s) = {}
  BY DEF Init, Live, Held, NoRows
<1>3. TableInv
  BY <1>2 DEF Init, TableInv, OneRecordPerKey, ReviewsSurvive
<1>4. ImportInv
  BY DEF Init, ImportInv, NoRows
<1>5. ReadInv
  BY DEF Init, ReadInv, ReadsCurrent
<1>6. WriteInv
  BY <1>2 DEF Init, WriteInv, WritesNext
<1>7. ScriptInv
  BY DEF Init, ScriptInv, NoRows
<1> QED BY <1>1, <1>3, <1>4, <1>5, <1>6, <1>7 DEF RecordsInv

LEMMA Inductive == Spec => []RecordsInv
<1>1. RecordsInv /\ [Next]_vars => RecordsInv'
  <2> SUFFICES ASSUME RecordsInv, [Next]_vars PROVE RecordsInv'
    OBVIOUS
  <2>1. CASE Next
    <3>1. RecordsTypeOK'
      BY <2>1, TypesStep DEF RecordsInv
    <3> QED BY <2>1, <3>1, TableStep, ImportStep, ReadStep, WriteStep, ScriptStep DEF RecordsInv
  <2>2. CASE UNCHANGED vars
    <3> USE <2>2 DEF vars, reqVars, importVars, scriptVars, history, RecordsInv
    <3>1. RecordsTypeOK'
      BY DEF RecordsTypeOK
    <3>2. TableInv'
      BY TableFrame
    <3>3. Live' = Live
      BY DEF Live
    <3>4. ImportInv'
      BY <3>3, ImportFrame
    <3>5. ReadInv'
      BY <3>1, ReadFrame
    <3>6. WriteInv'
      BY WriteFrame
    <3>7. ScriptInv'
      BY DEF ScriptInv, Good
    <3> QED BY <3>1, <3>2, <3>4, <3>5, <3>6, <3>7
  <2> QED BY <2>1, <2>2
<1> QED BY <1>1, InitInv, PTL DEF Spec

\* Types: every row, revision and request is what the tables can hold.
THEOREM RecordsTypesHold == Spec => []RecordsTypeOK
<1>1. RecordsInv => RecordsTypeOK
  BY DEF RecordsInv
<1> QED BY <1>1, Inductive, PTL

\* The revisions of a record replay to its values, version by version, for any
\* number of concurrent corrections and approvals (append_revision).
THEOREM AuditTrailsReplay == Spec => []AuditTrailReplays
<1>1. RecordsInv => AuditTrailReplays
  BY DEF RecordsInv, TableInv, Sound, AuditTrailReplays
<1> QED BY <1>1, Inductive, PTL

\* Whatever a reviewer corrected, or approved one by one, is what was on the
\* screen (the version check of apply_correction and _set_review_status).  Of what
\* is approved in bulk, without a version, it says nothing.
THEOREM ReviewsAreOfWhatWasSeen == Spec => []ReviewIsOfWhatWasSeen
<1>1. RecordsInv => ReviewIsOfWhatWasSeen
  BY DEF RecordsInv, TableInv, ReviewIsOfWhatWasSeen
<1> QED BY <1>1, Inductive, PTL

\* A correction is what the record shows and what its export shows
\* (apply_correction, _effective_values).
THEOREM CorrectionsAreShown == Spec => []CorrectionsShown
<1>1. RecordsInv => CorrectionsShown
  <2> SUFFICES ASSUME RecordsInv, NEW r \in Live \ rewritten, NEW f \in Fields,
                      row[r].corrected[f] # NoValue
               PROVE  row[r].values[f] = row[r].corrected[f] /\ Effective(r)[f] = row[r].corrected[f]
    BY DEF CorrectionsShown
  <2>1. row[r].values[f] = row[r].corrected[f]
    BY DEF RecordsInv, TableInv, Sound
  <2>2. Effective(r)[f] = row[r].corrected[f]
    BY DEF Effective, Overlay
  <2> QED BY <2>1, <2>2
<1> QED BY <1>1, Inductive, PTL

\* A record that misses a field is approved by a reviewer, or not at all
\* (_status_for, _initial_status_for, plan_update of the scripts).
THEOREM MissingNeedsAnApproval == Spec => []MissingNeedsApproval
<1>1. RecordsInv => MissingNeedsApproval
  BY DEF RecordsInv, TableInv, Sound, MissingNeedsApproval
<1> QED BY <1>1, Inductive, PTL

\* However many runs import a job, each key has one record (complete_job,
\* create_record_if_missing).
THEOREM EachKeyHasOneRecord == Spec => []OneRecordPerKey
<1>1. RecordsInv => OneRecordPerKey
  BY DEF RecordsInv, TableInv
<1> QED BY <1>1, Inductive, PTL

\* No script deletes a review that it could have seen (reprocess_typed_jobs,
\* reprocess_hollow_handwritten).
THEOREM ReviewsAlwaysSurvive == Spec => []ReviewsSurvive
<1>1. RecordsInv => ReviewsSurvive
  BY DEF RecordsInv, TableInv
<1> QED BY <1>1, Inductive, PTL
=============================================================================

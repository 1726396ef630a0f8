--------------------------- MODULE CustomerImport ---------------------------
(***************************************************************************)
(* The confirmed import of customers,                                      *)
(* src/backend/src/customers/customers.service.ts (importFromBuffer).      *)
(*                                                                         *)
(* An import reads the numbers that are stored, classifies the rows of the *)
(* file against them, and inserts the valid rows: all at once, or, if that *)
(* throws, one by one.  The number of a customer is not unique in the      *)
(* schema, and several imports may run at once.  The preview classifies    *)
(* the same way and writes nothing.                                        *)
(***************************************************************************)
EXTENDS Integers, FiniteSets

CONSTANTS
  Slots,        \* how many imports may be under way at once
  Mobiles,      \* the numbers of a valid length
  MaxRows,      \* bound: rows in a file
  MaxImports,   \* bound: imports in a behaviour
  MaxFaults,    \* bound: queries that throw and do nothing
  MaxLost,      \* bound: inserts that take effect, and throw
  MaxCrashes,   \* bound: crashes of the process
  None          \* no number, or one of a wrong length

ASSUME SlotsAssumption == IsFiniteSet(Slots) /\ Slots # {}
ASSUME RowsAssumption == MaxRows \in Nat
ASSUME BudgetAssumption ==
  MaxImports \in Nat /\ MaxFaults \in Nat /\ MaxLost \in Nat /\ MaxCrashes \in Nat
ASSUME NoneAssumption == None \notin Mobiles

VARIABLES
  stored,    \* the Customer table: how many rows hold each number
  import,    \* the imports under way: await point and local variables
  budget     \* how much of each bound is spent

vars == <<stored, import, budget>>

Row == [mobile : Mobiles \cup {None}, named : BOOLEAN]
Files == UNION {[1..n -> Row] : n \in 1..MaxRows}

Usable(row) == row.mobile # None /\ row.named

\* Mutant: a row without a name also makes the next one a duplicate.
ValidUnlessSeen(rows, exists) ==
  {i \in DOMAIN rows :
    /\ Usable(rows[i])
    /\ rows[i].mobile \notin exists
    /\ \A j \in 1..(i - 1) : rows[j].mobile # rows[i].mobile}

\* Mutant: rows of the same file are not compared.
ValidEach(rows, exists) == {i \in DOMAIN rows : Usable(rows[i]) /\ rows[i].mobile \notin exists}

\* classifyRows: the valid rows.  The rest are invalid (no number, a wrong
\* length, no name), duplicates in the file, or numbers that exist.
Valid(rows, exists) ==
  {i \in DOMAIN rows :
    /\ Usable(rows[i])
    /\ rows[i].mobile \notin exists
    /\ \A j \in 1..(i - 1) : Usable(rows[j]) => rows[j].mobile # rows[i].mobile}

IdleImport ==
  [pc |-> "idle", rows |-> <<>>, todo |-> {}, inserted |-> 0, added |-> 0, failed |-> {}]

\* The table with the given rows of an import added.
With(s, indices) ==
  [m \in Mobiles |-> stored[m] + Cardinality({i \in indices : import[s].rows[i].mobile = m})]

\* Rows are inserted one by one in the order of the file.
First(s) == CHOOSE i \in import[s].todo : \A j \in import[s].todo : i <= j

-----------------------------------------------------------------------------
Goto(s, record) == import' = [import EXCEPT ![s] = record]
Spend(bound) == budget' = [budget EXCEPT ![bound] = @ + 1]

\* A file arrives and is parsed.
Upload(s) ==
  /\ import[s].pc = "idle"
  /\ budget.imports < MaxImports
  /\ \E rows \in Files : Goto(s, [IdleImport EXCEPT !.pc = "read", !.rows = rows])
  /\ Spend("imports")
  /\ UNCHANGED stored

\* Mutant: the insert is made also when there is nothing to insert.
ReadExistingAlways(s) ==
  /\ import[s].pc = "read"
  /\ LET todo == Valid(import[s].rows, {m \in Mobiles : stored[m] > 0})
     IN  Goto(s, [import[s] EXCEPT !.todo = todo, !.pc = "createAll"])
  /\ UNCHANGED <<stored, budget>>

\* existingMobiles, then the classification.
ReadExisting(s) ==
  /\ import[s].pc = "read"
  /\ LET todo == Valid(import[s].rows, {m \in Mobiles : stored[m] > 0})
     IN  Goto(s, [import[s] EXCEPT !.todo = todo, !.pc = IF todo = {} THEN "answer" ELSE "createAll"])
  /\ UNCHANGED <<stored, budget>>

CreateAll(s) ==
  /\ import[s].pc = "createAll"
  /\ LET n == Cardinality(import[s].todo)
     IN  Goto(s, [import[s] EXCEPT !.pc = "answer", !.todo = {}, !.inserted = n, !.added = n])
  /\ stored' = With(s, import[s].todo)
  /\ UNCHANGED budget

\* Mutant: a row that could not be inserted is counted.
AfterCreateCounted(s, counted) ==
  LET todo == import[s].todo \ {First(s)}
  IN  [import[s] EXCEPT
        !.todo = todo,
        !.pc = IF todo = {} THEN "answer" ELSE "create",
        !.inserted = @ + 1]

\* One row of the fallback is dealt with.
AfterCreate(s, counted) ==
  LET todo == import[s].todo \ {First(s)}
  IN  [import[s] EXCEPT
        !.todo = todo,
        !.pc = IF todo = {} THEN "answer" ELSE "create",
        !.inserted = IF counted THEN @ + 1 ELSE @]

\* The fallback wraps the row as {data: row}, unlike the other services; whether
\* the client takes it or throws is the choice between Create and Fault.
Create(s) ==
  /\ import[s].pc = "create"
  /\ Goto(s, [AfterCreate(s, TRUE) EXCEPT !.added = @ + 1])
  /\ stored' = With(s, {First(s)})
  /\ UNCHANGED budget

\* A query throws and did nothing: the read ends the request with an error, the
\* insert of all rows is followed by the fallback, one row is passed by.
Fault(s) ==
  /\ budget.faults < MaxFaults
  /\ \/ import[s].pc = "read" /\ Goto(s, IdleImport)
     \/ import[s].pc = "createAll" /\ Goto(s, [import[s] EXCEPT !.pc = "create"])
     \/ /\ import[s].pc = "create"
        /\ Goto(s, [AfterCreate(s, FALSE) EXCEPT !.failed = @ \cup {import[s].rows[First(s)].mobile}])
  /\ Spend("faults")
  /\ UNCHANGED stored

\* An insert takes effect, and its answer is lost: the code sees it throw.
LoseAnswer(s) ==
  /\ budget.lost < MaxLost
  /\ \/ /\ import[s].pc = "createAll"
        /\ Goto(s, [import[s] EXCEPT !.pc = "create", !.added = Cardinality(import[s].todo)])
        /\ stored' = With(s, import[s].todo)
     \/ /\ import[s].pc = "create"
        /\ Goto(s, [AfterCreate(s, FALSE) EXCEPT !.added = @ + 1])
        /\ stored' = With(s, {First(s)})
  /\ Spend("lost")

Answer(s) ==
  /\ import[s].pc = "answer"
  /\ Goto(s, IdleImport)
  /\ UNCHANGED <<stored, budget>>

\* The process dies and comes back: the imports under way are lost.
Crash ==
  /\ budget.crashes < MaxCrashes
  /\ import' = [s \in Slots |-> IdleImport]
  /\ Spend("crashes")
  /\ UNCHANGED stored

\* Some customers are there, each number once.
Init ==
  /\ stored \in [Mobiles -> {0, 1}]
  /\ import = [s \in Slots |-> IdleImport]
  /\ budget = [imports |-> 0, faults |-> 0, lost |-> 0, crashes |-> 0]

Next ==
  \/ \E s \in Slots :
       \/ Upload(s) \/ ReadExisting(s) \/ CreateAll(s) \/ Create(s)
       \/ Fault(s) \/ LoseAnswer(s) \/ Answer(s)
  \/ Crash

Spec == Init /\ [][Next]_vars

-----------------------------------------------------------------------------
(* Properties.                                                             *)

\* Types, and an import is at an insert exactly while it has rows to insert.
TypeOK ==
  /\ stored \in [Mobiles -> Nat]
  /\ import \in [Slots -> [pc : {"idle", "read", "createAll", "create", "answer"},
                           rows : Files \cup {<<>>}, todo : SUBSET (1..MaxRows),
                           inserted : Nat, added : Nat, failed : SUBSET Mobiles]]
  /\ \A s \in Slots : import[s].pc \in {"createAll", "create"} <=> import[s].todo # {}
  /\ budget \in [imports : 0..MaxImports, faults : 0..MaxFaults,
                 lost : 0..MaxLost, crashes : 0..MaxCrashes]

\* A number is stored at most once for every import that may be under way at
\* the same time, plus once for every insert whose answer was lost: imported
\* one file at a time, nobody is stored twice.
StoredOncePerImport == \A m \in Mobiles : stored[m] <= Cardinality(Slots) + budget.lost

\* The answer counts the rows it added to the table: all of them, unless the
\* database took a row and did not say so, and never more.
ReportsWhatItAdded ==
  \A s \in Slots : import[s].pc = "answer" =>
    /\ import[s].inserted <= import[s].added
    /\ budget.lost = 0 => import[s].inserted = import[s].added

\* At the answer every usable row of the file has its number in the table, or
\* its insert threw: classification drops no customer for good.
NobodyLeftOut ==
  \A s \in Slots : import[s].pc = "answer" =>
    \A i \in DOMAIN import[s].rows :
      Usable(import[s].rows[i]) =>
        stored[import[s].rows[i].mobile] > 0 \/ import[s].rows[i].mobile \in import[s].failed
=============================================================================

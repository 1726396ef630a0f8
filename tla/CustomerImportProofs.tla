------------------------ MODULE CustomerImportProofs ------------------------
(***************************************************************************)
(* Theorems about CustomerImport, for every value of its constants.        *)
(***************************************************************************)
EXTENDS CustomerImport, FiniteSetTheorems, WellFoundedInduction, TLAPS

ImportType ==
  [pc : {"idle", "read", "createAll", "create", "answer"}, rows : Files \cup {<<>>},
   todo : SUBSET (1..MaxRows), inserted : Nat, added : Nat, failed : SUBSET Mobiles]

\* An import is at an insert exactly while it has rows to insert.
Shaped(r) == r.pc \in {"createAll", "create"} <=> r.todo # {}

\* The rows to insert are usable rows of the file, each with a number of its own.
Sound(r) ==
  /\ \A i \in r.todo : i \in DOMAIN r.rows /\ Usable(r.rows[i])
  /\ \A i, j \in r.todo : r.rows[i].mobile = r.rows[j].mobile => i = j

TypeInv == TypeOK /\ \A s \in Slots : Sound(import[s])

\* The imports that are about to insert a number.
Waiting(m) == {s \in Slots : \E i \in import[s].todo : import[s].rows[i].mobile = m}

\* What is stored and what is about to be stored.
Bounded == \A m \in Mobiles : stored[m] + Cardinality(Waiting(m)) <= Cardinality(Slots) + budget.lost

\* Every usable row of a classified file is stored in the table, or failed, or
\* still to come.
Placed(r, table) ==
  r.pc \in {"createAll", "create", "answer"} =>
    \A i \in DOMAIN r.rows : Usable(r.rows[i]) =>
      \/ table[r.rows[i].mobile] > 0
      \/ r.rows[i].mobile \in r.failed
      \/ \E j \in r.todo : r.rows[j].mobile = r.rows[i].mobile

PlacedInv == \A s \in Slots : Placed(import[s], stored)

\* A set of numbers that is not empty has a least one.
LEMMA Least ==
  ASSUME NEW S \in SUBSET Nat, S # {}
  PROVE  \E x \in S : \A y \in S : x <= y
  <1>. DEFINE R == {ss \in Nat \X Nat : ss[1] < ss[2]}
  <1>1. IsWellFoundedOn(R, Nat)  BY NatLessThanWellFounded DEF OpToRel
  <1>2. PICK x \in S : \A y \in S : ~(<<y, x>> \in R)
    <2>. HIDE DEF R
    <2>. QED  BY <1>1, WFMin
  <1>3. ASSUME NEW y \in S PROVE x <= y
    <2>1. <<y, x>> \in Nat \X Nat  OBVIOUS
    <2>2. ~(<<y, x>>[1] < <<y, x>>[2])  BY <1>2, <2>1
    <2>. QED  BY <2>2
  <1>. QED  BY <1>3

\* The rows of a file are numbered from one.
LEMMA FileDomain ==
  ASSUME NEW rows \in Files \cup {<<>>}
  PROVE  DOMAIN rows \subseteq 1..MaxRows /\ \A i \in DOMAIN rows : rows[i] \in Row
  <1>1. CASE rows = <<>>  BY <1>1
  <1>2. CASE rows \in Files
    <2>1. PICK n \in 1..MaxRows : rows \in [1..n -> Row]  BY <1>2 DEF Files
    <2>. QED  BY <2>1, RowsAssumption
  <1>. QED  BY <1>1, <1>2

\* Classification finds sound rows, none of them for a number that exists, and
\* for every usable row whose number does not exist it finds one.
LEMMA Classified ==
  ASSUME NEW rows \in Files \cup {<<>>}, NEW exists
  PROVE  /\ Valid(rows, exists) \subseteq DOMAIN rows
         /\ \A i \in Valid(rows, exists) : Usable(rows[i]) /\ rows[i].mobile \notin exists
         /\ \A i, j \in Valid(rows, exists) : rows[i].mobile = rows[j].mobile => i = j
         /\ \A i \in DOMAIN rows : Usable(rows[i]) =>
              \/ rows[i].mobile \in exists
              \/ \E j \in Valid(rows, exists) : rows[j].mobile = rows[i].mobile
  <1>d. DOMAIN rows \subseteq 1..MaxRows  BY FileDomain
  <1>1. /\ Valid(rows, exists) \subseteq DOMAIN rows
        /\ \A i \in Valid(rows, exists) : Usable(rows[i]) /\ rows[i].mobile \notin exists
    BY DEF Valid
  <1>2. ASSUME NEW i \in Valid(rows, exists), NEW j \in Valid(rows, exists),
               rows[i].mobile = rows[j].mobile, i < j
        PROVE  FALSE
    <2>1. i \in 1..(j - 1) /\ Usable(rows[i])  BY <1>d, <1>1, <1>2, RowsAssumption
    <2>. QED  BY <1>2, <2>1 DEF Valid
  <1>3. ASSUME NEW i \in DOMAIN rows, Usable(rows[i]), rows[i].mobile \notin exists
        PROVE  \E j \in Valid(rows, exists) : rows[j].mobile = rows[i].mobile
    <2>. DEFINE Same == {j \in DOMAIN rows : Usable(rows[j]) /\ rows[j].mobile = rows[i].mobile}
    <2>1. Same \in SUBSET Nat /\ i \in Same  BY <1>d, <1>3, RowsAssumption
    <2>2. PICK j \in Same : \A k \in Same : j <= k
      <3>. HIDE DEF Same
      <3>. QED  BY <2>1, Least
    <2>3. ASSUME NEW k \in 1..(j - 1), Usable(rows[k]), rows[k].mobile = rows[j].mobile
          PROVE  FALSE
      <3>1. k \in DOMAIN rows
        <4>1. CASE rows = <<>>  BY <4>1, <2>2
        <4>2. CASE rows \in Files
          <5>1. PICK n \in 1..MaxRows : rows \in [1..n -> Row]  BY <4>2 DEF Files
          <5>. QED  BY <2>2, <5>1, RowsAssumption
        <4>. QED  BY <4>1, <4>2
      <3>2. k \in Same /\ k < j  BY <2>1, <2>2, <2>3, <3>1
      <3>. QED  BY <2>1, <2>2, <3>2
    <2>4. j \in Valid(rows, exists)  BY <1>3, <2>2, <2>3 DEF Valid
    <2>. QED  BY <2>2, <2>4
  <1>4. \A i, j \in Valid(rows, exists) : i \in Nat /\ j \in Nat  BY <1>d, <1>1, RowsAssumption
  <1>5. \A i, j \in Valid(rows, exists) : rows[i].mobile = rows[j].mobile => i = j
    BY <1>2, <1>4
  <1>. QED  BY <1>1, <1>3, <1>5

\* The row that the fallback inserts next is one of those it has to insert.
LEMMA FirstType ==
  ASSUME TypeInv, NEW s \in Slots, import[s].todo # {}
  PROVE  First(s) \in import[s].todo
  <1>1. import[s].todo \in SUBSET Nat  BY RowsAssumption DEF TypeInv, TypeOK
  <1>. QED  BY <1>1, Least DEF First

\* An import has finitely many rows to insert, and their numbers are numbers.
LEMMA TodoType ==
  ASSUME TypeInv, NEW s \in Slots
  PROVE  /\ IsFiniteSet(import[s].todo)
         /\ Cardinality(import[s].todo) \in Nat
         /\ \A i \in import[s].todo : import[s].rows[i].mobile \in Mobiles
  <1>1. import[s] \in ImportType /\ Sound(import[s])  BY DEF TypeInv, TypeOK, ImportType
  <1>2. IsFiniteSet(1..MaxRows)  BY FS_Interval, RowsAssumption
  <1>3. IsFiniteSet(import[s].todo)  BY <1>1, <1>2, FS_Subset DEF ImportType
  <1>4. \A i \in DOMAIN import[s].rows : import[s].rows[i] \in Row
    BY <1>1, FileDomain DEF ImportType
  <1>. QED  BY <1>1, <1>3, <1>4, FS_CardinalityType DEF Sound, Usable, Row

\* Inserting rows adds one to each of their numbers.
LEMMA WithType ==
  ASSUME TypeInv, NEW s \in Slots, NEW indices \in SUBSET import[s].todo
  PROVE  /\ With(s, indices) \in [Mobiles -> Nat]
         /\ \A m \in Mobiles :
              With(s, indices)[m] =
                stored[m] + IF \E i \in indices : import[s].rows[i].mobile = m THEN 1 ELSE 0
  <1>1. ASSUME NEW m \in Mobiles
        PROVE  Cardinality({i \in indices : import[s].rows[i].mobile = m})
                 = IF \E i \in indices : import[s].rows[i].mobile = m THEN 1 ELSE 0
    <2>. DEFINE Same == {i \in indices : import[s].rows[i].mobile = m}
    <2>1. CASE \E i \in indices : import[s].rows[i].mobile = m
      <3>1. PICK i \in indices : import[s].rows[i].mobile = m  BY <2>1
      <3>2. Same = {i}  BY <3>1 DEF TypeInv, Sound
      <3>. QED  BY <2>1, <3>2, FS_Singleton
    <2>2. CASE ~\E i \in indices : import[s].rows[i].mobile = m
      <3>1. Same = {}  BY <2>2
      <3>. QED  BY <2>2, <3>1, FS_EmptySet
    <2>. QED  BY <2>1, <2>2
  <1>2. stored \in [Mobiles -> Nat]  BY DEF TypeInv, TypeOK
  <1>. QED  BY <1>1, <1>2 DEF With

\* Replacing one import by a sound one keeps all of them sound.
LEMMA ImportUpdate ==
  ASSUME TypeInv, NEW s \in Slots, NEW r \in ImportType, Goto(s, r), Shaped(r), Sound(r)
  PROVE  /\ import' \in [Slots -> ImportType]
         /\ \A t \in Slots : Shaped(import'[t]) /\ Sound(import'[t])
  BY DEF TypeInv, TypeOK, ImportType, Goto, Shaped

BudgetType ==
  [imports : 0..MaxImports, faults : 0..MaxFaults, lost : 0..MaxLost, crashes : 0..MaxCrashes]

LEMMA SpendType ==
  ASSUME TypeInv
  PROVE  /\ budget.imports < MaxImports /\ Spend("imports") => budget' \in BudgetType /\ budget'.lost = budget.lost
         /\ budget.faults < MaxFaults /\ Spend("faults") => budget' \in BudgetType /\ budget'.lost = budget.lost
         /\ budget.lost < MaxLost /\ Spend("lost") => budget' \in BudgetType /\ budget'.lost = budget.lost + 1
         /\ budget.crashes < MaxCrashes /\ Spend("crashes") => budget' \in BudgetType /\ budget'.lost = budget.lost
  <1>1. budget \in BudgetType  BY DEF TypeInv, TypeOK, BudgetType
  <1>. QED  BY <1>1, BudgetAssumption DEF BudgetType, Spend

\* A behaviour starts well typed.
LEMMA IdleType == IdleImport \in ImportType /\ Shaped(IdleImport) /\ Sound(IdleImport)
  BY DEF IdleImport, ImportType, Shaped, Sound

LEMMA TypeInit == Init => TypeInv
  <1>. SUFFICES ASSUME Init PROVE TypeInv  OBVIOUS
  <1>1. import \in [Slots -> ImportType] /\ \A s \in Slots : Shaped(import[s]) /\ Sound(import[s])
    BY IdleType DEF Init
  <1>2. stored \in [Mobiles -> Nat]  BY DEF Init
  <1>3. budget \in BudgetType  BY BudgetAssumption DEF Init, BudgetType
  <1>. QED  BY <1>1, <1>2, <1>3 DEF TypeInv, TypeOK, ImportType, Shaped, BudgetType

\* What a step of an import does to it, and to the table.
LEMMA StepEffect ==
  ASSUME TypeInv, NEW s \in Slots,
         Upload(s) \/ ReadExisting(s) \/ CreateAll(s) \/ Create(s) \/ Fault(s) \/ LoseAnswer(s) \/ Answer(s)
  PROVE  \E r \in ImportType :
           /\ Goto(s, r) /\ Shaped(r) /\ Sound(r)
           /\ \/ ReadExisting(s)
              \/ r.todo \subseteq import[s].todo /\ (r.rows = import[s].rows \/ r.todo = {})
           /\ \/ stored' = stored
              \/ \E indices \in SUBSET import[s].todo :
                   /\ stored' = With(s, indices)
                   /\ budget'.lost = budget.lost + 1 \/ r.todo \cap indices = {}
           /\ budget' \in BudgetType
           /\ budget'.lost = budget.lost \/ budget'.lost = budget.lost + 1
  <1>t. /\ import[s] \in ImportType /\ Shaped(import[s]) /\ Sound(import[s])
        /\ budget \in BudgetType
    BY DEF TypeInv, TypeOK, ImportType, Shaped, BudgetType
  <1>1. CASE Upload(s)
    <2>1. PICK rows \in Files : Goto(s, [IdleImport EXCEPT !.pc = "read", !.rows = rows])
      BY <1>1 DEF Upload
    <2>. DEFINE r == [IdleImport EXCEPT !.pc = "read", !.rows = rows]
    <2>2. r \in ImportType /\ Shaped(r) /\ Sound(r) /\ r.todo = {}
      BY DEF IdleImport, ImportType, Shaped, Sound
    <2>3. stored' = stored /\ budget' \in BudgetType /\ budget'.lost = budget.lost
      BY <1>1, SpendType DEF Upload
    <2>. HIDE DEF r
    <2>. QED  BY <2>1, <2>2, <2>3 DEF r
  <1>2. CASE ReadExisting(s)
    <2>. DEFINE todo == Valid(import[s].rows, {m \in Mobiles : stored[m] > 0})
                r == [import[s] EXCEPT !.todo = todo, !.pc = IF todo = {} THEN "answer" ELSE "createAll"]
    <2>1. todo \subseteq DOMAIN import[s].rows /\ DOMAIN import[s].rows \subseteq 1..MaxRows
      BY <1>t, Classified, FileDomain DEF ImportType
    <2>2. /\ \A i \in todo : Usable(import[s].rows[i])
          /\ \A i, j \in todo : import[s].rows[i].mobile = import[s].rows[j].mobile => i = j
      BY <1>t, Classified DEF ImportType
    <2>. HIDE DEF todo
    <2>3. r \in ImportType /\ Shaped(r)  BY <1>t, <2>1 DEF ImportType, Shaped
    <2>4. Sound(r)  BY <1>t, <2>1, <2>2 DEF Sound, ImportType
    <2>5. Goto(s, r) /\ stored' = stored /\ budget' = budget  BY <1>2 DEF ReadExisting, todo
    <2>. QED  BY <1>2, <1>t, <2>3, <2>4, <2>5
  <1>3. CASE CreateAll(s)
    <2>. DEFINE n == Cardinality(import[s].todo)
                r == [import[s] EXCEPT !.pc = "answer", !.todo = {}, !.inserted = n, !.added = n]
    <2>1. n \in Nat  BY TodoType
    <2>. HIDE DEF n
    <2>2. r \in ImportType /\ Shaped(r) /\ Sound(r) /\ r.todo = {}
      BY <1>t, <2>1 DEF ImportType, Shaped, Sound
    <2>3. Goto(s, r) /\ stored' = With(s, import[s].todo) /\ budget' = budget  BY <1>3 DEF CreateAll, n
    <2>. QED  BY <1>t, <2>2, <2>3
  <1>c. ASSUME NEW counted \in BOOLEAN, import[s].pc = "create"
        PROVE  LET q == AfterCreate(s, counted)
               IN  /\ q \in ImportType /\ Shaped(q) /\ Sound(q)
                   /\ q.todo = import[s].todo \ {First(s)} /\ q.rows = import[s].rows
    <2>. DEFINE todo == import[s].todo \ {First(s)}
                n == IF counted THEN import[s].inserted + 1 ELSE import[s].inserted
                q == [import[s] EXCEPT !.todo = todo,
                                       !.pc = IF todo = {} THEN "answer" ELSE "create",
                                       !.inserted = n]
    <2>1. AfterCreate(s, counted) = q  BY <1>t DEF AfterCreate, ImportType
    <2>2. n \in Nat /\ todo \subseteq import[s].todo  BY <1>t DEF ImportType
    <2>. HIDE DEF todo, n
    <2>3. q \in ImportType /\ Shaped(q) /\ q.todo = todo /\ q.rows = import[s].rows
      BY <1>t, <2>2 DEF ImportType, Shaped
    <2>4. Sound(q)  BY <1>t, <2>2, <2>3 DEF Sound
    <2>. QED  BY <2>1, <2>3, <2>4 DEF todo
  <1>f. ASSUME import[s].pc \in {"create", "createAll"}
        PROVE  First(s) \in import[s].todo /\ import[s].rows[First(s)].mobile \in Mobiles
    BY <1>t, <1>f, FirstType, TodoType DEF Shaped
  <1>. HIDE DEF AfterCreate, First
  <1>4. CASE Create(s)
    <2>. DEFINE q == AfterCreate(s, TRUE)
                r == [q EXCEPT !.added = @ + 1]
    <2>1. /\ q \in ImportType /\ Shaped(q) /\ Sound(q)
          /\ q.todo = import[s].todo \ {First(s)} /\ q.rows = import[s].rows
      BY <1>4, <1>c DEF Create
    <2>. HIDE DEF q
    <2>2. r \in ImportType /\ Shaped(r) /\ Sound(r) /\ r.todo = q.todo /\ r.rows = q.rows
      BY <2>1 DEF ImportType, Shaped, Sound
    <2>3. Goto(s, r) /\ stored' = With(s, {First(s)}) /\ budget' = budget  BY <1>4 DEF Create, q
    <2>4. {First(s)} \in SUBSET import[s].todo  BY <1>4, <1>f DEF Create
    <2>5. r.todo \cap {First(s)} = {}  BY <2>1, <2>2
    <2>. QED  BY <1>t, <2>1, <2>2, <2>3, <2>4, <2>5
  <1>5. CASE Fault(s)
    <2>0. stored' = stored /\ budget' \in BudgetType /\ budget'.lost = budget.lost
      BY <1>5, SpendType DEF Fault
    <2>1. CASE import[s].pc = "read" /\ Goto(s, IdleImport)
      <3>1. IdleImport.todo = {}  BY DEF IdleImport
      <3>. QED  BY <2>0, <2>1, <3>1, IdleType
    <2>2. CASE import[s].pc = "createAll" /\ Goto(s, [import[s] EXCEPT !.pc = "create"])
      <3>. DEFINE r == [import[s] EXCEPT !.pc = "create"]
      <3>1. /\ r \in ImportType /\ Shaped(r) /\ Sound(r)
            /\ r.todo = import[s].todo /\ r.rows = import[s].rows
        BY <1>t, <2>2 DEF ImportType, Shaped, Sound
      <3>. HIDE DEF r
      <3>. QED  BY <2>0, <2>2, <3>1 DEF r
    <2>3. CASE /\ import[s].pc = "create"
               /\ Goto(s, [AfterCreate(s, FALSE) EXCEPT !.failed = @ \cup {import[s].rows[First(s)].mobile}])
      <3>. DEFINE q == AfterCreate(s, FALSE)
                  m == import[s].rows[First(s)].mobile
                  r == [q EXCEPT !.failed = @ \cup {m}]
      <3>1. /\ q \in ImportType /\ Shaped(q) /\ Sound(q)
            /\ q.todo = import[s].todo \ {First(s)} /\ q.rows = import[s].rows
        BY <2>3, <1>c
      <3>2. m \in Mobiles  BY <2>3, <1>f
      <3>3. Goto(s, r)  BY <2>3
      <3>. HIDE DEF q, m
      <3>4. r \in ImportType /\ Shaped(r) /\ Sound(r) /\ r.todo = q.todo /\ r.rows = q.rows
        BY <3>1, <3>2 DEF ImportType, Shaped, Sound
      <3>. QED  BY <2>0, <3>1, <3>3, <3>4
    <2>. QED  BY <1>5, <2>1, <2>2, <2>3 DEF Fault
  <1>6. CASE LoseAnswer(s)
    <2>0. budget' \in BudgetType /\ budget'.lost = budget.lost + 1
      BY <1>6, SpendType DEF LoseAnswer
    <2>1. CASE /\ import[s].pc = "createAll"
               /\ Goto(s, [import[s] EXCEPT !.pc = "create", !.added = Cardinality(import[s].todo)])
               /\ stored' = With(s, import[s].todo)
      <3>. DEFINE n == Cardinality(import[s].todo)
                  r == [import[s] EXCEPT !.pc = "create", !.added = n]
      <3>1. n \in Nat  BY TodoType
      <3>2. Goto(s, r)  BY <2>1
      <3>. HIDE DEF n
      <3>3. /\ r \in ImportType /\ Shaped(r) /\ Sound(r)
            /\ r.todo = import[s].todo /\ r.rows = import[s].rows
        BY <1>t, <2>1, <3>1 DEF ImportType, Shaped, Sound
      <3>. QED  BY <2>0, <2>1, <3>2, <3>3
    <2>2. CASE /\ import[s].pc = "create"
               /\ Goto(s, [AfterCreate(s, FALSE) EXCEPT !.added = @ + 1])
               /\ stored' = With(s, {First(s)})
      <3>. DEFINE q == AfterCreate(s, FALSE)
                  r == [q EXCEPT !.added = @ + 1]
      <3>1. /\ q \in ImportType /\ Shaped(q) /\ Sound(q)
            /\ q.todo = import[s].todo \ {First(s)} /\ q.rows = import[s].rows
        BY <2>2, <1>c
      <3>2. Goto(s, r)  BY <2>2
      <3>. HIDE DEF q
      <3>3. r \in ImportType /\ Shaped(r) /\ Sound(r) /\ r.todo = q.todo /\ r.rows = q.rows
        BY <3>1 DEF ImportType, Shaped, Sound
      <3>4. {First(s)} \in SUBSET import[s].todo  BY <2>2, <1>f
      <3>. QED  BY <2>0, <2>2, <3>1, <3>2, <3>3, <3>4
    <2>. QED  BY <1>6, <2>1, <2>2 DEF LoseAnswer
  <1>7. CASE Answer(s)
    <2>1. IdleImport.todo = {}  BY DEF IdleImport
    <2>. QED  BY <1>7, <1>t, <2>1, IdleType DEF Answer
  <1>. QED  BY <1>1, <1>2, <1>3, <1>4, <1>5, <1>6, <1>7

SlotStep(s) ==
  Upload(s) \/ ReadExisting(s) \/ CreateAll(s) \/ Create(s) \/ Fault(s) \/ LoseAnswer(s) \/ Answer(s)

LEMMA StepKinds ==
  ASSUME [Next]_vars
  PROVE  (\E s \in Slots : SlotStep(s)) \/ Crash \/ UNCHANGED vars
  BY DEF Next, SlotStep

\* The table only grows.
LEMMA StoredGrows ==
  ASSUME TypeInv, [Next]_vars
  PROVE  stored' \in [Mobiles -> Nat] /\ \A m \in Mobiles : stored'[m] >= stored[m]
  <1>t. stored \in [Mobiles -> Nat]  BY DEF TypeInv, TypeOK
  <1>1. ASSUME NEW s \in Slots, SlotStep(s)
        PROVE  stored' = stored \/ \E indices \in SUBSET import[s].todo : stored' = With(s, indices)
    BY <1>1, StepEffect DEF SlotStep
  <1>2. ASSUME NEW s \in Slots, NEW indices \in SUBSET import[s].todo, stored' = With(s, indices)
        PROVE  stored' \in [Mobiles -> Nat] /\ \A m \in Mobiles : stored'[m] >= stored[m]
    BY <1>t, <1>2, WithType
  <1>3. CASE stored' = stored  BY <1>t, <1>3
  <1>. QED  BY <1>1, <1>2, <1>3, StepKinds DEF Crash, vars

\* Every step keeps the types.
LEMMA TypeStep == TypeInv /\ [Next]_vars => TypeInv'
  <1>. SUFFICES ASSUME TypeInv, [Next]_vars PROVE TypeInv'  OBVIOUS
  <1>0. stored' \in [Mobiles -> Nat]  BY StoredGrows
  <1>1. ASSUME NEW s \in Slots, SlotStep(s) PROVE TypeInv'
    <2>1. PICK r \in ImportType : Goto(s, r) /\ Shaped(r) /\ Sound(r) /\ budget' \in BudgetType
      BY <1>1, StepEffect DEF SlotStep
    <2>2. import' \in [Slots -> ImportType] /\ \A t \in Slots : Shaped(import'[t]) /\ Sound(import'[t])
      BY <2>1, ImportUpdate
    <2>. QED  BY <1>0, <2>1, <2>2 DEF TypeInv, TypeOK, ImportType, BudgetType, Shaped
  <1>2. CASE Crash
    <2>1. import' \in [Slots -> ImportType] /\ \A t \in Slots : Shaped(import'[t]) /\ Sound(import'[t])
      BY <1>2, IdleType DEF Crash
    <2>2. budget' \in BudgetType  BY <1>2, SpendType DEF Crash
    <2>. QED  BY <1>0, <2>1, <2>2 DEF TypeInv, TypeOK, ImportType, BudgetType, Shaped
  <1>3. CASE UNCHANGED vars
    BY <1>3 DEF vars, TypeInv, TypeOK, Sound
  <1>. QED  BY <1>1, <1>2, <1>3, StepKinds

-----------------------------------------------------------------------------
(* How often a number is stored.                                           *)

\* The imports about to insert a number are finitely many.
LEMMA WaitingFinite ==
  ASSUME NEW T, T \subseteq Slots
  PROVE  IsFiniteSet(T) /\ Cardinality(T) \in Nat /\ Cardinality(T) <= Cardinality(Slots)
  BY SlotsAssumption, FS_Subset, FS_CardinalityType

\* A step of an import keeps the bound.
LEMMA BoundedSlot ==
  ASSUME TypeInv, Bounded, NEW s \in Slots, SlotStep(s), NEW m \in Mobiles
  PROVE  stored'[m] + Cardinality(Waiting(m)') <= Cardinality(Slots) + budget'.lost
  <1>. DEFINE Before == Waiting(m)
              After == Waiting(m)'
              rows0 == stored[m]
              rows1 == stored'[m]
              lost0 == budget.lost
              lost1 == budget'.lost
              N == Cardinality(Slots)
              K == Cardinality(Before)
              L == Cardinality(After)
  <1>. SUFFICES rows1 + L <= N + lost1  OBVIOUS
  <1>t. stored \in [Mobiles -> Nat] /\ import \in [Slots -> ImportType] /\ budget.lost \in Nat
    BY BudgetAssumption DEF TypeInv, TypeOK, ImportType
  <1>n. rows0 \in Nat /\ lost0 \in Nat  BY <1>t
  <1>b. rows0 + K <= N + lost0  BY DEF Bounded
  <1>s. Before \subseteq Slots /\ After \subseteq Slots  BY DEF Waiting
  <1>f. /\ IsFiniteSet(Before) /\ IsFiniteSet(After)
        /\ K \in Nat /\ L \in Nat /\ N \in Nat /\ L <= N
    BY <1>s, WaitingFinite
  <1>1. PICK r \in ImportType :
          /\ Goto(s, r) /\ Sound(r)
          /\ \/ ReadExisting(s)
             \/ r.todo \subseteq import[s].todo /\ (r.rows = import[s].rows \/ r.todo = {})
          /\ \/ stored' = stored
             \/ \E indices \in SUBSET import[s].todo :
                  /\ stored' = With(s, indices)
                  /\ budget'.lost = budget.lost + 1 \/ r.todo \cap indices = {}
          /\ budget'.lost = budget.lost \/ budget'.lost = budget.lost + 1
    BY StepEffect DEF SlotStep
  <1>2. /\ After = {t \in Slots : \E i \in import'[t].todo : import'[t].rows[i].mobile = m}
        /\ Before = {t \in Slots : \E i \in import[t].todo : import[t].rows[i].mobile = m}
        /\ import' = [import EXCEPT ![s] = r]
    BY <1>1 DEF Waiting, Goto
  <1>3. /\ After \ {s} = Before \ {s}
        /\ s \in After <=> \E i \in r.todo : r.rows[i].mobile = m
        /\ s \in Before <=> \E i \in import[s].todo : import[s].rows[i].mobile = m
    <2>. HIDE DEF Before, After
    <2>. QED  BY <1>t, <1>2
  <1>l. lost1 = lost0 \/ lost1 = lost0 + 1  BY <1>1
  <1>i. ASSUME After \subseteq Before PROVE L <= K
    <2>. HIDE DEF Before, After
    <2>. QED  BY <1>f, <1>i, FS_Subset
  <1>r. ASSUME s \in Before, s \notin After, After \subseteq Before PROVE L <= K - 1
    <2>. HIDE DEF Before, After
    <2>1. After \subseteq Before \ {s}  BY <1>r
    <2>2. IsFiniteSet(Before \ {s}) /\ Cardinality(Before \ {s}) = K - 1
      BY <1>f, <1>r, FS_RemoveElement
    <2>. QED  BY <2>1, <2>2, FS_Subset
  <1>. HIDE DEF Before, After
  <1>4. CASE ReadExisting(s)
    <2>1. rows1 = rows0 /\ lost1 = lost0  BY <1>4 DEF ReadExisting
    <2>2. CASE rows0 = 0
      <3>. HIDE DEF rows0, rows1, lost0, lost1, N, K, L
      <3>. QED  BY <1>n, <1>f, <2>1, <2>2
    <2>3. CASE rows0 > 0
      <3>. DEFINE exists == {k \in Mobiles : stored[k] > 0}
                  todo == Valid(import[s].rows, exists)
                  r2 == [import[s] EXCEPT !.todo = todo, !.pc = IF todo = {} THEN "answer" ELSE "createAll"]
      <3>1. import' = [import EXCEPT ![s] = r2]  BY <1>4 DEF ReadExisting, Goto
      <3>2. import[s] \in ImportType /\ m \in exists  BY <1>t, <2>3
      <3>. HIDE DEF todo, exists
      <3>3. r = r2  BY <1>2, <1>t, <3>1
      <3>4. r.todo = todo /\ r.rows = import[s].rows  BY <3>2, <3>3 DEF ImportType
      <3>5. \A i \in todo : import[s].rows[i].mobile # m
        BY <3>2, Classified DEF ImportType, todo
      <3>6. After \subseteq Before  BY <1>3, <3>4, <3>5
      <3>7. L <= K  BY <1>i, <3>6
      <3>. HIDE DEF rows0, rows1, lost0, lost1, N, K, L
      <3>. QED  BY <1>n, <1>f, <1>b, <2>1, <3>7
    <2>. HIDE DEF rows0
    <2>. QED  BY <1>n, <2>2, <2>3
  <1>5. CASE r.todo \subseteq import[s].todo /\ (r.rows = import[s].rows \/ r.todo = {})
    <2>1. After \subseteq Before  BY <1>3, <1>5
    <2>2. L <= K  BY <1>i, <2>1
    <2>3. CASE rows1 = rows0 \/ (rows1 = rows0 + 1 /\ lost1 = lost0 + 1)
      <3>. HIDE DEF rows0, rows1, lost0, lost1, N, K, L
      <3>. QED  BY <1>n, <1>f, <1>b, <1>l, <2>2, <2>3
    <2>4. ASSUME NEW indices \in SUBSET import[s].todo, stored' = With(s, indices),
                 budget'.lost = budget.lost + 1 \/ r.todo \cap indices = {}
          PROVE  rows1 + L <= N + lost1
      <3>1. CASE ~\E i \in indices : import[s].rows[i].mobile = m
        <4>1. rows1 = rows0  BY <1>t, <2>4, <3>1, WithType
        <4>. QED  BY <2>3, <4>1
      <3>2. CASE \E i \in indices : import[s].rows[i].mobile = m
        <4>1. rows1 = rows0 + 1  BY <1>t, <2>4, <3>2, WithType
        <4>2. CASE budget'.lost = budget.lost + 1  BY <2>3, <4>1, <4>2
        <4>3. CASE r.todo \cap indices = {}
          <5>1. PICK i \in indices : import[s].rows[i].mobile = m  BY <3>2
          <5>2. Sound(import[s])  BY DEF TypeInv
          <5>3. s \in Before  BY <1>3, <2>4, <5>1
          <5>4. s \notin After  BY <1>3, <1>5, <2>4, <4>3, <5>1, <5>2 DEF Sound
          <5>5. L <= K - 1  BY <1>r, <2>1, <5>3, <5>4
          <5>. HIDE DEF rows0, rows1, lost0, lost1, N, K, L
          <5>. QED  BY <1>n, <1>f, <1>b, <1>l, <4>1, <5>5
        <4>. QED  BY <2>4, <4>2, <4>3
      <3>. QED  BY <3>1, <3>2
    <2>5. CASE stored' = stored  BY <2>3, <2>5
    <2>. HIDE DEF rows1, lost1, N, L
    <2>. QED  BY <1>1, <2>4, <2>5
  <1>. HIDE DEF rows1, lost1, N, L
  <1>. QED  BY <1>1, <1>4, <1>5

\* Every step keeps the bound; a crash leaves nobody waiting.
LEMMA BoundedStep == TypeInv /\ Bounded /\ [Next]_vars => Bounded'
  <1>. SUFFICES ASSUME TypeInv, Bounded, [Next]_vars PROVE Bounded'  OBVIOUS
  <1>1. ASSUME NEW s \in Slots, SlotStep(s) PROVE Bounded'
    BY <1>1, BoundedSlot DEF Bounded
  <1>2. CASE Crash
    <2>. SUFFICES ASSUME NEW m \in Mobiles
                  PROVE  stored'[m] + Cardinality(Waiting(m)') <= Cardinality(Slots) + budget'.lost
      BY DEF Bounded
    <2>1. Waiting(m)' = {}  BY <1>2 DEF Crash, Waiting, IdleImport
    <2>2. stored' = stored /\ budget'.lost = budget.lost  BY <1>2, SpendType DEF Crash
    <2>3. Waiting(m) \subseteq Slots  BY DEF Waiting
    <2>4. /\ Cardinality(Waiting(m)) \in Nat /\ Cardinality(Slots) \in Nat
          /\ stored[m] \in Nat /\ budget.lost \in Nat
      BY <2>3, WaitingFinite, BudgetAssumption DEF TypeInv, TypeOK
    <2>5. stored[m] + Cardinality(Waiting(m)) <= Cardinality(Slots) + budget.lost  BY DEF Bounded
    <2>6. Cardinality(Waiting(m)') = 0  BY <2>1, FS_EmptySet
    <2>. QED  BY <2>2, <2>4, <2>5, <2>6
  <1>3. CASE UNCHANGED vars  BY <1>3 DEF vars, Bounded, Waiting
  <1>. QED  BY <1>1, <1>2, <1>3, StepKinds

\* A behaviour starts with nobody waiting and each number stored at most once.
LEMMA BoundedInit == Init => Bounded
  <1>. SUFFICES ASSUME Init, NEW m \in Mobiles
                PROVE  stored[m] + Cardinality(Waiting(m)) <= Cardinality(Slots) + budget.lost
    BY DEF Bounded
  <1>1. Waiting(m) = {}  BY DEF Init, Waiting, IdleImport
  <1>2. Cardinality(Waiting(m)) = 0  BY <1>1, FS_EmptySet
  <1>3. Cardinality(Slots) \in Nat /\ Cardinality(Slots) # 0
    BY SlotsAssumption, FS_EmptySet, FS_CardinalityType
  <1>4. stored[m] \in {0, 1} /\ budget.lost = 0  BY DEF Init
  <1>. QED  BY <1>2, <1>3, <1>4

-----------------------------------------------------------------------------
(* Whom classification leaves out.                                         *)

\* What is placed stays placed when rows that were to come are stored or fail.
LEMMA PlacedStays ==
  ASSUME TypeInv, PlacedInv, [Next]_vars, NEW s \in Slots, NEW r,
         r.rows = import[s].rows, import[s].failed \subseteq r.failed,
         r.pc \in {"createAll", "create", "answer"} =>
           import[s].pc \in {"createAll", "create", "answer"},
         \A j \in import[s].todo \ r.todo :
           \/ stored'[import[s].rows[j].mobile] > 0
           \/ import[s].rows[j].mobile \in r.failed
  PROVE  Placed(r, stored')
  <1>1. import[s].rows \in Files \cup {<<>>}  BY DEF TypeInv, TypeOK
  <1>2. \A i \in DOMAIN import[s].rows : Usable(import[s].rows[i]) => import[s].rows[i].mobile \in Mobiles
    BY <1>1, FileDomain DEF Usable, Row
  <1>3. \A m \in Mobiles : stored[m] > 0 => stored'[m] > 0
    BY StoredGrows DEF TypeInv, TypeOK
  <1>4. Placed(import[s], stored)  BY DEF PlacedInv
  <1>. SUFFICES ASSUME r.pc \in {"createAll", "create", "answer"},
                       NEW i \in DOMAIN r.rows, Usable(r.rows[i])
                PROVE  \/ stored'[r.rows[i].mobile] > 0
                       \/ r.rows[i].mobile \in r.failed
                       \/ \E j \in r.todo : r.rows[j].mobile = r.rows[i].mobile
    BY DEF Placed
  <1>5. CASE stored[import[s].rows[i].mobile] > 0  BY <1>2, <1>3, <1>5
  <1>6. CASE import[s].rows[i].mobile \in import[s].failed  BY <1>6
  <1>7. CASE \E j \in import[s].todo : import[s].rows[j].mobile = import[s].rows[i].mobile
    <2>1. PICK j \in import[s].todo : import[s].rows[j].mobile = import[s].rows[i].mobile  BY <1>7
    <2>. QED  BY <2>1
  <1>. QED  BY <1>4, <1>5, <1>6, <1>7 DEF Placed

\* The rows that an insert adds are in the table.
LEMMA InsertedStored ==
  ASSUME TypeInv, NEW s \in Slots, NEW indices \in SUBSET import[s].todo, stored' = With(s, indices)
  PROVE  \A j \in indices : stored'[import[s].rows[j].mobile] > 0
  <1>. TAKE j \in indices
  <1>1. import[s].rows[j].mobile \in Mobiles  BY TodoType
  <1>2. stored[import[s].rows[j].mobile] \in Nat  BY <1>1 DEF TypeInv, TypeOK
  <1>3. stored'[import[s].rows[j].mobile] = stored[import[s].rows[j].mobile] + 1
    <2>1. \E i \in indices : import[s].rows[i].mobile = import[s].rows[j].mobile  OBVIOUS
    <2>. QED  BY <1>1, <2>1, WithType
  <1>. QED  BY <1>2, <1>3

\* A step of an import leaves it placed.
LEMMA PlacedSlot ==
  ASSUME TypeInv, PlacedInv, [Next]_vars, NEW s \in Slots, SlotStep(s)
  PROVE  \E r : Goto(s, r) /\ Placed(r, stored')
  <1>t. import[s] \in ImportType /\ Shaped(import[s])  BY DEF TypeInv, TypeOK, ImportType, Shaped
  <1>c. ASSUME NEW counted \in BOOLEAN, import[s].pc = "create"
        PROVE  LET q == AfterCreate(s, counted)
               IN  /\ q \in ImportType /\ q.todo = import[s].todo \ {First(s)}
                   /\ q.rows = import[s].rows /\ q.failed = import[s].failed
    <2>1. First(s) \in import[s].todo  BY <1>t, <1>c, FirstType DEF Shaped
    <2>. DEFINE todo == import[s].todo \ {First(s)}
                n == IF counted THEN import[s].inserted + 1 ELSE import[s].inserted
                q == [import[s] EXCEPT !.todo = todo,
                                       !.pc = IF todo = {} THEN "answer" ELSE "create",
                                       !.inserted = n]
    <2>2. AfterCreate(s, counted) = q  BY <1>t DEF AfterCreate, ImportType
    <2>3. n \in Nat /\ todo \subseteq import[s].todo  BY <1>t DEF ImportType
    <2>. HIDE DEF todo, n
    <2>4. q \in ImportType /\ q.todo = todo /\ q.rows = import[s].rows /\ q.failed = import[s].failed
      BY <1>t, <2>3 DEF ImportType
    <2>. QED  BY <2>2, <2>4 DEF todo
  <1>. HIDE DEF AfterCreate, First
  <1>1. CASE Upload(s)
    <2>1. PICK rows \in Files : Goto(s, [IdleImport EXCEPT !.pc = "read", !.rows = rows])
      BY <1>1 DEF Upload
    <2>2. Placed([IdleImport EXCEPT !.pc = "read", !.rows = rows], stored')  BY DEF Placed, IdleImport
    <2>. QED  BY <2>1, <2>2
  <1>2. CASE ReadExisting(s)
    <2>. DEFINE exists == {m \in Mobiles : stored[m] > 0}
                todo == Valid(import[s].rows, exists)
                r == [import[s] EXCEPT !.todo = todo, !.pc = IF todo = {} THEN "answer" ELSE "createAll"]
    <2>1. Goto(s, r) /\ stored' = stored  BY <1>2 DEF ReadExisting
    <2>2. \A i \in DOMAIN import[s].rows : Usable(import[s].rows[i]) =>
            \/ stored[import[s].rows[i].mobile] > 0
            \/ \E j \in todo : import[s].rows[j].mobile = import[s].rows[i].mobile
      <3>1. import[s].rows \in Files \cup {<<>>}  BY <1>t DEF ImportType
      <3>2. \A k \in exists : stored[k] > 0  OBVIOUS
      <3>. HIDE DEF exists
      <3>. QED  BY <3>1, <3>2, Classified
    <2>. HIDE DEF todo
    <2>3. Placed(r, stored')  BY <1>t, <2>1, <2>2 DEF Placed, ImportType
    <2>. QED  BY <2>1, <2>3
  <1>3. CASE CreateAll(s)
    <2>. DEFINE n == Cardinality(import[s].todo)
                r == [import[s] EXCEPT !.pc = "answer", !.todo = {}, !.inserted = n, !.added = n]
    <2>1. Goto(s, r) /\ stored' = With(s, import[s].todo) /\ import[s].pc = "createAll"
      BY <1>3 DEF CreateAll
    <2>. HIDE DEF n
    <2>2. r.rows = import[s].rows /\ r.failed = import[s].failed  BY <1>t DEF ImportType
    <2>3. Placed(r, stored')  BY <2>1, <2>2, InsertedStored, PlacedStays
    <2>. QED  BY <2>1, <2>3
  <1>4. CASE Create(s)
    <2>. DEFINE q == AfterCreate(s, TRUE)
                r == [q EXCEPT !.added = @ + 1]
    <2>1. /\ q \in ImportType /\ q.todo = import[s].todo \ {First(s)}
          /\ q.rows = import[s].rows /\ q.failed = import[s].failed
      BY <1>4, <1>c DEF Create
    <2>2. Goto(s, r) /\ stored' = With(s, {First(s)}) /\ import[s].pc = "create"  BY <1>4 DEF Create
    <2>. HIDE DEF q
    <2>3. r.todo = q.todo /\ r.rows = q.rows /\ r.failed = q.failed  BY <2>1 DEF ImportType
    <2>4. {First(s)} \in SUBSET import[s].todo  BY <1>t, <2>2, FirstType DEF Shaped
    <2>5. \A j \in {First(s)} : stored'[import[s].rows[j].mobile] > 0  BY <2>2, <2>4, InsertedStored
    <2>6. Placed(r, stored')  BY <2>1, <2>2, <2>3, <2>5, PlacedStays
    <2>. QED  BY <2>2, <2>6 DEF q
  <1>5. CASE Fault(s)
    <2>1. CASE import[s].pc = "read" /\ Goto(s, IdleImport)
      <3>1. Placed(IdleImport, stored')  BY DEF Placed, IdleImport
      <3>. QED  BY <2>1, <3>1
    <2>2. CASE import[s].pc = "createAll" /\ Goto(s, [import[s] EXCEPT !.pc = "create"])
      <3>. DEFINE r == [import[s] EXCEPT !.pc = "create"]
      <3>1. r.todo = import[s].todo /\ r.rows = import[s].rows /\ r.failed = import[s].failed
        BY <1>t DEF ImportType
      <3>2. Placed(r, stored')  BY <2>2, <3>1, PlacedStays
      <3>. QED  BY <2>2, <3>2
    <2>3. CASE /\ import[s].pc = "create"
               /\ Goto(s, [AfterCreate(s, FALSE) EXCEPT !.failed = @ \cup {import[s].rows[First(s)].mobile}])
      <3>. DEFINE q == AfterCreate(s, FALSE)
                  m == import[s].rows[First(s)].mobile
                  r == [q EXCEPT !.failed = @ \cup {m}]
      <3>1. /\ q \in ImportType /\ q.todo = import[s].todo \ {First(s)}
            /\ q.rows = import[s].rows /\ q.failed = import[s].failed
        BY <2>3, <1>c
      <3>2. Goto(s, r)  BY <2>3
      <3>. HIDE DEF q, m
      <3>3. r.todo = q.todo /\ r.rows = q.rows /\ r.failed = q.failed \cup {m}  BY <3>1 DEF ImportType
      <3>4. \A j \in {First(s)} : import[s].rows[j].mobile \in r.failed  BY <3>3 DEF m
      <3>5. Placed(r, stored')  BY <2>3, <3>1, <3>3, <3>4, PlacedStays
      <3>. QED  BY <3>2, <3>5
    <2>. QED  BY <1>5, <2>1, <2>2, <2>3 DEF Fault
  <1>6. CASE LoseAnswer(s)
    <2>1. CASE /\ import[s].pc = "createAll"
               /\ Goto(s, [import[s] EXCEPT !.pc = "create", !.added = Cardinality(import[s].todo)])
               /\ stored' = With(s, import[s].todo)
      <3>. DEFINE n == Cardinality(import[s].todo)
                  r == [import[s] EXCEPT !.pc = "create", !.added = n]
      <3>1. Goto(s, r)  BY <2>1
      <3>. HIDE DEF n
      <3>2. r.todo = import[s].todo /\ r.rows = import[s].rows /\ r.failed = import[s].failed
        BY <1>t DEF ImportType
      <3>3. Placed(r, stored')  BY <2>1, <3>2, PlacedStays
      <3>. QED  BY <3>1, <3>3
    <2>2. CASE /\ import[s].pc = "create"
               /\ Goto(s, [AfterCreate(s, FALSE) EXCEPT !.added = @ + 1])
               /\ stored' = With(s, {First(s)})
      <3>. DEFINE q == AfterCreate(s, FALSE)
                  r == [q EXCEPT !.added = @ + 1]
      <3>1. /\ q \in ImportType /\ q.todo = import[s].todo \ {First(s)}
            /\ q.rows = import[s].rows /\ q.failed = import[s].failed
        BY <2>2, <1>c
      <3>2. Goto(s, r)  BY <2>2
      <3>. HIDE DEF q
      <3>3. r.todo = q.todo /\ r.rows = q.rows /\ r.failed = q.failed  BY <3>1 DEF ImportType
      <3>4. {First(s)} \in SUBSET import[s].todo  BY <1>t, <2>2, FirstType DEF Shaped
      <3>5. \A j \in {First(s)} : stored'[import[s].rows[j].mobile] > 0  BY <2>2, <3>4, InsertedStored
      <3>6. Placed(r, stored')  BY <2>2, <3>1, <3>3, <3>5, PlacedStays
      <3>. QED  BY <3>2, <3>6
    <2>. QED  BY <1>6, <2>1, <2>2 DEF LoseAnswer
  <1>7. CASE Answer(s)
    <2>1. Placed(IdleImport, stored')  BY DEF Placed, IdleImport
    <2>. QED  BY <1>7, <2>1 DEF Answer
  <1>. QED  BY <1>1, <1>2, <1>3, <1>4, <1>5, <1>6, <1>7 DEF SlotStep

\* Every step leaves every import placed.
LEMMA PlacedStep == TypeInv /\ PlacedInv /\ [Next]_vars => PlacedInv'
  <1>. SUFFICES ASSUME TypeInv, PlacedInv, [Next]_vars, NEW t \in Slots
                PROVE  Placed(import'[t], stored')
    BY DEF PlacedInv
  <1>t. import \in [Slots -> ImportType]  BY DEF TypeInv, TypeOK, ImportType
  <1>0. Placed(import[t], stored')  BY PlacedStays
  <1>1. ASSUME NEW s \in Slots, SlotStep(s) PROVE Placed(import'[t], stored')
    <2>1. PICK r : Goto(s, r) /\ Placed(r, stored')  BY <1>1, PlacedSlot
    <2>2. CASE t = s  BY <1>t, <2>1, <2>2 DEF Goto
    <2>3. CASE t # s
      <3>1. import'[t] = import[t]  BY <1>t, <2>1, <2>3 DEF Goto
      <3>. QED  BY <1>0, <3>1
    <2>. QED  BY <2>2, <2>3
  <1>2. CASE Crash  BY <1>2 DEF Crash, Placed, IdleImport
  <1>3. CASE UNCHANGED vars  BY <1>0, <1>3 DEF vars
  <1>. QED  BY <1>1, <1>2, <1>3, StepKinds

LEMMA PlacedInit == Init => PlacedInv
  BY DEF Init, PlacedInv, Placed, IdleImport

-----------------------------------------------------------------------------
(* What the answer counts.                                                 *)

\* Nothing is counted before the inserts; then the rows counted are rows added,
\* and all of them while no answer was lost.
Reported(r, lost) ==
  /\ r.pc \in {"idle", "read", "createAll"} => r.inserted = 0 /\ r.added = 0
  /\ r.inserted <= r.added
  /\ lost = 0 => r.inserted = r.added

ReportedInv == \A s \in Slots : Reported(import[s], budget.lost)

\* The count of lost answers only grows.
LEMMA LostGrows ==
  ASSUME TypeInv, [Next]_vars
  PROVE  budget.lost \in Nat /\ (budget'.lost = budget.lost \/ budget'.lost = budget.lost + 1)
  <1>0. budget.lost \in Nat  BY BudgetAssumption DEF TypeInv, TypeOK
  <1>1. ASSUME NEW s \in Slots, SlotStep(s)
        PROVE  budget'.lost = budget.lost \/ budget'.lost = budget.lost + 1
    BY <1>1, StepEffect DEF SlotStep
  <1>2. CASE Crash  BY <1>0, <1>2, SpendType DEF Crash
  <1>3. CASE UNCHANGED vars  BY <1>0, <1>3 DEF vars
  <1>. QED  BY <1>0, <1>1, <1>2, <1>3, StepKinds

\* A step of an import leaves its counts right.
LEMMA ReportedSlot ==
  ASSUME TypeInv, ReportedInv, [Next]_vars, NEW s \in Slots, SlotStep(s)
  PROVE  \E r : Goto(s, r) /\ Reported(r, budget'.lost)
  <1>t. import[s] \in ImportType /\ budget.lost \in Nat
    BY BudgetAssumption DEF TypeInv, TypeOK, ImportType
  <1>l. budget'.lost = budget.lost \/ budget'.lost = budget.lost + 1  BY LostGrows
  <1>r. Reported(import[s], budget.lost)  BY DEF ReportedInv
  <1>i. Reported(IdleImport, budget'.lost)  BY DEF Reported, IdleImport
  <1>c. ASSUME NEW counted \in BOOLEAN
        PROVE  LET q == AfterCreate(s, counted)
               IN  /\ q \in ImportType /\ q.pc \in {"create", "answer"} /\ q.added = import[s].added
                   /\ q.inserted = IF counted THEN import[s].inserted + 1 ELSE import[s].inserted
    <2>. DEFINE todo == import[s].todo \ {First(s)}
                n == IF counted THEN import[s].inserted + 1 ELSE import[s].inserted
                q == [import[s] EXCEPT !.todo = todo,
                                       !.pc = IF todo = {} THEN "answer" ELSE "create",
                                       !.inserted = n]
    <2>1. AfterCreate(s, counted) = q  BY <1>t DEF AfterCreate, ImportType
    <2>2. n \in Nat /\ todo \subseteq import[s].todo  BY <1>t DEF ImportType
    <2>. HIDE DEF todo, n
    <2>3. q \in ImportType /\ q.pc \in {"create", "answer"} /\ q.added = import[s].added /\ q.inserted = n
      BY <1>t, <2>2 DEF ImportType
    <2>. QED  BY <2>1, <2>3 DEF n
  <1>. HIDE DEF AfterCreate, First
  <1>1. CASE Upload(s)
    <2>1. PICK rows \in Files : Goto(s, [IdleImport EXCEPT !.pc = "read", !.rows = rows])
      BY <1>1 DEF Upload
    <2>2. Reported([IdleImport EXCEPT !.pc = "read", !.rows = rows], budget'.lost)
      BY DEF Reported, IdleImport
    <2>. QED  BY <2>1, <2>2
  <1>2. CASE ReadExisting(s)
    <2>. DEFINE todo == Valid(import[s].rows, {m \in Mobiles : stored[m] > 0})
                r == [import[s] EXCEPT !.todo = todo, !.pc = IF todo = {} THEN "answer" ELSE "createAll"]
    <2>1. Goto(s, r) /\ import[s].pc = "read"  BY <1>2 DEF ReadExisting
    <2>. HIDE DEF todo
    <2>2. r.inserted = 0 /\ r.added = 0  BY <1>t, <1>r, <2>1 DEF Reported, ImportType
    <2>. HIDE DEF r
    <2>3. Reported(r, budget'.lost)  BY <2>2 DEF Reported
    <2>. QED  BY <2>1, <2>3
  <1>3. CASE CreateAll(s)
    <2>. DEFINE n == Cardinality(import[s].todo)
                r == [import[s] EXCEPT !.pc = "answer", !.todo = {}, !.inserted = n, !.added = n]
    <2>1. Goto(s, r)  BY <1>3 DEF CreateAll
    <2>2. n \in Nat  BY TodoType
    <2>. HIDE DEF n
    <2>3. Reported(r, budget'.lost)  BY <1>t, <2>2 DEF Reported, ImportType
    <2>. QED  BY <2>1, <2>3
  <1>4. CASE Create(s)
    <2>. DEFINE q == AfterCreate(s, TRUE)
                r == [q EXCEPT !.added = @ + 1]
    <2>1. /\ q \in ImportType /\ q.pc \in {"create", "answer"}
          /\ q.added = import[s].added /\ q.inserted = import[s].inserted + 1
      BY <1>c
    <2>2. Goto(s, r) /\ budget' = budget  BY <1>4 DEF Create
    <2>. HIDE DEF q
    <2>3. r.pc \in {"create", "answer"} /\ r.inserted = import[s].inserted + 1 /\ r.added = import[s].added + 1
      BY <2>1 DEF ImportType
    <2>. HIDE DEF r
    <2>4. Reported(r, budget'.lost)  BY <1>t, <1>r, <2>2, <2>3 DEF Reported, ImportType
    <2>. QED  BY <2>2, <2>4 DEF r, q
  <1>5. CASE Fault(s)
    <2>0. budget'.lost = budget.lost  BY <1>5, SpendType DEF Fault
    <2>1. CASE import[s].pc = "read" /\ Goto(s, IdleImport)  BY <1>i, <2>1
    <2>2. CASE import[s].pc = "createAll" /\ Goto(s, [import[s] EXCEPT !.pc = "create"])
      <3>. DEFINE r == [import[s] EXCEPT !.pc = "create"]
      <3>1. r.inserted = 0 /\ r.added = 0 /\ r.pc = "create"  BY <1>t, <1>r, <2>2 DEF Reported, ImportType
      <3>. HIDE DEF r
      <3>2. Reported(r, budget'.lost)  BY <3>1 DEF Reported
      <3>. QED  BY <2>2, <3>2 DEF r
    <2>3. CASE /\ import[s].pc = "create"
               /\ Goto(s, [AfterCreate(s, FALSE) EXCEPT !.failed = @ \cup {import[s].rows[First(s)].mobile}])
      <3>. DEFINE q == AfterCreate(s, FALSE)
                  m == import[s].rows[First(s)].mobile
                  r == [q EXCEPT !.failed = @ \cup {m}]
      <3>1. /\ q \in ImportType /\ q.pc \in {"create", "answer"}
            /\ q.added = import[s].added /\ q.inserted = import[s].inserted
        BY <1>c
      <3>2. Goto(s, r)  BY <2>3
      <3>. HIDE DEF q, m
      <3>3. r.pc \in {"create", "answer"} /\ r.inserted = import[s].inserted /\ r.added = import[s].added
        BY <3>1 DEF ImportType
      <3>. HIDE DEF r
      <3>4. Reported(r, budget'.lost)  BY <1>r, <2>0, <3>3 DEF Reported
      <3>. QED  BY <3>2, <3>4
    <2>. QED  BY <1>5, <2>1, <2>2, <2>3 DEF Fault
  <1>6. CASE LoseAnswer(s)
    <2>0. budget'.lost = budget.lost + 1 /\ budget'.lost # 0  BY <1>6, <1>t, SpendType DEF LoseAnswer
    <2>1. CASE /\ import[s].pc = "createAll"
               /\ Goto(s, [import[s] EXCEPT !.pc = "create", !.added = Cardinality(import[s].todo)])
      <3>. DEFINE n == Cardinality(import[s].todo)
                  r == [import[s] EXCEPT !.pc = "create", !.added = n]
      <3>1. Goto(s, r)  BY <2>1
      <3>2. n \in Nat  BY TodoType
      <3>. HIDE DEF n
      <3>3. r.inserted = 0 /\ r.added = n /\ r.pc = "create"  BY <1>t, <1>r, <2>1 DEF Reported, ImportType
      <3>. HIDE DEF r
      <3>4. Reported(r, budget'.lost)  BY <2>0, <3>2, <3>3 DEF Reported
      <3>. QED  BY <3>1, <3>4
    <2>2. CASE /\ import[s].pc = "create"
               /\ Goto(s, [AfterCreate(s, FALSE) EXCEPT !.added = @ + 1])
      <3>. DEFINE q == AfterCreate(s, FALSE)
                  r == [q EXCEPT !.added = @ + 1]
      <3>1. /\ q \in ImportType /\ q.pc \in {"create", "answer"}
            /\ q.added = import[s].added /\ q.inserted = import[s].inserted
        BY <1>c
      <3>2. Goto(s, r)  BY <2>2
      <3>. HIDE DEF q
      <3>3. r.pc \in {"create", "answer"} /\ r.inserted = import[s].inserted /\ r.added = import[s].added + 1
        BY <3>1 DEF ImportType
      <3>. HIDE DEF r
      <3>4. Reported(r, budget'.lost)  BY <1>t, <1>r, <2>0, <3>3 DEF Reported, ImportType
      <3>. QED  BY <3>2, <3>4
    <2>. QED  BY <1>6, <2>1, <2>2 DEF LoseAnswer
  <1>7. CASE Answer(s)  BY <1>i, <1>7 DEF Answer
  <1>. QED  BY <1>1, <1>2, <1>3, <1>4, <1>5, <1>6, <1>7 DEF SlotStep

\* Every step leaves the counts of every import right.
LEMMA ReportedStep == TypeInv /\ ReportedInv /\ [Next]_vars => ReportedInv'
  <1>. SUFFICES ASSUME TypeInv, ReportedInv, [Next]_vars, NEW t \in Slots
                PROVE  Reported(import'[t], budget'.lost)
    BY DEF ReportedInv
  <1>t. import \in [Slots -> ImportType]  BY DEF TypeInv, TypeOK, ImportType
  <1>0. Reported(import[t], budget'.lost)
    BY LostGrows DEF ReportedInv, Reported
  <1>1. ASSUME NEW s \in Slots, SlotStep(s) PROVE Reported(import'[t], budget'.lost)
    <2>1. PICK r : Goto(s, r) /\ Reported(r, budget'.lost)  BY <1>1, ReportedSlot
    <2>2. CASE t = s  BY <1>t, <2>1, <2>2 DEF Goto
    <2>3. CASE t # s
      <3>1. import'[t] = import[t]  BY <1>t, <2>1, <2>3 DEF Goto
      <3>. QED  BY <1>0, <3>1
    <2>. QED  BY <2>2, <2>3
  <1>2. CASE Crash  BY <1>2 DEF Crash, Reported, IdleImport
  <1>3. CASE UNCHANGED vars  BY <1>0, <1>3 DEF vars
  <1>. QED  BY <1>1, <1>2, <1>3, StepKinds

LEMMA ReportedInit == Init => ReportedInv
  BY DEF Init, ReportedInv, Reported, IdleImport

-----------------------------------------------------------------------------
(* The theorems.                                                           *)

\* Type correctness: every import in every reachable state has a local state of
\* importFromBuffer, at an insert exactly while it has rows to insert.
THEOREM TypeCorrect == Spec => []TypeOK
  <1>1. TypeInv => TypeOK  BY DEF TypeInv
  <1>. QED  BY <1>1, TypeInit, TypeStep, PTL DEF Spec

\* However many imports run, and whatever they read, a number is stored at most
\* once for each import that can be under way and once for each lost answer.
THEOREM StoredOnce == Spec => []StoredOncePerImport
  <1>1. TypeInv /\ Bounded => StoredOncePerImport
    <2>. SUFFICES ASSUME TypeInv, Bounded, NEW m \in Mobiles
                  PROVE  stored[m] <= Cardinality(Slots) + budget.lost
      BY DEF StoredOncePerImport
    <2>1. Waiting(m) \subseteq Slots  BY DEF Waiting
    <2>2. /\ Cardinality(Waiting(m)) \in Nat /\ Cardinality(Slots) \in Nat
          /\ stored[m] \in Nat /\ budget.lost \in Nat
      BY <2>1, WaitingFinite, BudgetAssumption DEF TypeInv, TypeOK
    <2>3. stored[m] + Cardinality(Waiting(m)) <= Cardinality(Slots) + budget.lost  BY DEF Bounded
    <2>. QED  BY <2>2, <2>3
  <1>. QED  BY <1>1, TypeInit, TypeStep, BoundedInit, BoundedStep, PTL DEF Spec

\* No usable row of an imported file is dropped: when the import answers, its
\* number is in the table or the insert of its row threw.
THEOREM NobodyIsLeftOut == Spec => []NobodyLeftOut
  <1>1. TypeInv /\ PlacedInv => NobodyLeftOut
    <2>. SUFFICES ASSUME TypeInv, PlacedInv, NEW s \in Slots, import[s].pc = "answer"
                  PROVE  \A i \in DOMAIN import[s].rows : Usable(import[s].rows[i]) =>
                           \/ stored[import[s].rows[i].mobile] > 0
                           \/ import[s].rows[i].mobile \in import[s].failed
      BY DEF NobodyLeftOut
    <2>1. import[s].todo = {}  BY DEF TypeInv, TypeOK
    <2>. QED  BY <2>1 DEF PlacedInv, Placed
  <1>. QED  BY <1>1, TypeInit, TypeStep, PlacedInit, PlacedStep, PTL DEF Spec
\* The answer never counts a row that is not in the table, and while no answer of
\* the database was lost it counts every row that the import added, over any
\* number of imports, failing inserts and crashes.
THEOREM AnswerCountsRows == Spec => []ReportsWhatItAdded
  <1>1. ReportedInv => ReportsWhatItAdded  BY DEF ReportedInv, Reported, ReportsWhatItAdded
  <1>. QED  BY <1>1, TypeInit, TypeStep, ReportedInit, ReportedStep, PTL DEF Spec
=============================================================================

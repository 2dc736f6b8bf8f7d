---------------------------- MODULE ImportProofs ----------------------------
(***************************************************************************)
(* For any files, number of imports, chunk size and crashes: the figures   *)
(* of a finished import account for the rows of its file.                  *)
(***************************************************************************)
EXTENDS Imports, FiniteSetTheorems, WellFoundedInduction, TLAPS

-----------------------------------------------------------------------------
(* Counting *)

Below == {pair \in Nat \X Nat : pair[1] < pair[2]}

\* Every inhabited set of numbers has a least one.
LEMMA LeastNumber ==
    ASSUME NEW T, T \subseteq Nat, T # {}
    PROVE  \E n \in T : \A m \in T : n <= m
<1>1. IsWellFoundedOn(Below, Nat)
  BY NatLessThanWellFounded DEF OpToRel, Below
<1>2. PICK n \in T : \A m \in T : ~(<<m, n>> \in Below)
  BY <1>1, WFMin
<1>3. ASSUME NEW m \in T
      PROVE  n <= m
  <2>1. n \in Nat /\ m \in Nat
    OBVIOUS
  <2>2. ~(m < n)
    BY <1>2, <2>1 DEF Below
  <2> QED
    BY <2>1, <2>2
<1> QED
  BY <1>3

\* An injective image of a finite set has as many members.
LEMMA ImageCounts ==
    ASSUME NEW S, IsFiniteSet(S), NEW f, DOMAIN f = S,
           \A x, y \in S : f[x] = f[y] => x = y
    PROVE  /\ IsFiniteSet({f[x] : x \in S})
           /\ Cardinality({f[x] : x \in S}) = Cardinality(S)
<1> DEFINE T == {f[x] : x \in S}
           g == [x \in S |-> f[x]]
<1>1. g \in Surjection(S, T) /\ g \in Injection(S, T)
  BY DEF Surjection, Injection, IsInjective
<1> HIDE DEF T, g
<1>2. IsFiniteSet(T) /\ Cardinality(T) = Cardinality(S)
  BY <1>1, FS_Surjection
<1> QED
  BY <1>2 DEF T

\* Two sets without a common member.
LEMMA DisjointCounts ==
    ASSUME NEW S, NEW T, IsFiniteSet(S), IsFiniteSet(T), S \cap T = {}
    PROVE  /\ IsFiniteSet(S \cup T)
           /\ Cardinality(S \cup T) = Cardinality(S) + Cardinality(T)
<1>1. Cardinality(S) \in Nat /\ Cardinality(T) \in Nat /\ Cardinality(S \cap T) = 0
  BY FS_CardinalityType, FS_EmptySet
<1>2. /\ IsFiniteSet(S \cup T)
      /\ Cardinality(S \cup T) = Cardinality(S) + Cardinality(T) - Cardinality(S \cap T)
  BY FS_Union
<1> QED
  BY <1>1, <1>2

\* Rows of a chunk by what they were found to be.
LEMMA ClassesCount ==
    ASSUME NEW S, IsFiniteSet(S), NEW class \in [S -> Tally]
    PROVE  /\ \A t \in Tally : /\ IsFiniteSet({n \in S : class[n] = t})
                                /\ Cardinality({n \in S : class[n] = t}) \in Nat
           /\ Cardinality(S) = Cardinality({n \in S : class[n] = "VALID"})
                                + Cardinality({n \in S : class[n] = "INVALID"})
                                + Cardinality({n \in S : class[n] = "DUPLICATE"})
                                + Cardinality({n \in S : class[n] = "SUPPRESSED"})
<1> DEFINE Of(t) == {n \in S : class[n] = t}
<1>1. \A t \in Tally : Of(t) \subseteq S
  OBVIOUS
<1>2. S = ((Of("VALID") \cup Of("INVALID")) \cup Of("DUPLICATE")) \cup Of("SUPPRESSED")
  BY DEF Tally
<1>3. /\ Of("VALID") \cap Of("INVALID") = {}
      /\ (Of("VALID") \cup Of("INVALID")) \cap Of("DUPLICATE") = {}
      /\ ((Of("VALID") \cup Of("INVALID")) \cup Of("DUPLICATE")) \cap Of("SUPPRESSED") = {}
  OBVIOUS
<1> HIDE DEF Of
<1>4. \A t \in Tally : IsFiniteSet(Of(t)) /\ Cardinality(Of(t)) \in Nat
  BY <1>1, FS_Subset, FS_CardinalityType
<1>5. /\ IsFiniteSet(Of("VALID")) /\ IsFiniteSet(Of("INVALID"))
      /\ IsFiniteSet(Of("DUPLICATE")) /\ IsFiniteSet(Of("SUPPRESSED"))
  BY <1>4 DEF Tally
<1>6. /\ IsFiniteSet(Of("VALID") \cup Of("INVALID"))
      /\ Cardinality(Of("VALID") \cup Of("INVALID"))
            = Cardinality(Of("VALID")) + Cardinality(Of("INVALID"))
  BY <1>3, <1>5, DisjointCounts
<1>7. /\ IsFiniteSet((Of("VALID") \cup Of("INVALID")) \cup Of("DUPLICATE"))
      /\ Cardinality((Of("VALID") \cup Of("INVALID")) \cup Of("DUPLICATE"))
            = Cardinality(Of("VALID") \cup Of("INVALID")) + Cardinality(Of("DUPLICATE"))
  BY <1>3, <1>5, <1>6, DisjointCounts
<1>8. Cardinality(S) = Cardinality((Of("VALID") \cup Of("INVALID")) \cup Of("DUPLICATE"))
                         + Cardinality(Of("SUPPRESSED"))
  BY <1>2, <1>3, <1>5, <1>7, DisjointCounts
<1>9. Cardinality(S) = Cardinality(Of("VALID")) + Cardinality(Of("INVALID"))
                         + Cardinality(Of("DUPLICATE")) + Cardinality(Of("SUPPRESSED"))
  BY <1>6, <1>7, <1>8
<1> QED
  BY <1>4, <1>9 DEF Of

-----------------------------------------------------------------------------
(* The invariant *)

ImportRow == [status : ImportStatus \cup {"none"}, file : Seq(Mailboxes \cup {Malformed}),
              total : Nat, tally : [Tally -> Nat]]
QueueRow == [state : {"absent", "waiting", "active", "failed"},
             at : {"start", "load", "leads", "rows", "finish"}, row : Nat,
             seen : SUBSET Mailboxes, tally : [Tally -> Nat], stalls : Nat]
ImportRequest == [op : {"create", "cancel"}, of : ImportIds, at : {"enqueue", "mark", "remove"}]

RowsShape ==
    /\ import \in [ImportIds -> ImportRow]
    /\ queued \in [ImportIds -> QueueRow]
    /\ earlier \in [ImportIds -> SUBSET Mailboxes]
    /\ imported \subseteq Mailboxes /\ screened \subseteq Mailboxes
    /\ DOMAIN audit = ImportIds
    /\ \A i \in ImportIds : /\ DOMAIN audit[i] = 1 .. Len(import[i].file)
                             /\ \A n \in DOMAIN audit[i] : audit[i][n] \in Nat
    /\ calling \subseteq ImportRequest
    /\ \A q \in calling : q.op = "create" <=> q.at = "enqueue"

TallyTotal(tally) == tally["VALID"] + tally["INVALID"] + tally["DUPLICATE"] + tally["SUPPRESSED"]

\* Valid addresses of the first rows of a file, given what was listed when the
\* run read the list.
Admitted(file, rows, listed) ==
    {file[n] : n \in {k \in 1 .. rows : file[k] \notin {Malformed} \cup listed}}

\* The figures and the addresses of a run are those of the rows it has read.
RowsCounted(i) ==
    /\ TallyTotal(queued[i].tally) = queued[i].row
    /\ queued[i].seen = Admitted(import[i].file, queued[i].row, earlier[i])
    /\ IsFiniteSet(queued[i].seen)
    /\ queued[i].tally["VALID"] = Cardinality(queued[i].seen)

ImportRunFits(i) ==
    /\ queued[i].at # "start"
    /\ queued[i].at = "load" =>
          queued[i].row = 0 /\ queued[i].seen = {} /\ queued[i].tally = NoTally
    /\ queued[i].at \in {"leads", "rows"} => queued[i].row < Len(import[i].file)
    /\ queued[i].at = "finish" => queued[i].row = Len(import[i].file)
    /\ queued[i].at # "load" => RowsCounted(i)
    /\ \A n \in DOMAIN audit[i] :
          IF n <= queued[i].row THEN audit[i][n] \in 1 .. queued[i].stalls + 1
          ELSE audit[i][n] <= queued[i].stalls

FiguresFit(i) ==
    /\ import[i].total = TallyTotal(import[i].tally)
    /\ import[i].tally["VALID"] =
           Cardinality(ToSet(import[i].file) \ ({Malformed} \cup earlier[i]))
    /\ \A n \in DOMAIN audit[i] : audit[i][n] \in 1 .. queued[i].stalls + 1

\* An import is created once, queued once, and over once it has figures.
ImportFits(i) ==
    /\ import[i].status = "none" => queued[i].state = "absent"
    /\ \A q \in calling : q.of = i => import[i].status # "none"
    /\ \A q \in calling : q.of = i /\ q.op = "create" =>
          /\ queued[i].state = "absent" /\ import[i].total = 0
          /\ \A n \in DOMAIN audit[i] : audit[i][n] = 0
    /\ queued[i].state = "waiting" =>
          /\ import[i].total = 0 /\ queued[i].row = 0 /\ queued[i].seen = {}
          /\ queued[i].tally = NoTally
          /\ \A n \in DOMAIN audit[i] : audit[i][n] <= queued[i].stalls
    /\ queued[i].state = "active" => import[i].total = 0 /\ ImportRunFits(i)
    /\ queued[i].row <= Len(import[i].file)
    /\ queued[i].state = "failed" => import[i].total = 0
    /\ import[i].total > 0 => FiguresFit(i)

RowsInvariant == RowsShape /\ \A i \in ImportIds : ImportFits(i)

LEMMA NoTallyIsTally == NoTally \in [Tally -> Nat] /\ TallyTotal(NoTally) = 0 /\ NoTally["VALID"] = 0
  BY DEF NoTally, TallyTotal, Tally

LEMMA FirstRows == NoImport \in ImportRow /\ NotQueued \in QueueRow
<1>1. <<>> \in Seq(Mailboxes \cup {Malformed})
  OBVIOUS
<1> QED
  BY <1>1, NoTallyIsTally DEF NoImport, NotQueued, ImportRow, QueueRow

LEMMA RowsStart == ImportsInit => RowsInvariant
<1> SUFFICES ASSUME ImportsInit PROVE RowsInvariant
  OBVIOUS
<1>1. /\ import \in [ImportIds -> ImportRow] /\ queued \in [ImportIds -> QueueRow]
      /\ \A i \in ImportIds : import[i] = NoImport /\ queued[i] = NotQueued
  BY FirstRows DEF ImportsInit
<1>2. \A i \in ImportIds : /\ import[i].file = <<>> /\ import[i].status = "none"
                            /\ import[i].total = 0
                            /\ queued[i].state = "absent" /\ queued[i].row = 0
                            /\ audit[i] = <<>>
  BY <1>1 DEF NoImport, NotQueued, ImportsInit
<1>3. /\ earlier \in [ImportIds -> SUBSET Mailboxes] /\ imported = {} /\ screened = {}
      /\ DOMAIN audit = ImportIds /\ calling = {}
  BY DEF ImportsInit
<1>4. Len(<<>>) = 0 /\ DOMAIN <<>> = 1 .. 0 /\ \A n : n \notin DOMAIN <<>>
  OBVIOUS
<1> QED
  BY <1>1, <1>2, <1>3, <1>4 DEF RowsInvariant, RowsShape, ImportFits

\* What a step leaves of an import keeps what holds of it.
LEMMA ImportStays ==
    ASSUME NEW i \in ImportIds, ImportFits(i), import'[i] = import[i], queued'[i] = queued[i],
           audit'[i] = audit[i], earlier'[i] = earlier[i],
           \A q \in calling' : q.of = i => \E p \in calling : p.of = i /\ p.op = q.op
    PROVE  ImportFits(i)'
<1>1. \A q \in calling' : q.of = i => import'[i].status # "none"
  BY DEF ImportFits
<1>2. \A q \in calling' : q.of = i /\ q.op = "create" =>
          /\ queued'[i].state = "absent" /\ import'[i].total = 0
          /\ \A n \in DOMAIN audit'[i] : audit'[i][n] = 0
  BY DEF ImportFits
<1>3. /\ ImportRunFits(i) => ImportRunFits(i)'
      /\ FiguresFit(i) => FiguresFit(i)'
  BY DEF ImportRunFits, RowsCounted, FiguresFit
<1> QED
  BY <1>1, <1>2, <1>3 DEF ImportFits

-----------------------------------------------------------------------------
(* The requests *)

\* A step about one import.
LEMMA OneImportMoves ==
    ASSUME RowsInvariant, RowsShape', NEW i \in ImportIds,
           \A j \in ImportIds \ {i} : /\ import'[j] = import[j] /\ queued'[j] = queued[j]
                                      /\ audit'[j] = audit[j] /\ earlier'[j] = earlier[j],
           \A q \in calling' : q.of # i => \E p \in calling : p.of = q.of /\ p.op = q.op,
           ImportFits(i)'
    PROVE  RowsInvariant'
<1>1. ASSUME NEW j \in ImportIds, j # i
      PROVE  ImportFits(j)'
  <2>1. ImportFits(j)
    BY DEF RowsInvariant
  <2>2. \A q \in calling' : q.of = j => \E p \in calling : p.of = j /\ p.op = q.op
    BY <1>1
  <2> QED
    BY <1>1, <2>1, <2>2, ImportStays
<1> QED
  BY <1>1 DEF RowsInvariant

LEMMA CreateFits ==
    ASSUME RowsInvariant, NEW i \in ImportIds, NEW file \in Files, CreateImport(i, file)
    PROVE  RowsInvariant'
<1> DEFINE row == [NoImport EXCEPT !.status = "PENDING", !.file = file]
           q == [op |-> "create", of |-> i, at |-> "enqueue"]
<1>1. /\ import[i] = NoImport /\ import' = [import EXCEPT ![i] = row]
      /\ audit' = [audit EXCEPT ![i] = [n \in 1 .. Len(file) |-> 0]]
      /\ calling' = calling \cup {q}
      /\ UNCHANGED <<queued, imported, screened, earlier>>
  BY DEF CreateImport, ImportHistory
<1>2. /\ row \in ImportRow /\ row.status = "PENDING" /\ row.file = file /\ row.total = 0
      /\ q \in ImportRequest /\ q.op = "create" /\ q.of = i /\ q.at = "enqueue"
  <2>1. file \in Seq(Mailboxes \cup {Malformed})
    BY ImportsBounds
  <2> QED
    BY <2>1, NoTallyIsTally DEF NoImport, ImportRow, ImportRequest, ImportStatus
<1>3. import[i].status = "none" /\ queued[i].state = "absent" /\ queued[i].row = 0
      /\ \A p \in calling : p.of # i
  <2>1. import[i].status = "none" /\ import[i].file = <<>>
    BY <1>1 DEF NoImport
  <2>2. Len(<<>>) = 0 /\ queued[i].row \in Nat
    BY DEF RowsInvariant, RowsShape, QueueRow
  <2> QED
    BY <2>1, <2>2 DEF RowsInvariant, ImportFits
<1> HIDE DEF row, q
<1>4. /\ import'[i] = row /\ audit'[i] = [n \in 1 .. Len(file) |-> 0]
      /\ \A j \in ImportIds \ {i} : import'[j] = import[j] /\ audit'[j] = audit[j]
  BY <1>1 DEF RowsInvariant, RowsShape
<1>5. RowsShape'
  <2>1. import' \in [ImportIds -> ImportRow] /\ DOMAIN audit' = ImportIds
    BY <1>1, <1>2 DEF RowsInvariant, RowsShape
  <2>2. ASSUME NEW j \in ImportIds
        PROVE  /\ DOMAIN audit'[j] = 1 .. Len(import'[j].file)
               /\ \A n \in DOMAIN audit'[j] : audit'[j][n] \in Nat
    <3>1. CASE j = i
      BY <1>2, <1>4, <3>1
    <3>2. CASE j # i
      BY <1>4, <3>2 DEF RowsInvariant, RowsShape
    <3> QED
      BY <3>1, <3>2
  <2>3. /\ calling' \subseteq ImportRequest
        /\ \A p \in calling' : p.op = "create" <=> p.at = "enqueue"
    BY <1>1, <1>2 DEF RowsInvariant, RowsShape
  <2> QED
    BY <1>1, <2>1, <2>2, <2>3 DEF RowsInvariant, RowsShape
<1>6. ImportFits(i)'
  <2>1. Len(file) \in Nat
    BY ImportsBounds
  <2>2. \A n \in DOMAIN audit'[i] : audit'[i][n] = 0
    BY <1>4
  <2> QED
    BY <1>1, <1>2, <1>3, <1>4, <2>1, <2>2 DEF ImportFits
<1> QED
  BY <1>1, <1>2, <1>4, <1>5, <1>6, OneImportMoves

LEMMA EnqueueFits ==
    ASSUME RowsInvariant, NEW q \in calling, EnqueueImport(q)
    PROVE  RowsInvariant'
<1> DEFINE i == q.of
           run == [NotQueued EXCEPT !.state = "waiting"]
<1>1. /\ queued' = [queued EXCEPT ![i] = run] /\ calling' = calling \ {q}
      /\ UNCHANGED <<import, imported, screened, audit, earlier>> /\ q.at = "enqueue"
  BY DEF EnqueueImport, ImportHistory
<1>2. /\ run \in QueueRow /\ run.state = "waiting" /\ run.row = 0 /\ run.seen = {}
      /\ run.tally = NoTally /\ run.stalls = 0
  BY FirstRows DEF NotQueued, QueueRow
<1> HIDE DEF run
<1>3. i \in ImportIds /\ q.op = "create"
  BY <1>1 DEF RowsInvariant, RowsShape, ImportRequest
<1>4. queued'[i] = run /\ \A j \in ImportIds \ {i} : queued'[j] = queued[j]
  BY <1>1, <1>3 DEF RowsInvariant, RowsShape
<1>5. RowsShape'
  BY <1>1, <1>2 DEF RowsInvariant, RowsShape
<1>6. \A p \in calling' : p.of = i => p.op # "create"
  BY <1>1, <1>3 DEF RowsInvariant, RowsShape, ImportRequest
<1>7. ImportFits(i)'
  <2>1. /\ ImportFits(i) /\ import[i].status # "none" /\ import[i].total = 0
        /\ \A n \in DOMAIN audit[i] : audit[i][n] = 0
    BY <1>3 DEF RowsInvariant, ImportFits
  <2>2. Len(import[i].file) \in Nat
    BY <1>3 DEF RowsInvariant, RowsShape, ImportRow
  <2> QED
    BY <1>1, <1>2, <1>4, <1>6, <2>1, <2>2 DEF ImportFits
<1> QED
  BY <1>1, <1>3, <1>4, <1>5, <1>7, OneImportMoves

LEMMA AskCancelFits ==
    ASSUME RowsInvariant, NEW i \in ImportIds, AskCancel(i)
    PROVE  RowsInvariant'
<1> DEFINE q == [op |-> "cancel", of |-> i, at |-> "mark"]
<1>1. /\ calling' = calling \cup {q} /\ import[i].status # "none"
      /\ UNCHANGED <<import, queued, imported, screened, audit, earlier>>
  BY DEF AskCancel, ImportHistory
<1>2. q \in ImportRequest /\ q.op = "cancel" /\ q.at = "mark" /\ q.of = i
  BY DEF ImportRequest
<1> HIDE DEF q
<1>3. RowsShape'
  BY <1>1, <1>2 DEF RowsInvariant, RowsShape
<1>4. ImportFits(i)'
  <2>1. ImportFits(i)
    BY DEF RowsInvariant
  <2>2. /\ ImportRunFits(i) => ImportRunFits(i)'
        /\ FiguresFit(i) => FiguresFit(i)'
    BY <1>1 DEF ImportRunFits, RowsCounted, FiguresFit
  <2> QED
    BY <1>1, <1>2, <2>1, <2>2 DEF ImportFits
<1> QED
  BY <1>1, <1>2, <1>3, <1>4, OneImportMoves

LEMMA MarkCancelledFits ==
    ASSUME RowsInvariant, NEW q \in calling, MarkCancelled(q)
    PROVE  RowsInvariant'
<1> DEFINE i == q.of
           row == [import[i] EXCEPT !.status = "CANCELLED"]
           next == [q EXCEPT !.at = "remove"]
<1>1. /\ import' = [import EXCEPT ![i] = row]
      /\ calling' = (calling \ {q}) \cup {next} /\ q.at = "mark"
      /\ UNCHANGED <<queued, imported, screened, audit, earlier>>
  BY DEF MarkCancelled, ImportHistory
<1>2. i \in ImportIds /\ q.op = "cancel" /\ import[i] \in ImportRow
      /\ next \in ImportRequest /\ next.op = "cancel" /\ next.of = i /\ next.at = "remove"
  BY <1>1 DEF RowsInvariant, RowsShape, ImportRequest
<1>3. /\ row \in ImportRow /\ row.status = "CANCELLED" /\ row.file = import[i].file
      /\ row.total = import[i].total /\ row.tally = import[i].tally
  BY <1>2 DEF ImportRow, ImportStatus
<1> HIDE DEF row, next
<1>4. import'[i] = row /\ \A j \in ImportIds \ {i} : import'[j] = import[j]
  BY <1>1, <1>2 DEF RowsInvariant, RowsShape
<1>5. RowsShape'
  <2>1. import' \in [ImportIds -> ImportRow]
    BY <1>1, <1>3 DEF RowsInvariant, RowsShape
  <2>2. \A j \in ImportIds : import'[j].file = import[j].file
    BY <1>3, <1>4
  <2>3. /\ calling' \subseteq ImportRequest
        /\ \A p \in calling' : p.op = "create" <=> p.at = "enqueue"
    BY <1>1, <1>2 DEF RowsInvariant, RowsShape
  <2> QED
    BY <1>1, <2>1, <2>2, <2>3 DEF RowsInvariant, RowsShape
<1>6. ImportFits(i)'
  <2>1. ImportFits(i) /\ import[i].status # "none"
    BY <1>2 DEF RowsInvariant, ImportFits
  <2>2. /\ ImportRunFits(i) => ImportRunFits(i)'
        /\ FiguresFit(i) => FiguresFit(i)'
    BY <1>1, <1>3, <1>4 DEF ImportRunFits, RowsCounted, FiguresFit
  <2>3. \A p \in calling' : p.of = i /\ p.op = "create" => p \in calling
    BY <1>1, <1>2
  <2> QED
    BY <1>1, <1>3, <1>4, <2>1, <2>2, <2>3 DEF ImportFits
<1> QED
  BY <1>1, <1>2, <1>4, <1>5, <1>6, OneImportMoves

\* A run that ended, or a job that was removed: nothing of the run is left.
LEMMA DequeuedRow ==
    ASSUME RowsShape, NEW i \in ImportIds, NEW state \in {"absent", "failed"},
           queued' = Dequeued(i, state)
    PROVE  /\ queued' \in [ImportIds -> QueueRow]
           /\ queued'[i].state = state /\ queued'[i].row = 0
           /\ queued'[i].stalls = queued[i].stalls
           /\ \A j \in ImportIds \ {i} : queued'[j] = queued[j]
<1> DEFINE run == [NotQueued EXCEPT !.state = state, !.stalls = queued[i].stalls]
<1>1. /\ run \in QueueRow /\ run.state = state /\ run.row = 0
      /\ run.stalls = queued[i].stalls
  BY FirstRows DEF NotQueued, QueueRow, RowsShape
<1>2. queued' = [queued EXCEPT ![i] = run]
  BY DEF Dequeued
<1> HIDE DEF run
<1> QED
  BY <1>1, <1>2 DEF RowsShape

LEMMA RemoveFits ==
    ASSUME RowsInvariant, NEW q \in calling, RemoveFromQueue(q)
    PROVE  RowsInvariant'
<1> DEFINE i == q.of
<1>1. /\ calling' = calling \ {q}
      /\ UNCHANGED <<import, imported, screened, audit, earlier>> /\ q.at = "remove"
      /\ \/ queued' = queued
         \/ queued' = Dequeued(i, "absent") /\ queued[i].state # "active"
  BY DEF RemoveFromQueue, ImportHistory
<1>2. i \in ImportIds
  BY DEF RowsInvariant, RowsShape, ImportRequest
<1>3. CASE queued' = queued
  <2>1. RowsShape'
    BY <1>1, <1>3 DEF RowsInvariant, RowsShape
  <2>2. ImportFits(i)'
    BY <1>1, <1>2, <1>3, ImportStays DEF RowsInvariant
  <2> QED
    BY <1>1, <1>2, <1>3, <2>1, <2>2, OneImportMoves
<1>4. CASE queued' = Dequeued(i, "absent") /\ queued[i].state # "active"
  <2>1. /\ queued' \in [ImportIds -> QueueRow]
        /\ queued'[i].state = "absent" /\ queued'[i].row = 0
        /\ queued'[i].stalls = queued[i].stalls
        /\ \A j \in ImportIds \ {i} : queued'[j] = queued[j]
    BY <1>2, <1>4, DequeuedRow DEF RowsInvariant
  <2>2. RowsShape'
    BY <1>1, <2>1 DEF RowsInvariant, RowsShape
  <2>3. ImportFits(i)'
    <3>1. ImportFits(i) /\ Len(import[i].file) \in Nat
      BY <1>2 DEF RowsInvariant, RowsShape, ImportRow
    <3>2. FiguresFit(i) => FiguresFit(i)'
      BY <1>1, <2>1 DEF FiguresFit
    <3> QED
      BY <1>1, <2>1, <3>1, <3>2 DEF ImportFits
  <2> QED
    BY <1>1, <1>2, <2>1, <2>2, <2>3, OneImportMoves
<1> QED
  BY <1>1, <1>3, <1>4

-----------------------------------------------------------------------------
(* A run *)

\* A step of one import's run, which no request to create it can be beside.
LEMMA RunMoves ==
    ASSUME RowsInvariant, NEW i \in ImportIds, queued[i].state # "absent",
           UNCHANGED calling,
           import' \in [ImportIds -> ImportRow], queued' \in [ImportIds -> QueueRow],
           earlier' \in [ImportIds -> SUBSET Mailboxes],
           imported' \subseteq Mailboxes, screened' \subseteq Mailboxes,
           DOMAIN audit' = ImportIds, DOMAIN audit'[i] = DOMAIN audit[i],
           \A n \in DOMAIN audit[i] : audit'[i][n] \in Nat,
           \A j \in ImportIds \ {i} : /\ import'[j] = import[j] /\ queued'[j] = queued[j]
                                      /\ audit'[j] = audit[j] /\ earlier'[j] = earlier[j],
           import'[i].file = import[i].file, import'[i].status # "none",
           queued'[i].row <= Len(import[i].file),
           queued'[i].state = "waiting" =>
               /\ import'[i].total = 0 /\ queued'[i].row = 0 /\ queued'[i].seen = {}
               /\ queued'[i].tally = NoTally
               /\ \A n \in DOMAIN audit'[i] : audit'[i][n] <= queued'[i].stalls,
           queued'[i].state = "active" => import'[i].total = 0 /\ ImportRunFits(i)',
           queued'[i].state = "failed" => import'[i].total = 0,
           import'[i].total > 0 => FiguresFit(i)'
    PROVE  RowsInvariant'
<1>1. RowsShape'
  <2>1. ASSUME NEW j \in ImportIds
        PROVE  /\ DOMAIN audit'[j] = 1 .. Len(import'[j].file)
               /\ \A n \in DOMAIN audit'[j] : audit'[j][n] \in Nat
    <3>1. CASE j = i
      BY <3>1 DEF RowsInvariant, RowsShape
    <3>2. CASE j # i
      BY <3>2 DEF RowsInvariant, RowsShape
    <3> QED
      BY <3>1, <3>2
  <2> QED
    BY <2>1 DEF RowsInvariant, RowsShape
<1>2. \A q \in calling : q.of = i => q.op # "create"
  BY DEF RowsInvariant, ImportFits
<1>3. ImportFits(i)'
  BY <1>2 DEF ImportFits
<1> QED
  BY <1>1, <1>3, OneImportMoves

\* An import that is queued is one that was created.
LEMMA QueuedIsCreated ==
    ASSUME RowsInvariant, NEW i \in ImportIds, queued[i].state # "absent"
    PROVE  /\ import[i].status # "none" /\ import[i].total = 0
           /\ import[i] \in ImportRow /\ queued[i] \in QueueRow
           /\ import[i].file \in Seq(Mailboxes \cup {Malformed})
           /\ Len(import[i].file) \in Nat
           /\ DOMAIN audit[i] = 1 .. Len(import[i].file)
           /\ \A n \in DOMAIN audit[i] : audit[i][n] \in Nat
           /\ earlier[i] \subseteq Mailboxes
           /\ ImportFits(i)
<1>1. ImportFits(i) /\ import[i] \in ImportRow /\ queued[i] \in QueueRow
  BY DEF RowsInvariant, RowsShape
<1>2. import[i].total = 0
  BY <1>1 DEF ImportFits, QueueRow
<1>3. import[i].file \in Seq(Mailboxes \cup {Malformed})
  BY <1>1 DEF ImportRow
<1> QED
  BY <1>1, <1>2, <1>3 DEF ImportFits, RowsInvariant, RowsShape

LEMMA StartFits ==
    ASSUME RowsInvariant, NEW i \in ImportIds, StartImport(i)
    PROVE  RowsInvariant'
<1> DEFINE row == [import[i] EXCEPT !.status = "PROCESSING"]
           run == [queued[i] EXCEPT !.state = "active", !.at = "load"]
<1>1. /\ queued[i].state = "waiting"
      /\ import' = [import EXCEPT ![i].status = "PROCESSING"]
      /\ queued' = [queued EXCEPT ![i].state = "active", ![i].at = "load"]
      /\ UNCHANGED <<calling, imported, screened, audit, earlier>>
  BY DEF StartImport, ImportHistory
<1>2. /\ import[i] \in ImportRow /\ queued[i] \in QueueRow /\ import[i].total = 0
      /\ Len(import[i].file) \in Nat /\ ImportFits(i)
      /\ DOMAIN audit[i] = 1 .. Len(import[i].file)
      /\ \A n \in DOMAIN audit[i] : audit[i][n] \in Nat
  BY <1>1, QueuedIsCreated
<1>3. /\ row \in ImportRow /\ row.file = import[i].file /\ row.total = 0
      /\ row.status = "PROCESSING"
  BY <1>2 DEF ImportRow, ImportStatus
<1>4. /\ run \in QueueRow /\ run.state = "active" /\ run.at = "load" /\ run.row = 0
      /\ run.seen = {} /\ run.tally = NoTally /\ run.stalls = queued[i].stalls
  BY <1>1, <1>2 DEF QueueRow, ImportFits
<1>5. /\ import' \in [ImportIds -> ImportRow] /\ queued' \in [ImportIds -> QueueRow]
      /\ import'[i] = row /\ queued'[i] = run
      /\ \A j \in ImportIds \ {i} : import'[j] = import[j] /\ queued'[j] = queued[j]
  BY <1>1, <1>3, <1>4 DEF RowsInvariant, RowsShape
<1> HIDE DEF row, run
<1>6. \A n \in DOMAIN audit[i] : audit[i][n] <= queued[i].stalls
  BY <1>1, <1>2 DEF ImportFits
<1>7. /\ queued'[i].state = "active" /\ queued'[i].at = "load" /\ queued'[i].row = 0
      /\ queued'[i].seen = {} /\ queued'[i].tally = NoTally
      /\ queued'[i].stalls = queued[i].stalls
      /\ import'[i].file = import[i].file /\ import'[i].total = 0
      /\ import'[i].status # "none"
  BY <1>3, <1>4, <1>5
<1>8. \A n \in DOMAIN audit[i] : ~(n <= 0)
  BY <1>2
<1>9. ImportRunFits(i)'
  BY <1>1, <1>6, <1>7, <1>8 DEF ImportRunFits
<1>10. queued'[i].row <= Len(import[i].file)
  BY <1>2, <1>7
<1>11. queued[i].state # "absent" /\ UNCHANGED <<calling, earlier, imported, screened, audit>>
  BY <1>1
<1> QED
  BY <1>2, <1>5, <1>7, <1>9, <1>10, <1>11, RunMoves DEF RowsInvariant, RowsShape

LEMMA LoadFits ==
    ASSUME RowsInvariant, NEW i \in ImportIds, LoadSuppressions(i)
    PROVE  RowsInvariant'
<1> DEFINE at == IF import[i].file = <<>> THEN "finish" ELSE "leads"
           run == [queued[i] EXCEPT !.at = at]
<1>1. /\ queued[i].state = "active" /\ queued[i].at = "load"
      /\ queued' = [queued EXCEPT ![i].at = at]
      /\ earlier' = [earlier EXCEPT ![i] = screened]
      /\ UNCHANGED <<import, calling, imported, screened, audit>>
  BY DEF LoadSuppressions, RunAt, RunGoto
<1>2. /\ import[i].status # "none" /\ import[i].total = 0
      /\ import[i] \in ImportRow /\ queued[i] \in QueueRow /\ ImportFits(i)
      /\ import[i].file \in Seq(Mailboxes \cup {Malformed})
      /\ Len(import[i].file) \in Nat /\ DOMAIN audit[i] = 1 .. Len(import[i].file)
      /\ \A n \in DOMAIN audit[i] : audit[i][n] \in Nat
  BY <1>1, QueuedIsCreated
<1>3. /\ run \in QueueRow /\ run.state = "active" /\ run.at = at /\ run.row = 0
      /\ run.seen = {} /\ run.tally = NoTally /\ run.stalls = queued[i].stalls
      /\ queued[i].row = 0
  BY <1>1, <1>2 DEF QueueRow, ImportFits, ImportRunFits
<1>4. /\ queued' \in [ImportIds -> QueueRow] /\ queued'[i] = run
      /\ \A j \in ImportIds \ {i} : queued'[j] = queued[j] /\ earlier'[j] = earlier[j]
      /\ earlier' \in [ImportIds -> SUBSET Mailboxes]
  BY <1>1, <1>3 DEF RowsInvariant, RowsShape
<1> HIDE DEF run
<1>5. IF at = "finish" THEN Len(import[i].file) = 0 ELSE 0 < Len(import[i].file)
  BY <1>2
<1>6. at \in {"finish", "leads"}
  OBVIOUS
<1> HIDE DEF at
<1>7. RowsCounted(i)'
  <2>1. Admitted(import'[i].file, 0, earlier'[i]) = {}
    BY DEF Admitted
  <2>2. queued'[i].row = 0 /\ queued'[i].seen = {} /\ queued'[i].tally = NoTally
    BY <1>3, <1>4
  <2>3. IsFiniteSet({}) /\ Cardinality({}) = 0
    BY FS_EmptySet
  <2> QED
    BY <2>1, <2>2, <2>3, NoTallyIsTally DEF RowsCounted
<1>8. \A n \in DOMAIN audit[i] :
         IF n <= 0 THEN audit[i][n] \in 1 .. queued[i].stalls + 1
         ELSE audit[i][n] <= queued[i].stalls
  BY <1>1, <1>2, <1>3 DEF ImportFits, ImportRunFits
<1>9. ImportRunFits(i)'
  BY <1>1, <1>3, <1>4, <1>5, <1>6, <1>7, <1>8 DEF ImportRunFits
<1>10. /\ import \in [ImportIds -> ImportRow] /\ imported \subseteq Mailboxes
       /\ screened \subseteq Mailboxes /\ DOMAIN audit = ImportIds
  BY DEF RowsInvariant, RowsShape
<1>11. /\ queued[i].state # "absent" /\ queued'[i].state = "active" /\ queued'[i].row = 0
       /\ ~(import'[i].total > 0)
  BY <1>1, <1>2, <1>3, <1>4
<1>12. /\ import' \in [ImportIds -> ImportRow] /\ imported' \subseteq Mailboxes
       /\ screened' \subseteq Mailboxes /\ DOMAIN audit' = ImportIds
       /\ DOMAIN audit'[i] = DOMAIN audit[i] /\ import'[i].file = import[i].file
       /\ \A n \in DOMAIN audit[i] : audit'[i][n] \in Nat
  BY <1>1, <1>2, <1>10
<1>13. \A j \in ImportIds \ {i} : /\ import'[j] = import[j] /\ queued'[j] = queued[j]
                                   /\ audit'[j] = audit[j] /\ earlier'[j] = earlier[j]
  BY <1>1, <1>4
<1>14. /\ UNCHANGED calling /\ import'[i].status # "none" /\ import'[i].total = 0
       /\ queued'[i].row <= Len(import[i].file)
       /\ queued'[i].state # "waiting" /\ queued'[i].state # "failed"
  BY <1>1, <1>2, <1>11
<1> QED
  BY <1>4, <1>9, <1>11, <1>12, <1>13, <1>14, RunMoves

\* The rows of a chunk.
LEMMA ChunkFits ==
    ASSUME RowsInvariant, NEW i \in ImportIds, queued[i].state = "active",
           queued[i].at \in {"leads", "rows"}
    PROVE  /\ queued[i].row \in Nat /\ ChunkEnd(i) \in Nat
           /\ queued[i].row < ChunkEnd(i) /\ ChunkEnd(i) <= Len(import[i].file)
           /\ Chunk(i) = queued[i].row + 1 .. ChunkEnd(i)
           /\ Chunk(i) \subseteq 1 .. Len(import[i].file)
<1>1. queued[i].row \in Nat /\ Len(import[i].file) \in Nat
      /\ queued[i].row < Len(import[i].file)
  BY QueuedIsCreated DEF QueueRow, ImportFits, ImportRunFits
<1>2. ChunkSize \in Nat /\ ChunkSize > 0
  BY ImportsBounds
<1>3. /\ ChunkEnd(i) \in Nat /\ queued[i].row < ChunkEnd(i)
      /\ ChunkEnd(i) <= Len(import[i].file)
  <2> DEFINE row == queued[i].row
             len == Len(import[i].file)
  <2>1. ChunkEnd(i) = row + (IF len - row < ChunkSize THEN len - row ELSE ChunkSize)
    BY DEF ChunkEnd
  <2>2. row \in Nat /\ len \in Nat /\ row < len
    BY <1>1
  <2> HIDE DEF row, len
  <2>3. /\ ChunkEnd(i) \in Nat /\ row < ChunkEnd(i) /\ ChunkEnd(i) <= len
    BY <1>2, <2>1, <2>2
  <2> QED
    BY <2>3 DEF row, len
<1> QED
  BY <1>1, <1>3 DEF Chunk

LEMMA ValidRows ==
    ASSUME RowsInvariant, NEW i \in ImportIds, queued[i].state = "active",
           queued[i].at \in {"leads", "rows"}, NEW n \in Chunk(i)
    PROVE  /\ ClassOf(i, n) \in Tally
           /\ ClassOf(i, n) = "VALID" <=>
                 /\ import[i].file[n] \notin {Malformed} \cup earlier[i]
                 /\ import[i].file[n] \notin queued[i].seen
                 /\ \A k \in queued[i].row + 1 .. n - 1 : import[i].file[k] # import[i].file[n]
  BY DEF ClassOf, Tally, Seen

LEMMA LeadsFit ==
    ASSUME RowsInvariant, NEW i \in ImportIds, InsertLeads(i)
    PROVE  RowsInvariant'
<1> DEFINE run == [queued[i] EXCEPT !.at = "rows"]
<1>1. /\ queued[i].state = "active" /\ queued[i].at = "leads"
      /\ queued' = [queued EXCEPT ![i].at = "rows"]
      /\ UNCHANGED <<import, calling, screened, audit, earlier>>
      /\ imported' = imported \cup
            {import[i].file[n] : n \in {k \in Chunk(i) : ClassOf(i, k) = "VALID"}}
  BY DEF InsertLeads, RunAt, RunGoto
<1>2. /\ import[i].status # "none" /\ import[i].total = 0
      /\ import[i] \in ImportRow /\ queued[i] \in QueueRow /\ ImportFits(i)
      /\ import[i].file \in Seq(Mailboxes \cup {Malformed})
      /\ Len(import[i].file) \in Nat /\ DOMAIN audit[i] = 1 .. Len(import[i].file)
      /\ \A n \in DOMAIN audit[i] : audit[i][n] \in Nat
  BY <1>1, QueuedIsCreated
<1>3. /\ run \in QueueRow /\ run.state = "active" /\ run.at = "rows"
      /\ run.row = queued[i].row /\ run.seen = queued[i].seen
      /\ run.tally = queued[i].tally /\ run.stalls = queued[i].stalls
  BY <1>1, <1>2 DEF QueueRow
<1>4. /\ queued' \in [ImportIds -> QueueRow] /\ queued'[i] = run
      /\ \A j \in ImportIds \ {i} : queued'[j] = queued[j]
  BY <1>1, <1>3 DEF RowsInvariant, RowsShape
<1> HIDE DEF run
<1>5. imported' \subseteq Mailboxes
  <2>1. ASSUME NEW n \in Chunk(i), ClassOf(i, n) = "VALID"
        PROVE  import[i].file[n] \in Mailboxes
    <3>1. n \in 1 .. Len(import[i].file)
      BY <1>1, ChunkFits
    <3>2. import[i].file[n] \in Mailboxes \cup {Malformed}
      BY <1>2, <3>1
    <3> QED
      BY <1>1, <2>1, <3>2, ValidRows
  <2> QED
    BY <1>1, <2>1 DEF RowsInvariant, RowsShape
<1>6. ImportRunFits(i)'
  <2>1. ImportRunFits(i)
    BY <1>1, <1>2 DEF ImportFits
  <2> QED
    BY <1>1, <1>3, <1>4, <2>1 DEF ImportRunFits, RowsCounted
<1>7. queued[i].row <= Len(import[i].file)
  BY <1>2 DEF ImportFits
<1> QED
  BY <1>1, <1>2, <1>3, <1>4, <1>5, <1>6, <1>7, RunMoves DEF RowsInvariant, RowsShape

\* The addresses a chunk admits: those its rows that are not repeated have, each
\* once; a row that is repeated repeats an earlier one.
LEMMA ChunkAdmits ==
    ASSUME RowsInvariant, NEW i \in ImportIds, queued[i].state = "active",
           queued[i].at = "rows"
    PROVE  LET new == {import[i].file[n] : n \in
                           {k \in Chunk(i) : ClassOf(i, k) = "VALID"}}
           IN  /\ IsFiniteSet(new)
               /\ Cardinality(new) = Cardinality({k \in Chunk(i) : ClassOf(i, k) = "VALID"})
               /\ queued[i].seen \cap new = {}
               /\ queued[i].seen \cup new
                     = Admitted(import[i].file, ChunkEnd(i), earlier[i])
<1> DEFINE file == import[i].file
           valid == {k \in Chunk(i) : ClassOf(i, k) = "VALID"}
           new == {file[n] : n \in valid}
           row == queued[i].row
           listed == {Malformed} \cup earlier[i]
<1>1. /\ row \in Nat /\ ChunkEnd(i) \in Nat /\ row < ChunkEnd(i)
      /\ ChunkEnd(i) <= Len(file) /\ Chunk(i) = row + 1 .. ChunkEnd(i)
  BY ChunkFits
<1>2. queued[i].seen = Admitted(file, row, earlier[i])
  BY DEF RowsInvariant, ImportFits, ImportRunFits, RowsCounted
<1>3. ASSUME NEW n \in Chunk(i)
      PROVE  ClassOf(i, n) = "VALID" <=>
               /\ file[n] \notin listed /\ file[n] \notin queued[i].seen
               /\ \A k \in row + 1 .. n - 1 : file[k] # file[n]
  BY ValidRows
<1> HIDE DEF file, row, listed
<1>4. IsFiniteSet(valid)
  <2>1. valid \subseteq Chunk(i) /\ IsFiniteSet(Chunk(i))
    BY <1>1, FS_Interval
  <2> QED
    BY <2>1, FS_Subset
<1>5. ASSUME NEW n \in valid, NEW m \in valid, file[n] = file[m]
      PROVE  n = m
  <2>1. n \in Nat /\ m \in Nat /\ row + 1 <= n /\ row + 1 <= m
    BY <1>1
  <2>2. ~(n < m)
    <3>1. n < m => n \in row + 1 .. m - 1
      BY <1>1, <2>1
    <3> QED
      BY <1>3, <1>5, <3>1
  <2>3. ~(m < n)
    <3>1. m < n => m \in row + 1 .. n - 1
      BY <1>1, <2>1
    <3> QED
      BY <1>3, <1>5, <3>1
  <2> QED
    BY <2>1, <2>2, <2>3
<1>6. IsFiniteSet(new) /\ Cardinality(new) = Cardinality(valid)
  <2> DEFINE f == [n \in valid |-> file[n]]
  <2>1. DOMAIN f = valid /\ new = {f[n] : n \in valid}
        /\ \A n, m \in valid : f[n] = f[m] => n = m
    BY <1>5
  <2> HIDE DEF f, new, valid
  <2> QED
    BY <1>4, <2>1, ImageCounts
<1>7. queued[i].seen \cap new = {}
  BY <1>3
<1>8. ASSUME NEW a \in queued[i].seen \cup new
      PROVE  a \in Admitted(file, ChunkEnd(i), earlier[i])
  <2>1. CASE a \in queued[i].seen
    <3>1. PICK n \in 1 .. row : a = file[n] /\ file[n] \notin listed
      BY <1>2, <2>1 DEF Admitted, listed
    <3>2. n \in 1 .. ChunkEnd(i)
      BY <1>1, <3>1
    <3> QED
      BY <3>1, <3>2 DEF Admitted, listed
  <2>2. CASE a \in new
    <3>1. PICK n \in Chunk(i) : a = file[n] /\ ClassOf(i, n) = "VALID"
      BY <2>2
    <3>2. n \in 1 .. ChunkEnd(i) /\ file[n] \notin listed
      BY <1>1, <1>3, <3>1
    <3> QED
      BY <3>1, <3>2 DEF Admitted, listed
  <2> QED
    BY <1>8, <2>1, <2>2
<1>9. ASSUME NEW a \in Admitted(file, ChunkEnd(i), earlier[i])
      PROVE  a \in queued[i].seen \cup new
  <2>1. PICK n \in 1 .. ChunkEnd(i) : a = file[n] /\ file[n] \notin listed
    BY <1>9 DEF Admitted, listed
  <2>2. CASE \E m \in 1 .. row : file[m] = a
    <3>1. PICK m \in 1 .. row : file[m] = a
      BY <2>2
    <3> QED
      BY <1>2, <2>1, <3>1 DEF Admitted, listed
  <2>3. CASE ~\E m \in 1 .. row : file[m] = a
    <3> DEFINE same == {k \in Chunk(i) : file[k] = a}
    <3>1. same \subseteq Nat /\ n \in same
      BY <1>1, <2>1, <2>3
    <3>2. PICK first \in same : \A m \in same : first <= m
      <4> HIDE DEF same
      <4> QED
        BY <3>1, LeastNumber
    <3>3. first \in Chunk(i) /\ file[first] = a /\ first \in Nat
      BY <3>1, <3>2
    <3>4. \A k \in row + 1 .. first - 1 : file[k] # file[first]
      BY <1>1, <3>2, <3>3
    <3>5. a \notin queued[i].seen
      BY <1>2, <2>3 DEF Admitted
    <3>6. ClassOf(i, first) = "VALID"
      BY <1>3, <2>1, <3>3, <3>4, <3>5
    <3> QED
      BY <3>3, <3>6
  <2> QED
    BY <2>2, <2>3
<1>10. queued[i].seen \cup new = Admitted(file, ChunkEnd(i), earlier[i])
  BY <1>8, <1>9
<1> QED
  BY <1>6, <1>7, <1>10 DEF file

LEMMA RowsFit ==
    ASSUME RowsInvariant, NEW i \in ImportIds, InsertRows(i)
    PROVE  RowsInvariant'
<1> DEFINE file == import[i].file
           Of(t) == {n \in Chunk(i) : ClassOf(i, n) = t}
           new == {import[i].file[n] : n \in {k \in Chunk(i) : ClassOf(i, k) = "VALID"}}
           tally == [t \in Tally |-> queued[i].tally[t] + Cardinality(Of(t))]
           at == IF ChunkEnd(i) = Len(file) THEN "finish" ELSE "leads"
           run == [queued[i] EXCEPT !.row = ChunkEnd(i), !.tally = tally,
                                    !.seen = @ \cup new, !.at = at]
<1>1. /\ queued[i].state = "active" /\ queued[i].at = "rows"
      /\ queued' = [queued EXCEPT ![i].row = ChunkEnd(i), ![i].tally = tally,
                        ![i].seen = @ \cup new, ![i].at = at]
      /\ import' = import \/ import' = [import EXCEPT ![i].tally = tally]
      /\ audit' = [audit EXCEPT ![i] = [n \in DOMAIN audit[i] |->
                       audit[i][n] + IF n \in Chunk(i) THEN 1 ELSE 0]]
      /\ UNCHANGED <<calling, imported, screened, earlier>>
  BY DEF InsertRows, RunAt, ImportHistory
<1>2. /\ import[i].status # "none" /\ import[i].total = 0
      /\ import[i] \in ImportRow /\ queued[i] \in QueueRow /\ ImportFits(i)
      /\ file \in Seq(Mailboxes \cup {Malformed}) /\ Len(file) \in Nat
      /\ DOMAIN audit[i] = 1 .. Len(file)
      /\ \A n \in DOMAIN audit[i] : audit[i][n] \in Nat
  BY <1>1, QueuedIsCreated
<1>3. /\ queued[i].row \in Nat /\ ChunkEnd(i) \in Nat /\ queued[i].row < ChunkEnd(i)
      /\ ChunkEnd(i) <= Len(file) /\ Chunk(i) = queued[i].row + 1 .. ChunkEnd(i)
  BY <1>1, ChunkFits
<1>4. /\ \A t \in Tally : Cardinality(Of(t)) \in Nat
      /\ ChunkEnd(i) - queued[i].row = Cardinality(Of("VALID")) + Cardinality(Of("INVALID"))
                                + Cardinality(Of("DUPLICATE")) + Cardinality(Of("SUPPRESSED"))
  <2> DEFINE class == [n \in Chunk(i) |-> ClassOf(i, n)]
  <2>1. class \in [Chunk(i) -> Tally]
    BY <1>1, ValidRows
  <2>2. IsFiniteSet(Chunk(i)) /\ Cardinality(Chunk(i)) = ChunkEnd(i) - queued[i].row
    <3>1. queued[i].row + 1 \in Int /\ ChunkEnd(i) \in Int
      BY <1>3
    <3>2. /\ IsFiniteSet(queued[i].row + 1 .. ChunkEnd(i))
          /\ Cardinality(queued[i].row + 1 .. ChunkEnd(i))
                = IF queued[i].row + 1 > ChunkEnd(i) THEN 0
                  ELSE ChunkEnd(i) - (queued[i].row + 1) + 1
      BY <3>1, FS_Interval
    <3> QED
      BY <1>3, <3>2
  <2>3. \A t : Of(t) = {n \in Chunk(i) : class[n] = t}
    OBVIOUS
  <2> HIDE DEF class, Of
  <2> QED
    BY <2>1, <2>2, <2>3, ClassesCount
<1>5. RowsCounted(i) /\ queued[i].tally \in [Tally -> Nat]
  BY <1>1, <1>2 DEF ImportFits, ImportRunFits, QueueRow
<1>6. /\ IsFiniteSet(new) /\ Cardinality(new) = Cardinality(Of("VALID"))
      /\ queued[i].seen \cap new = {}
      /\ queued[i].seen \cup new = Admitted(file, ChunkEnd(i), earlier[i])
  BY <1>1, ChunkAdmits
<1> HIDE DEF Of, new
<1>7. tally \in [Tally -> Nat]
  BY <1>4, <1>5
<1>8. TallyTotal(tally) = ChunkEnd(i)
  <2>1. \A t \in Tally : /\ tally[t] = queued[i].tally[t] + Cardinality(Of(t))
                         /\ queued[i].tally[t] \in Nat
    BY <1>5
  <2>2. Tally = {"VALID", "INVALID", "DUPLICATE", "SUPPRESSED"}
    BY DEF Tally
  <2> HIDE DEF tally
  <2>3. TallyTotal(queued[i].tally) = queued[i].row
    BY <1>5 DEF RowsCounted
  <2> DEFINE count(t) == Cardinality(Of(t))
  <2>4. /\ tally["VALID"] = queued[i].tally["VALID"] + count("VALID")
        /\ tally["INVALID"] = queued[i].tally["INVALID"] + count("INVALID")
        /\ tally["DUPLICATE"] = queued[i].tally["DUPLICATE"] + count("DUPLICATE")
        /\ tally["SUPPRESSED"] = queued[i].tally["SUPPRESSED"] + count("SUPPRESSED")
        /\ queued[i].tally["VALID"] \in Nat /\ queued[i].tally["INVALID"] \in Nat
        /\ queued[i].tally["DUPLICATE"] \in Nat /\ queued[i].tally["SUPPRESSED"] \in Nat
        /\ count("VALID") \in Nat /\ count("INVALID") \in Nat
        /\ count("DUPLICATE") \in Nat /\ count("SUPPRESSED") \in Nat
    BY <1>4, <2>1, <2>2
  <2>5. ChunkEnd(i) - queued[i].row = count("VALID") + count("INVALID")
                                        + count("DUPLICATE") + count("SUPPRESSED")
    BY <1>4
  <2> HIDE DEF count
  <2>6. TallyTotal(tally) = TallyTotal(queued[i].tally) + (ChunkEnd(i) - queued[i].row)
    BY <2>4, <2>5 DEF TallyTotal
  <2> QED
    BY <1>3, <2>3, <2>6
<1>9. /\ IsFiniteSet(queued[i].seen \cup new)
      /\ tally["VALID"] = Cardinality(queued[i].seen \cup new)
  BY <1>5, <1>6, DisjointCounts DEF RowsCounted, Tally
<1>10. queued[i].seen \cup new \in SUBSET Mailboxes
  <2>1. ASSUME NEW a \in Admitted(file, ChunkEnd(i), earlier[i])
        PROVE  a \in Mailboxes
    <3>1. PICK n \in 1 .. ChunkEnd(i) : a = file[n] /\ file[n] # Malformed
      BY <2>1 DEF Admitted
    <3>2. n \in 1 .. Len(file)
      BY <1>2, <1>3
    <3> QED
      BY <1>2, <3>1, <3>2
  <2> QED
    BY <1>6, <2>1
<1>11. at \in {"finish", "leads"} /\ (at = "finish" <=> ChunkEnd(i) = Len(file))
  OBVIOUS
<1> HIDE DEF tally, at
<1>12. /\ run \in QueueRow /\ run.state = "active" /\ run.at = at /\ run.row = ChunkEnd(i)
       /\ run.seen = queued[i].seen \cup new /\ run.tally = tally
       /\ run.stalls = queued[i].stalls
  BY <1>1, <1>2, <1>3, <1>7, <1>10, <1>11 DEF QueueRow
<1>13. /\ queued' \in [ImportIds -> QueueRow] /\ queued'[i] = run
       /\ \A j \in ImportIds \ {i} : queued'[j] = queued[j]
  BY <1>1, <1>12 DEF RowsInvariant, RowsShape
<1>14. /\ import' \in [ImportIds -> ImportRow]
       /\ import'[i].file = file /\ import'[i].status # "none" /\ import'[i].total = 0
       /\ \A j \in ImportIds \ {i} : import'[j] = import[j]
  <2>1. CASE import' = import
    BY <1>2, <2>1 DEF RowsInvariant, RowsShape
  <2>2. CASE import' = [import EXCEPT ![i].tally = tally]
    <3>1. /\ [import[i] EXCEPT !.tally = tally] \in ImportRow
          /\ [import[i] EXCEPT !.tally = tally].file = file
          /\ [import[i] EXCEPT !.tally = tally].status = import[i].status
          /\ [import[i] EXCEPT !.tally = tally].total = import[i].total
      BY <1>2, <1>7 DEF ImportRow
    <3>2. /\ import'[i] = [import[i] EXCEPT !.tally = tally]
          /\ import' \in [ImportIds -> ImportRow]
          /\ \A j \in ImportIds \ {i} : import'[j] = import[j]
      BY <2>2, <3>1 DEF RowsInvariant, RowsShape
    <3> QED
      BY <1>2, <3>1, <3>2
  <2> QED
    BY <1>1, <2>1, <2>2
<1>15. /\ DOMAIN audit' = ImportIds /\ DOMAIN audit'[i] = DOMAIN audit[i]
       /\ \A j \in ImportIds \ {i} : audit'[j] = audit[j]
       /\ \A n \in DOMAIN audit[i] :
             audit'[i][n] = audit[i][n] + IF n \in Chunk(i) THEN 1 ELSE 0
  BY <1>1 DEF RowsInvariant, RowsShape
<1>16. ASSUME NEW n \in DOMAIN audit[i]
       PROVE  /\ audit'[i][n] \in Nat
              /\ IF n <= ChunkEnd(i) THEN audit'[i][n] \in 1 .. queued[i].stalls + 1
                 ELSE audit'[i][n] <= queued[i].stalls
  <2>1. n \in Nat /\ n >= 1 /\ audit[i][n] \in Nat /\ queued[i].stalls \in Nat
    BY <1>2 DEF QueueRow
  <2>2. IF n <= queued[i].row THEN audit[i][n] \in 1 .. queued[i].stalls + 1
        ELSE audit[i][n] <= queued[i].stalls
    BY <1>1, <1>2 DEF ImportFits, ImportRunFits
  <2>3. n \in Chunk(i) <=> n > queued[i].row /\ n <= ChunkEnd(i)
    BY <1>3, <2>1
  <2>4. CASE n \in Chunk(i)
    <3>1. audit'[i][n] = audit[i][n] + 1
      BY <1>15, <2>4
    <3> QED
      BY <1>3, <2>1, <2>2, <2>3, <2>4, <3>1
  <2>5. CASE n \notin Chunk(i)
    <3>1. audit'[i][n] = audit[i][n]
      BY <1>15, <2>1, <2>5
    <3> QED
      BY <1>3, <2>1, <2>2, <2>3, <2>5, <3>1
  <2> QED
    BY <2>4, <2>5
<1> HIDE DEF run, file
<1>17. RowsCounted(i)'
  BY <1>1, <1>6, <1>8, <1>9, <1>12, <1>13, <1>14 DEF RowsCounted
<1>18. ImportRunFits(i)'
  BY <1>2, <1>3, <1>11, <1>12, <1>13, <1>14, <1>15, <1>16, <1>17 DEF ImportRunFits
<1>19. UNCHANGED <<calling, imported, screened, earlier>>
       /\ queued[i].state # "absent" /\ queued'[i].state = "active"
       /\ queued'[i].row <= Len(file) /\ import[i].file = file
  BY <1>1, <1>3, <1>12, <1>13 DEF file
<1>20. /\ earlier' \in [ImportIds -> SUBSET Mailboxes] /\ imported' \subseteq Mailboxes
       /\ screened' \subseteq Mailboxes
  BY <1>19 DEF RowsInvariant, RowsShape
<1>21. /\ import'[i].total = 0 /\ queued'[i].state # "waiting" /\ queued'[i].state # "failed"
       /\ ~(import'[i].total > 0) /\ import'[i].file = import[i].file
       /\ queued'[i].row <= Len(import[i].file)
  BY <1>14, <1>19
<1> QED
  BY <1>13, <1>14, <1>15, <1>16, <1>18, <1>19, <1>20, <1>21, RunMoves

LEMMA FinishFits ==
    ASSUME RowsInvariant, NEW i \in ImportIds, FinishImport(i)
    PROVE  RowsInvariant'
<1> DEFINE row == [import[i] EXCEPT !.status = "COMPLETED", !.tally = queued[i].tally,
                                    !.total = Len(import[i].file)]
<1>1. /\ queued[i].state = "active" /\ queued[i].at = "finish"
      /\ import' = [import EXCEPT ![i].status = "COMPLETED", ![i].tally = queued[i].tally,
                                  ![i].total = Len(import[i].file)]
      /\ queued' = Dequeued(i, "absent")
      /\ UNCHANGED <<calling, imported, screened, audit, earlier>>
  BY DEF FinishImport, RunAt, ImportHistory
<1>2. /\ import[i] \in ImportRow /\ queued[i] \in QueueRow /\ ImportFits(i)
      /\ import[i].file \in Seq(Mailboxes \cup {Malformed})
      /\ Len(import[i].file) \in Nat /\ DOMAIN audit[i] = 1 .. Len(import[i].file)
      /\ \A n \in DOMAIN audit[i] : audit[i][n] \in Nat
      /\ queued[i].tally \in [Tally -> Nat]
  BY <1>1, QueuedIsCreated DEF QueueRow
<1>3. /\ row \in ImportRow /\ row.status = "COMPLETED" /\ row.file = import[i].file
      /\ row.tally = queued[i].tally /\ row.total = Len(import[i].file)
  BY <1>2 DEF ImportRow, ImportStatus
<1>4. /\ import' \in [ImportIds -> ImportRow] /\ import'[i] = row
      /\ \A j \in ImportIds \ {i} : import'[j] = import[j]
  BY <1>1, <1>3 DEF RowsInvariant, RowsShape
<1> HIDE DEF row
<1>5. /\ queued' \in [ImportIds -> QueueRow]
      /\ queued'[i].state = "absent" /\ queued'[i].row = 0
      /\ queued'[i].stalls = queued[i].stalls
      /\ \A j \in ImportIds \ {i} : queued'[j] = queued[j]
  BY <1>1, DequeuedRow DEF RowsInvariant
<1>6. /\ RowsCounted(i) /\ queued[i].row = Len(import[i].file)
      /\ \A n \in DOMAIN audit[i] : audit[i][n] \in 1 .. queued[i].stalls + 1
  BY <1>1, <1>2 DEF ImportFits, ImportRunFits
<1>7. queued[i].seen = ToSet(import[i].file) \ ({Malformed} \cup earlier[i])
  <2>1. ToSet(import[i].file) = {import[i].file[n] : n \in 1 .. Len(import[i].file)}
    BY <1>2 DEF ToSet
  <2> QED
    BY <1>6, <2>1 DEF RowsCounted, Admitted
<1>8. FiguresFit(i)'
  <2>1. /\ import'[i].total = Len(import[i].file) /\ import'[i].tally = queued[i].tally
        /\ import'[i].file = import[i].file
    BY <1>3, <1>4
  <2>2. /\ TallyTotal(queued[i].tally) = Len(import[i].file)
        /\ queued[i].tally["VALID"]
              = Cardinality(ToSet(import[i].file) \ ({Malformed} \cup earlier[i]))
    BY <1>6, <1>7 DEF RowsCounted
  <2>3. UNCHANGED <<audit, earlier>>
    BY <1>1
  <2> QED
    BY <1>5, <1>6, <2>1, <2>2, <2>3 DEF FiguresFit
<1>9. /\ queued[i].state # "absent" /\ UNCHANGED <<calling, audit>>
      /\ earlier' \in [ImportIds -> SUBSET Mailboxes] /\ imported' \subseteq Mailboxes
      /\ screened' \subseteq Mailboxes /\ earlier' = earlier /\ DOMAIN audit' = ImportIds
  BY <1>1 DEF RowsInvariant, RowsShape
<1>10. import'[i].file = import[i].file /\ import'[i].status # "none"
       /\ queued'[i].row <= Len(import[i].file)
  BY <1>2, <1>3, <1>4, <1>5
<1>11. \A j \in ImportIds \ {i} : /\ import'[j] = import[j] /\ queued'[j] = queued[j]
                                   /\ audit'[j] = audit[j] /\ earlier'[j] = earlier[j]
  BY <1>4, <1>5, <1>9
<1>12. /\ DOMAIN audit'[i] = DOMAIN audit[i] /\ \A n \in DOMAIN audit[i] : audit'[i][n] \in Nat
       /\ queued'[i].state \notin {"waiting", "active", "failed"}
  BY <1>2, <1>5, <1>9
<1> QED
  BY <1>4, <1>5, <1>8, <1>9, <1>10, <1>11, <1>12, RunMoves

LEMMA FailsFit ==
    ASSUME RowsInvariant, NEW i \in ImportIds, ImportFails(i)
    PROVE  RowsInvariant'
<1>1. /\ queued[i].state = "active" /\ queued' = Dequeued(i, "failed")
      /\ UNCHANGED <<import, calling, imported, screened, audit, earlier>>
  BY DEF ImportFails
<1>2. /\ import[i].status # "none" /\ import[i].total = 0 /\ ImportFits(i)
      /\ Len(import[i].file) \in Nat
      /\ \A n \in DOMAIN audit[i] : audit[i][n] \in Nat
  BY <1>1, QueuedIsCreated
<1>3. /\ queued' \in [ImportIds -> QueueRow]
      /\ queued'[i].state = "failed" /\ queued'[i].row = 0
      /\ \A j \in ImportIds \ {i} : queued'[j] = queued[j]
  BY <1>1, DequeuedRow DEF RowsInvariant
<1> QED
  BY <1>1, <1>2, <1>3, RunMoves DEF RowsInvariant, RowsShape

LEMMA WorkerCrashFits ==
    ASSUME RowsInvariant, ImportWorkerCrash
    PROVE  RowsInvariant'
<1> DEFINE Again(i) == [NotQueued EXCEPT !.stalls = queued[i].stalls + 1,
                          !.state = IF queued[i].stalls < ImportStalls THEN "waiting"
                                    ELSE "failed"]
<1>1. /\ queued' = [i \in ImportIds |-> IF queued[i].state # "active" THEN queued[i]
                                        ELSE Again(i)]
      /\ UNCHANGED <<import, calling, imported, screened, audit, earlier>>
  BY DEF ImportWorkerCrash
<1>2. ASSUME NEW i \in ImportIds
      PROVE  /\ Again(i) \in QueueRow /\ Again(i).state \in {"waiting", "failed"}
             /\ Again(i).row = 0 /\ Again(i).seen = {} /\ Again(i).tally = NoTally
             /\ Again(i).stalls = queued[i].stalls + 1 /\ queued[i].stalls \in Nat
  <2>1. queued[i] \in QueueRow /\ queued[i].stalls \in Nat
    BY DEF RowsInvariant, RowsShape, QueueRow
  <2>2. queued[i].stalls + 1 \in Nat
    BY <2>1
  <2> QED
    BY <2>1, <2>2, FirstRows DEF NotQueued, QueueRow
<1> HIDE DEF Again
<1>3. RowsShape'
  <2>1. queued' \in [ImportIds -> QueueRow]
    BY <1>1, <1>2 DEF RowsInvariant, RowsShape
  <2> QED
    BY <1>1, <2>1 DEF RowsInvariant, RowsShape
<1>4. ASSUME NEW i \in ImportIds
      PROVE  ImportFits(i)'
  <2>1. CASE queued[i].state # "active"
    <3>1. queued'[i] = queued[i]
      BY <1>1, <2>1
    <3> QED
      BY <1>1, <3>1, ImportStays DEF RowsInvariant
  <2>2. CASE queued[i].state = "active"
    <3>1. /\ import[i].status # "none" /\ import[i].total = 0
          /\ Len(import[i].file) \in Nat /\ ImportRunFits(i) /\ queued[i].row \in Nat
          /\ \A n \in DOMAIN audit[i] : audit[i][n] \in Nat
          /\ \A q \in calling : q.of = i => q.op # "create"
      BY <2>2, QueuedIsCreated DEF ImportFits, QueueRow
    <3>2. queued'[i] = Again(i)
      BY <1>1, <2>2
    <3>3. \A n \in DOMAIN audit[i] : audit[i][n] <= queued[i].stalls + 1
      BY <1>2, <3>1 DEF ImportRunFits
    <3> QED
      BY <1>1, <1>2, <3>1, <3>2, <3>3 DEF ImportFits
  <2> QED
    BY <2>1, <2>2
<1> QED
  BY <1>3, <1>4 DEF RowsInvariant

LEMMA RowsStep ==
    ASSUME RowsInvariant, [ImportsNext]_importsVars
    PROVE  RowsInvariant'
<1>1. CASE UNCHANGED importsVars \/ \E a \in Mailboxes : ScreenAddress(a)
  <2>1. UNCHANGED <<import, queued, calling, imported, audit, earlier>>
        /\ screened' \subseteq Mailboxes
    BY <1>1 DEF ScreenAddress, ImportHistory, importsVars, RowsInvariant, RowsShape
  <2>2. RowsShape'
    BY <2>1 DEF RowsInvariant, RowsShape
  <2>3. \A i \in ImportIds : ImportFits(i)'
    BY <2>1, ImportStays DEF RowsInvariant
  <2> QED
    BY <2>2, <2>3 DEF RowsInvariant
<1> QED
  BY <1>1, CreateFits, EnqueueFits, AskCancelFits, MarkCancelledFits, RemoveFits, StartFits,
     LoadFits, LeadsFit, RowsFit, FinishFits, FailsFit, WorkerCrashFits
     DEF ImportsNext, ImportCall, ImportRun

LEMMA RowsHold == ImportsSpec => []RowsInvariant
  BY RowsStart, RowsStep, PTL DEF ImportsSpec

(***************************************************************************)
(* The figures of a finished import account for every row of its file      *)
(* once, and for every distinct unlisted address once: for any file, any   *)
(* chunk size, crashes and cancels between the steps of its runs, and      *)
(* addresses listed meanwhile (csv-import.processor:84-157).               *)
(***************************************************************************)
THEOREM ImportsAccountForRows == ImportsSpec => []ImportAccountsForRows
<1>1. RowsInvariant => ImportAccountsForRows
  BY DEF RowsInvariant, ImportFits, FiguresFit, ImportAccountsForRows, TallyTotal
<1> QED
  BY <1>1, RowsHold, PTL

(***************************************************************************)
(* No step of a request or a run leaves the values of the columns, and a   *)
(* run never reads past its file.                                          *)
(***************************************************************************)
THEOREM ImportsAreTyped == ImportsSpec => []ImportsTypeOK
<1>1. RowsInvariant => ImportsTypeOK
  <2> SUFFICES ASSUME RowsInvariant PROVE ImportsTypeOK
    OBVIOUS
  <2>1. ASSUME NEW i \in ImportIds
        PROVE  /\ import[i] \in ImportRow /\ queued[i] \in QueueRow
               /\ queued[i].row <= Len(import[i].file)
    BY DEF RowsInvariant, RowsShape, ImportFits
  <2> QED
    BY <2>1 DEF ImportRow, QueueRow, ImportsTypeOK, RowsInvariant, RowsShape
<1> QED
  BY <1>1, RowsHold, PTL

=============================================================================

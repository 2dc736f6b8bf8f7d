------------------------------- MODULE Imports ------------------------------
(***************************************************************************)
(* CSV imports: the request that creates an importJob row and queues it,   *)
(* the one that cancels it, and the processor that reads the file in       *)
(* chunks.  The status column is written by all three without a look at    *)
(* what it holds; addresses may be listed while the file is read.          *)
(***************************************************************************)
EXTENDS Naturals, FiniteSets, Sequences, SequencesExt

CONSTANTS
    ImportIds,      \* importJob ids that can be created
    Mailboxes,      \* well-formed addresses of files
    Malformed,      \* what fails the syntax check
    Files,          \* the files people upload: sequences of rows
    ChunkSize,      \* CHUNK_SIZE
    ImportStalls,   \* BullMQ's maxStalledCount
    MaxImportFaults \* bound: crashes and failing calls

ASSUME ImportsBounds ==
    /\ {ImportStalls, MaxImportFaults} \subseteq Nat /\ ChunkSize \in Nat \ {0}
    /\ Malformed \notin Mailboxes
    /\ \A f \in Files : f \in Seq(Mailboxes \cup {Malformed})

VARIABLES
    import,    \* id -> the importJob row, or NoImport
    queued,    \* id -> its BullMQ job: state, and where a run is
    calling,   \* create and cancel requests in flight
    imported,  \* addresses with a lead row
    screened,  \* addresses on the suppression list
    audit,     \* id -> importRow rows written, by row of the file
    (* History *)
    earlier,   \* id -> addresses listed when its latest run read the list
    cancelled, \* ids whose cancel request returned without an error
    early,     \* ids cancelled before their job was queued
    importFaults

importsVars == <<import, queued, calling, imported, screened, audit, earlier,
                 cancelled, early, importFaults>>

-----------------------------------------------------------------------------
(* Values *)

ImportStatus == {"PENDING", "PROCESSING", "COMPLETED", "FAILED", "CANCELLED"}
Tally == {"VALID", "INVALID", "DUPLICATE", "SUPPRESSED"}
NoTally == [t \in Tally |-> 0]
NoImport == [status |-> "none", file |-> <<>>, total |-> 0, tally |-> NoTally]
NotQueued == [state |-> "absent", at |-> "start", row |-> 0, seen |-> {},
              tally |-> NoTally, stalls |-> 0]

ImportsTypeOK ==
    /\ \A i \in ImportIds : import[i].status \in ImportStatus \cup {"none"}
    /\ \A i \in ImportIds :
          /\ queued[i].state \in {"absent", "waiting", "active", "failed"}
          /\ queued[i].at \in {"start", "load", "leads", "rows", "finish"}
          /\ queued[i].row <= Len(import[i].file)
    /\ imported \cup screened \subseteq Mailboxes

ImportsInit ==
    /\ import = [i \in ImportIds |-> NoImport]
    /\ queued = [i \in ImportIds |-> NotQueued]
    /\ calling = {}
    /\ imported = {}
    /\ screened = {}
    /\ audit = [i \in ImportIds |-> <<>>]
    /\ earlier = [i \in ImportIds |-> {}]
    /\ cancelled = {}
    /\ early = {}
    /\ importFaults = 0

-----------------------------------------------------------------------------
(* imports.service *)

ImportHistory == <<earlier, importFaults>>

CreateImport(i, file) ==
    /\ import[i] = NoImport
    /\ import' = [import EXCEPT ![i] = [NoImport EXCEPT !.status = "PENDING", !.file = file]]
    /\ audit' = [audit EXCEPT ![i] = [n \in 1 .. Len(file) |-> 0]]
    /\ calling' = calling \cup {[op |-> "create", of |-> i, at |-> "enqueue"]}
    /\ UNCHANGED <<queued, imported, screened, cancelled, early, ImportHistory>>

EnqueueImport(q) ==
    /\ q \in calling /\ q.at = "enqueue"
    /\ queued' = [queued EXCEPT ![q.of] = [NotQueued EXCEPT !.state = "waiting"]]
    /\ calling' = calling \ {q}
    /\ UNCHANGED <<import, imported, screened, audit, cancelled, early, ImportHistory>>

AskCancel(i) ==
    /\ import[i].status \in {"PENDING", "PROCESSING", "CANCELLED"}
    /\ \A q \in calling : q.op = "create" \/ q.of # i
    /\ calling' = calling \cup {[op |-> "cancel", of |-> i, at |-> "mark"]}
    /\ UNCHANGED <<import, queued, imported, screened, audit, cancelled, early, ImportHistory>>

\* The status read before may have become COMPLETED meanwhile.
MarkCancelled(q) ==
    /\ q \in calling /\ q.at = "mark"
    /\ import' = [import EXCEPT ![q.of].status = "CANCELLED"]
    /\ calling' = (calling \ {q}) \cup {[q EXCEPT !.at = "remove"]}
    /\ UNCHANGED <<queued, imported, screened, audit, cancelled, early, ImportHistory>>

\* A job that is over, or gone: how often it stalled stays known.
Dequeued(i, state) ==
    [queued EXCEPT ![i] = [NotQueued EXCEPT !.state = state, !.stalls = queued[i].stalls]]

\* Mutant: the job is left in the queue.
RemoveNothing(q) ==
    /\ q \in calling /\ q.at = "remove"
    /\ cancelled' = cancelled \cup {q.of}
    /\ calling' = calling \ {q}
    /\ UNCHANGED <<import, queued, imported, screened, audit, early, ImportHistory>>

\* A waiting or failed job goes; removing an active one throws, with the row
\* already CANCELLED; a job not queued yet is not found.
RemoveFromQueue(q) ==
    /\ q \in calling /\ q.at = "remove"
    /\ LET active == queued[q.of].state = "active"
       IN  /\ queued' = IF active THEN queued ELSE Dequeued(q.of, "absent")
           /\ cancelled' = IF active THEN cancelled ELSE cancelled \cup {q.of}
    /\ early' = IF \E p \in calling : p.op = "create" /\ p.of = q.of
                THEN early \cup {q.of} ELSE early
    /\ calling' = calling \ {q}
    /\ UNCHANGED <<import, imported, screened, audit, ImportHistory>>

-----------------------------------------------------------------------------
(* csv-import.processor *)

RunAt(i, at) == queued[i].state = "active" /\ queued[i].at = at
RunGoto(i, at) == queued' = [queued EXCEPT ![i].at = at]

StartImport(i) ==
    /\ queued[i].state = "waiting"
    /\ import' = [import EXCEPT ![i].status = "PROCESSING"]
    /\ queued' = [queued EXCEPT ![i].state = "active", ![i].at = "load"]
    /\ UNCHANGED <<calling, imported, screened, audit, cancelled, early, ImportHistory>>

\* The suppression list is read once, before the first row.
LoadSuppressions(i) ==
    /\ RunAt(i, "load")
    /\ earlier' = [earlier EXCEPT ![i] = screened]
    /\ RunGoto(i, IF import[i].file = <<>> THEN "finish" ELSE "leads")
    /\ UNCHANGED <<import, calling, imported, screened, audit, cancelled, early,
                   importFaults>>

\* Mutant: the addresses seen are those of the chunk.
SeenInChunk(i) == {}

\* Addresses of the rows this run read before.
Seen(i) == queued[i].seen

\* What processChunk says of row n: the checks in their order.
ClassOf(i, n) ==
    LET row == import[i].file[n]
        first == queued[i].row + 1
    IN  CASE row = Malformed          -> "INVALID"
          [] row \in earlier[i]       -> "SUPPRESSED"
          [] \/ row \in Seen(i)
             \/ \E k \in first .. n - 1 : import[i].file[k] = row -> "DUPLICATE"
          [] OTHER                    -> "VALID"

ChunkEnd(i) ==
    LET left == Len(import[i].file) - queued[i].row
    IN  queued[i].row + (IF left < ChunkSize THEN left ELSE ChunkSize)
Chunk(i) == queued[i].row + 1 .. ChunkEnd(i)

\* createMany with skipDuplicates: an address with a lead row keeps it, and
\* counts as valid all the same.
InsertLeads(i) ==
    /\ RunAt(i, "leads")
    /\ imported' = imported \cup
          {import[i].file[n] : n \in {k \in Chunk(i) : ClassOf(i, k) = "VALID"}}
    /\ RunGoto(i, "rows")
    /\ UNCHANGED <<import, calling, screened, audit, cancelled, early, earlier, importFaults>>

\* A row of the file each, then the figures so far if the chunk was a full one.
InsertRows(i) ==
    /\ RunAt(i, "rows")
    /\ LET last == ChunkEnd(i) = Len(import[i].file)
           full == Cardinality(Chunk(i)) = ChunkSize
           tally == [t \in Tally |-> queued[i].tally[t] +
                        Cardinality({n \in Chunk(i) : ClassOf(i, n) = t})]
       IN  /\ queued' = [queued EXCEPT ![i].row = ChunkEnd(i), ![i].tally = tally,
                             ![i].seen = @ \cup {import[i].file[n] : n \in
                                            {k \in Chunk(i) : ClassOf(i, k) = "VALID"}},
                             ![i].at = IF last THEN "finish" ELSE "leads"]
           /\ import' = IF full THEN [import EXCEPT ![i].tally = tally] ELSE import
    /\ audit' = [audit EXCEPT ![i] = [n \in DOMAIN audit[i] |->
                     audit[i][n] + IF n \in Chunk(i) THEN 1 ELSE 0]]
    /\ UNCHANGED <<calling, imported, screened, cancelled, early, ImportHistory>>

\* COMPLETED over whatever the row says; BullMQ removes the job.
FinishImport(i) ==
    /\ RunAt(i, "finish")
    /\ import' = [import EXCEPT ![i].status = "COMPLETED", ![i].tally = queued[i].tally,
                                ![i].total = Len(import[i].file)]
    /\ queued' = Dequeued(i, "absent")
    /\ UNCHANGED <<calling, imported, screened, audit, cancelled, early, ImportHistory>>

\* The storage or the database fails, or a row does not parse: the row stays
\* PROCESSING for good.
ImportFails(i) ==
    /\ queued[i].state = "active"
    /\ importFaults < MaxImportFaults /\ importFaults' = importFaults + 1
    /\ queued' = Dequeued(i, "failed")
    /\ UNCHANGED <<import, calling, imported, screened, audit, cancelled, early,
                   earlier>>

ImportWorkerCrash ==
    /\ \E i \in ImportIds : queued[i].state = "active"
    /\ importFaults < MaxImportFaults /\ importFaults' = importFaults + 1
    /\ queued' = [i \in ImportIds |->
          IF queued[i].state # "active" THEN queued[i]
          ELSE [NotQueued EXCEPT !.stalls = queued[i].stalls + 1,
                   !.state = IF queued[i].stalls < ImportStalls THEN "waiting" ELSE "failed"]]
    /\ UNCHANGED <<import, calling, imported, screened, audit, cancelled, early,
                   earlier>>

\* Anybody lists an address meanwhile.
ScreenAddress(a) ==
    /\ a \notin screened
    /\ screened' = screened \cup {a}
    /\ UNCHANGED <<import, queued, calling, imported, audit, cancelled, early, ImportHistory>>

-----------------------------------------------------------------------------
(* Specification *)

ImportCall ==
    \/ \E i \in ImportIds : \/ AskCancel(i)
                            \/ \E f \in Files : CreateImport(i, f)
    \/ \E q \in calling : EnqueueImport(q) \/ MarkCancelled(q) \/ RemoveFromQueue(q)

ImportRun(i) ==
    \/ StartImport(i) \/ LoadSuppressions(i) \/ InsertLeads(i)
    \/ InsertRows(i) \/ FinishImport(i) \/ ImportFails(i)

ImportsNext ==
    \/ ImportCall
    \/ \E i \in ImportIds : ImportRun(i)
    \/ \E a \in Mailboxes : ScreenAddress(a)
    \/ ImportWorkerCrash

ImportsSpec == ImportsInit /\ [][ImportsNext]_importsVars

-----------------------------------------------------------------------------
(* Properties *)

\* The figures of a finished import account for every row of its file once, and
\* as many rows are valid as the file has distinct unlisted addresses; a row has
\* an importRow for each run that reached it, a second one only after a crash
\* (csv-import.processor:84-157).
ImportAccountsForRows ==
    \A i \in ImportIds :
        LET row == import[i]
        IN  row.total > 0 =>
              /\ row.total = row.tally["VALID"] + row.tally["INVALID"]
                               + row.tally["DUPLICATE"] + row.tally["SUPPRESSED"]
              /\ row.tally["VALID"] =
                     Cardinality(ToSet(row.file) \ ({Malformed} \cup earlier[i]))
              /\ \A n \in DOMAIN audit[i] : audit[i][n] \in 1 .. queued[i].stalls + 1

\* A cancel that succeeded ends the import: its job is gone and cannot come back,
\* unless the cancel overtook the request that queues it
\* (imports.service:115-127).
CancelledStaysQuiet ==
    \A i \in cancelled \ early : queued[i].state = "absent"

=============================================================================

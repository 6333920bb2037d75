------------------------------- MODULE Outputs -------------------------------
(***************************************************************************)
(* The output segments json, csv, http, sqlite, clickhouse, mongodb,       *)
(* kafkaproducer and influx: when a flow is formatted, stored and handed   *)
(* on, and what becomes of it when In is closed.  "zstd" is json with the  *)
(* option of that name.                                                    *)
(*                                                                         *)
(* The next segment gets a pointer to the same message and may modify it,  *)
(* so that it matters when an output looks at a flow: a stored entry is    *)
(* the flow and the version it had then, 0 as it came in and 1 after the   *)
(* next segment changed it.                                                *)
(***************************************************************************)
EXTENDS Naturals, Sequences, FiniteSets, Functions

CONSTANTS
    Kinds,       \* the segments to look at
    BatchSize,   \* option "batchsize" of the databases
    MaxFlows,    \* bound: flows that arrive
    MaxFaults    \* bound: errors of marshalling, files, servers and databases

ASSUME OutputsAssumption == BatchSize \in Nat \ {0} /\ MaxFlows \in Nat /\ MaxFaults \in Nat

VARIABLES
    kind,      \* the segment
    arrived,   \* flows received from In so far: the flows are 1..arrived
    inClosed,  \* In is closed
    run,       \* where Run is
    ver,       \* version of each flow
    out,       \* flows handed to the next segment
    batch,     \* flows in `unsaved` of sqlite and clickhouse
    buffer,    \* entries in the writer of csv, the zstd encoder, the producer or influx' WriteAPI
    slice,     \* mongodb: unsavedFlowData, shared by the two goroutines
    prep,      \* mongodb: prepareDataForBulkInsert, its next slot and the flow in hand
    ins,       \* mongodb: the slot bulkInsert stores next, 0 if it waits
    overlap,   \* mongodb: a slot was written while bulkInsert was reading
    dest,      \* the entries in the file or database
    faults,    \* errors so far
    proc       \* "up" or "panic"

flowVars == <<arrived, inClosed, ver, out>>
mongoVars == <<slice, prep, ins, overlap>>
vars == <<kind, flowVars, run, batch, buffer, mongoVars, dest, faults, proc>>

Flows == 1..MaxFlows
Slots == 1..BatchSize
NoEntry == <<0, 0>>
Entry(f) == <<f, ver[f]>>

Init ==
    /\ kind \in Kinds
    /\ arrived = 0 /\ inClosed = FALSE /\ ver = [f \in Flows |-> 0] /\ out = {}
    /\ run = "recv"
    /\ batch = <<>> /\ buffer = <<>>
    /\ slice = [i \in Slots |-> NoEntry]
    /\ prep = [pc |-> "recv", slot |-> 1, flow |-> 0] /\ ins = 0 /\ overlap = FALSE
    /\ dest = <<>> /\ faults = 0 /\ proc = "up"

\* Faulty: csv hands a flow on before it formats it.
ForwardsFirst_Csv == kind \in {"kafkaproducer", "influx", "csv"}

\* kafkaproducer and influx send a flow to Out before they look at it, the others afterwards.
ForwardsFirst == kind \in {"kafkaproducer", "influx"}

Step(pc) == proc = "up" /\ run = pc
Fault == faults < MaxFaults /\ faults' = faults + 1

----------------------------------------------------------------------------
\* The loop over In, common to all.

Receive ==
    /\ Step("recv") /\ ~inClosed /\ arrived < MaxFlows
    /\ arrived' = arrived + 1
    /\ run' = IF ForwardsFirst THEN "out" ELSE "write"
    /\ UNCHANGED <<kind, inClosed, ver, out, batch, buffer, mongoVars, dest, faults, proc>>

Forward ==
    /\ Step("out")
    /\ out' = out \cup {arrived}
    /\ run' = IF ForwardsFirst THEN "write" ELSE "recv"
    /\ UNCHANGED <<kind, arrived, inClosed, ver, batch, buffer, mongoVars, dest, faults, proc>>

AfterWrite == IF ForwardsFirst THEN "recv" ELSE "out"

\* The next segment changes a flow it has received.
Modify(f) ==
    /\ proc = "up" /\ f \in out /\ ver[f] = 0
    /\ ver' = [ver EXCEPT ![f] = 1]
    /\ UNCHANGED <<kind, arrived, inClosed, out, run, batch, buffer, mongoVars, dest, faults, proc>>

CloseIn ==
    /\ proc = "up" /\ ~inClosed
    /\ inClosed' = TRUE
    /\ UNCHANGED <<kind, arrived, ver, out, run, batch, buffer, mongoVars, dest, faults, proc>>

----------------------------------------------------------------------------
\* json, http: the flow is marshalled and written, flushed or posted, at once.

WriteNow ==
    /\ Step("write") /\ kind \in {"json", "http"}
    /\ dest' = Append(dest, Entry(arrived))
    /\ run' = AfterWrite
    /\ UNCHANGED <<kind, flowVars, batch, buffer, mongoVars, faults, proc>>

\* http: the server cannot be reached or refuses the flow, which is handed on all the same.
PostFails ==
    /\ Step("write") /\ kind = "http" /\ Fault
    /\ run' = AfterWrite
    /\ UNCHANGED <<kind, flowVars, batch, buffer, mongoVars, dest, proc>>

\* The flow cannot be marshalled (or not be written, json): `continue`, the flow is not handed on,
\* or was handed on before (kafkaproducer).
MarshalFails ==
    /\ Step("write") /\ kind \in {"json", "zstd", "http", "kafkaproducer"} /\ Fault
    /\ run' = "recv"
    /\ UNCHANGED <<kind, flowVars, batch, buffer, mongoVars, dest, proc>>

----------------------------------------------------------------------------
\* csv, zstd, kafkaproducer, influx: the entry goes to a writer that stores it later.

WriteBuffered ==
    /\ Step("write") /\ kind \in {"csv", "zstd", "kafkaproducer", "influx"}
    /\ buffer' = Append(buffer, Entry(arrived))
    /\ run' = AfterWrite
    /\ UNCHANGED <<kind, flowVars, batch, mongoVars, dest, faults, proc>>

\* The writer stores its oldest entry, as long as the process runs.
Flush ==
    /\ proc = "up" /\ run # "done" /\ buffer # <<>>
    /\ buffer' = Tail(buffer)
    /\ dest' = Append(dest, Head(buffer))
    /\ UNCHANGED <<kind, flowVars, run, batch, mongoVars, faults, proc>>

\* Run uses the producer whether NewAsyncProducer has returned one or an error.
NoProducer ==
    /\ Step("write") /\ kind = "kafkaproducer" /\ arrived = 1 /\ Fault
    /\ proc' = "panic"
    /\ UNCHANGED <<kind, flowVars, run, batch, buffer, mongoVars, dest>>

\* The broker or the server does not take it: nobody is told (Return.Errors = false).
FlushFails ==
    /\ proc = "up" /\ run # "done" /\ buffer # <<>> /\ kind \in {"kafkaproducer", "influx"} /\ Fault
    /\ buffer' = Tail(buffer)
    /\ UNCHANGED <<kind, flowVars, run, batch, mongoVars, dest, proc>>

----------------------------------------------------------------------------
\* sqlite, clickhouse: a transaction per batch.

\* The database cannot be opened or the table not be created: log.Panic.
OpenFails ==
    /\ Step("recv") /\ arrived = 0 /\ kind \in {"sqlite", "clickhouse", "mongodb"} /\ Fault
    /\ proc' = "panic"
    /\ UNCHANGED <<kind, flowVars, run, batch, buffer, mongoVars, dest>>

\* bulkInsert(flows). clickhouse binds it to a copy of the segment that has no database yet
\* (clickhouse.go:121). If Begin fails the nil transaction is used; if an Exec or Commit fails,
\* some or all of the flows are not stored.
BulkInsert(flows) ==
    \/ flows = <<>> /\ UNCHANGED <<dest, faults, proc>>
    \/ flows # <<>> /\ kind = "clickhouse" /\ proc' = "panic" /\ UNCHANGED <<dest, faults>>
    \/ /\ flows # <<>> /\ kind = "sqlite"
       /\ \/ dest' = dest \o [i \in DOMAIN flows |-> Entry(flows[i])] /\ UNCHANGED <<faults, proc>>
          \/ Fault /\ proc' = "panic" /\ UNCHANGED dest
          \/ /\ Fault /\ UNCHANGED proc
             /\ \E lost \in SUBSET Range(flows) \ {{}} :
                    LET kept == SelectSeq(flows, LAMBDA f : f \notin lost)
                    IN  dest' = dest \o [i \in DOMAIN kept |-> Entry(kept[i])]

\* Faulty: `unsaved` is not emptied after it has been stored.
WriteBatch_Kept ==
    /\ Step("write") /\ kind \in {"sqlite", "clickhouse"}
    /\ batch' = Append(batch, arrived)
    /\ IF Len(batch') >= BatchSize THEN BulkInsert(batch') ELSE UNCHANGED <<dest, faults, proc>>
    /\ run' = AfterWrite
    /\ UNCHANGED <<kind, flowVars, buffer, mongoVars>>

\* A batch below the limit is kept; at the limit it is stored before the last flow is handed on.
WriteBatch ==
    /\ Step("write") /\ kind \in {"sqlite", "clickhouse"}
    /\ LET unsaved == Append(batch, arrived)
       IN  IF Len(unsaved) >= BatchSize THEN BulkInsert(unsaved) /\ batch' = <<>>
                                        ELSE batch' = unsaved /\ UNCHANGED <<dest, faults, proc>>
    /\ run' = AfterWrite
    /\ UNCHANGED <<kind, flowVars, buffer, mongoVars>>

----------------------------------------------------------------------------
\* mongodb: two goroutines behind Run and a slice they share.

\* messagesToSave <- msg, without a buffer.
Hand ==
    /\ Step("write") /\ kind = "mongodb" /\ prep.pc = "recv"
    /\ prep' = [prep EXCEPT !.pc = "format", !.flow = arrived]
    /\ run' = AfterWrite
    /\ UNCHANGED <<kind, flowVars, batch, buffer, slice, ins, overlap, dest, faults, proc>>

Format ==
    /\ proc = "up" /\ prep.pc = "format"
    /\ slice' = [slice EXCEPT ![prep.slot] = Entry(prep.flow)]
    /\ overlap' = (overlap \/ ins # 0)
    /\ prep' = [prep EXCEPT !.pc = IF prep.slot = BatchSize THEN "send" ELSE "recv", !.slot = prep.slot + 1]
    /\ UNCHANGED <<kind, flowVars, run, batch, buffer, ins, dest, faults, proc>>

\* Faulty: bulkInsert takes a batch when Run ends.
HandBatch_AtEnd ==
    /\ proc = "up" /\ prep.pc = "send" /\ run = "done"
    /\ ins' = 1
    /\ prep' = [prep EXCEPT !.pc = "recv", !.slot = 1]
    /\ UNCHANGED <<kind, flowVars, run, batch, buffer, slice, overlap, dest, faults, proc>>

\* unsavedJsonFlows <- unsavedFlowData: the slice is handed over and filled again from the front.
HandBatch ==
    /\ proc = "up" /\ prep.pc = "send" /\ ins = 0
    /\ ins' = 1
    /\ prep' = [prep EXCEPT !.pc = "recv", !.slot = 1]
    /\ UNCHANGED <<kind, flowVars, run, batch, buffer, slice, overlap, dest, faults, proc>>

\* InsertMany takes the documents from the slice; Run's Disconnect ends it.
InsertDoc ==
    /\ proc = "up" /\ run # "done" /\ ins # 0
    /\ dest' = Append(dest, slice[ins])
    /\ ins' = (ins + 1) % (BatchSize + 1)
    /\ UNCHANGED <<kind, flowVars, run, batch, buffer, slice, prep, overlap, faults, proc>>

InsertFails ==
    /\ proc = "up" /\ run # "done" /\ ins # 0 /\ Fault
    /\ ins' = 0
    /\ UNCHANGED <<kind, flowVars, run, batch, buffer, slice, prep, overlap, dest, proc>>

\* Faulty: Run returns without storing what it still holds.
Return_Forgets ==
    /\ Step("recv") /\ inClosed
    /\ run' = "done"
    /\ UNCHANGED <<kind, flowVars, batch, buffer, mongoVars, dest, faults, proc>>

----------------------------------------------------------------------------
\* In is closed: csv and influx flush, sqlite and clickhouse store the incomplete batch. Nobody
\* closes the zstd encoder or the producer, nor the channels of mongodb.
Return ==
    /\ Step("recv") /\ inClosed
    /\ run' = "done"
    /\ IF kind \in {"csv", "influx"}
       THEN dest' = dest \o buffer /\ buffer' = <<>> /\ UNCHANGED <<batch, faults, proc>>
       ELSE BulkInsert(batch) /\ batch' = <<>> /\ UNCHANGED buffer
    /\ UNCHANGED <<kind, flowVars, mongoVars>>

RunNext ==
    \/ Receive \/ Forward \/ Return
    \/ WriteNow \/ PostFails \/ MarshalFails \/ WriteBuffered \/ NoProducer
    \/ OpenFails \/ WriteBatch \/ Hand
MongoNext == Format \/ HandBatch \/ InsertDoc \/ InsertFails

Next ==
    \/ RunNext \/ MongoNext \/ Flush \/ FlushFails
    \/ \E f \in Flows : Modify(f)
    \/ CloseIn

Spec == Init /\ [][Next]_vars

\* Run and the goroutines of mongodb make progress; the next segment takes what it is offered.
FairSpec == Spec /\ WF_vars(RunNext) /\ WF_vars(MongoNext)

----------------------------------------------------------------------------
\* Properties.

Stored(f) == \E i \in DOMAIN dest : dest[i][1] = f

(* Without an error the entries are stored in the order in which the flows came, each one once and *)
(* none left out: the end of the incoming flows is all that can be missing.  For mongodb this      *)
(* holds as long as prepareDataForBulkInsert never fills the slice while bulkInsert reads it; a    *)
(* slice filled too early puts, in place of a flow, the one of the same slot of the next batch,    *)
(* never another one and never one further ahead.                                                  *)
StoredInOrder ==
    faults = 0 => \A i \in DOMAIN dest :
        dest[i][1] = i \/ (kind = "mongodb" /\ overlap /\ dest[i][1] = i + BatchSize)

(* When Run has returned, json, http, csv, sqlite and influx have stored every flow they received, *)
(* unless there was an error. zstd, kafkaproducer and mongodb may lack the last ones.              *)
CompleteAtClose ==
    (run = "done" /\ proc = "up" /\ faults = 0 /\ kind \in {"json", "http", "csv", "sqlite", "influx"})
        => Len(dest) = arrived

(* What json, http and csv store is the flow as it came in, whatever the following segments do to  *)
(* it. sqlite guarantees it only for the last flow of a full batch: the others have been handed on *)
(* when the batch is stored.                                                                       *)
StoredAsReceived ==
    \A i \in DOMAIN dest :
        /\ kind \in {"json", "zstd", "http", "csv"} => dest[i][2] = 0
        /\ (kind = "sqlite" /\ faults = 0 /\ i % BatchSize = 0) => dest[i][2] = 0

(* No output stops the pipeline: a flow it has received is handed on and the next one taken, or    *)
(* the process has panicked. Only a flow that cannot be marshalled is not handed on (json, http).  *)
OutputGoesOn == (run # "recv") ~> (run = "recv" \/ run = "done" \/ proc = "panic")
=============================================================================

---------------------------- MODULE Outputs_proof ----------------------------
(***************************************************************************)
(* Proofs for the outputs, for any batch size, number of flows and errors: *)
(* what is stored is a prefix of what came in, all of it once Run has      *)
(* returned, and it is stored as it came in where the segment looks at the *)
(* flow before it hands it on.                                             *)
(***************************************************************************)
EXTENDS Outputs, Integers, TLAPS

Entries == Nat \X {0, 1}

Types ==
    /\ arrived \in 0..MaxFlows /\ ver \in [Flows -> {0, 1}] /\ out \in SUBSET (1..arrived)
    /\ run \in {"recv", "write", "out", "done"}
    /\ run \in {"write", "out"} => arrived # 0
    /\ batch \in Seq(Flows) /\ buffer \in Seq(Entries)
    /\ faults = 0 \/ kind # "sqlite" => dest \in Seq(Entries)
    /\ slice \in [Slots -> Entries] /\ ins \in 0..BatchSize /\ overlap \in BOOLEAN
    /\ prep \in [pc : {"recv", "format", "send"}, slot : 1..(BatchSize + 1), flow : 0..MaxFlows]
    /\ prep.pc = "send" <=> prep.slot = BatchSize + 1
    /\ prep.pc = "format" => prep.flow \in Flows
    /\ faults \in Nat

(* Which segment uses which of the places a flow waits in.                 *)
PlaceInv ==
    /\ batch # <<>> => kind \in {"sqlite", "clickhouse"}
    /\ buffer # <<>> => kind \in {"csv", "zstd", "kafkaproducer", "influx"}
    /\ ins # 0 \/ prep.pc # "recv" => kind = "mongodb"
    /\ kind = "clickhouse" => dest = <<>>
    /\ run = "done" => batch = <<>> /\ (kind \in {"csv", "influx"} => buffer = <<>>)
    /\ Len(batch) < BatchSize

(* A flow is changed only after it was handed on.                          *)
VersionInv ==
    /\ \A f \in Flows : f \notin out => ver[f] = 0
    /\ ~ForwardsFirst /\ run \in {"write", "out"} => arrived \notin out
    /\ kind \in {"json", "zstd", "http", "csv"} =>
           (\A i \in DOMAIN dest : dest[i][2] = 0) /\ (\A i \in DOMAIN buffer : buffer[i][2] = 0)

(* The flows that Run has dealt with, but for handing them on.             *)
Written == IF run = "write" \/ (ForwardsFirst /\ run = "out") THEN arrived - 1 ELSE arrived

(* What is stored and what is waiting, one after the other, are the flows. *)
OrderInv ==
    faults = 0 /\ kind # "mongodb" =>
        /\ \A i \in DOMAIN dest : dest[i][1] = i
        /\ \A i \in DOMAIN buffer : buffer[i][1] = Len(dest) + i
        /\ \A i \in DOMAIN batch : batch[i] = Len(dest) + i
        /\ proc = "up" => Len(dest) + Len(buffer) + Len(batch) = Written

(* sqlite stores whole batches before the last one.                        *)
SqliteInv ==
    faults = 0 /\ kind = "sqlite" =>
        /\ run # "done" => Len(dest) % BatchSize = 0
        /\ \A i \in DOMAIN dest : i % BatchSize = 0 => dest[i][2] = 0

(* mongodb: the flows before the batch that is being filled.               *)
Base == prep.flow - (IF prep.pc = "format" THEN 1 ELSE 0) - (prep.slot - 1)

(* The slots that have not been filled again hold the batch before, which  *)
(* bulkInsert stores, up to the slot it is at, or has stored.              *)
MongoInv ==
    faults = 0 /\ kind = "mongodb" =>
        /\ prep.flow = Written
        /\ Base >= 0
        /\ \A j \in Slots : IF j < prep.slot THEN slice[j][1] = Base + j
                            ELSE Base > 0 => slice[j][1] = Base - BatchSize + j
        /\ IF ins = 0 THEN Len(dest) = Base
                      ELSE Len(dest) + 1 = Base - BatchSize + ins /\ Base > 0
        /\ ins # 0 /\ prep.slot > 1 => overlap
        /\ \A i \in DOMAIN dest : dest[i][1] = i \/ (overlap /\ dest[i][1] = i + BatchSize)

IInv == Types /\ PlaceInv /\ VersionInv /\ OrderInv /\ SqliteInv /\ MongoInv

-----------------------------------------------------------------------------
(* Actions that count an error, and those that touch no flow.              *)
Errs == PostFails \/ MarshalFails \/ NoProducer \/ OpenFails \/ FlushFails \/ InsertFails
Idles == (\E f \in Flows : Modify(f)) \/ CloseIn \/ UNCHANGED vars
Mongo == Hand \/ Format \/ HandBatch \/ InsertDoc

(* A step of Run, of mongodb's goroutines, an error, or one that leaves    *)
(* all but the flows alone.                                                *)
LEMMA Cases ==
    ASSUME [Next]_vars
    PROVE  \/ Receive \/ Forward \/ WriteNow \/ WriteBuffered \/ Flush \/ WriteBatch \/ Return
           \/ Mongo \/ Errs \/ Idles
  BY DEF Next, RunNext, MongoNext, Errs, Idles, Mongo

(* What is stored for a flow: its number and whether it has been changed.  *)
LEMMA EntryType == \A f \in Flows : Types => Entry(f) \in Entries /\ Entry(f)[1] = f /\ Entry(f)[2] = ver[f]
  BY OutputsAssumption DEF Entry, Types, Entries, Flows

(* The empty sequence, for which the provers need the set it is taken      *)
(* from.                                                                   *)
LEMMA EmptyIsSeq == \A S : <<>> \in Seq(S) /\ Len(<<>>) = 0
  OBVIOUS

(* bulkInsert: what it stores, and when it ends the process.               *)
LEMMA BulkInsertDoes ==
    ASSUME Types, NEW flows, BulkInsert(flows)
    PROVE  /\ faults' \in Nat /\ (faults' = 0 => faults = 0)
           /\ kind # "sqlite" \/ flows = <<>> => dest' = dest
           /\ flows = <<>> => UNCHANGED <<faults, proc>>
           /\ kind = "clickhouse" /\ flows # <<>> => proc' # "up"
           /\ kind = "sqlite" /\ flows # <<>> /\ faults' = 0 =>
                  proc' = proc /\ dest' = dest \o [i \in DOMAIN flows |-> Entry(flows[i])]
<1>1. \/ flows = <<>> /\ UNCHANGED <<dest, faults, proc>>
      \/ flows # <<>> /\ kind = "clickhouse" /\ proc' = "panic" /\ UNCHANGED <<dest, faults>>
      \/ /\ flows # <<>> /\ kind = "sqlite"
         /\ \/ dest' = dest \o [i \in DOMAIN flows |-> Entry(flows[i])] /\ UNCHANGED <<faults, proc>>
            \/ Fault
  BY Zenon DEF BulkInsert
<1>2. Fault => faults' \in Nat /\ faults' # 0
  BY DEF Fault, Types
<1>3. faults \in Nat
  BY DEF Types
<1> QED
  BY <1>1, <1>2, <1>3

(* Two sequences of entries one after the other.                           *)
LEMMA Concat ==
    ASSUME NEW d \in Seq(Entries), NEW e \in Seq(Entries)
    PROVE  /\ d \o e \in Seq(Entries) /\ Len(d \o e) = Len(d) + Len(e)
           /\ \A i \in DOMAIN (d \o e) : \/ i \in DOMAIN d /\ (d \o e)[i] = d[i]
                                         \/ i - Len(d) \in DOMAIN e /\ (d \o e)[i] = e[i - Len(d)]
  OBVIOUS

(* A sequence with one more at its end, and without its first.             *)
LEMMA AppendIs ==
    ASSUME NEW S, NEW s \in Seq(S), NEW x \in S
    PROVE  /\ Append(s, x) \in Seq(S) /\ Len(Append(s, x)) = Len(s) + 1 /\ Append(s, x) # <<>>
           /\ \A i \in DOMAIN Append(s, x) : \/ i \in DOMAIN s /\ Append(s, x)[i] = s[i]
                                             \/ i = Len(s) + 1 /\ Append(s, x)[i] = x
<1>1. Append(s, x) \in Seq(S) /\ Len(Append(s, x)) = Len(s) + 1 /\ Len(s) \in Nat
  OBVIOUS
<1>2. Append(s, x) # <<>>
  BY <1>1, EmptyIsSeq
<1>3. \A i \in DOMAIN Append(s, x) : \/ i \in DOMAIN s /\ Append(s, x)[i] = s[i]
                                     \/ i = Len(s) + 1 /\ Append(s, x)[i] = x
  OBVIOUS
<1> QED
  BY <1>1, <1>2, <1>3

(* A sequence without its first element.                                   *)
LEMMA TailIs ==
    ASSUME NEW S, NEW s \in Seq(S), s # <<>>
    PROVE  /\ Tail(s) \in Seq(S) /\ Len(Tail(s)) = Len(s) - 1
           /\ Head(s) \in S /\ 1 \in DOMAIN s /\ Head(s) = s[1]
           /\ \A i \in DOMAIN Tail(s) : i + 1 \in DOMAIN s /\ Tail(s)[i] = s[i + 1]
  OBVIOUS

(* The entries of a batch.                                                 *)
LEMMA BatchEntries ==
    ASSUME Types, NEW flows \in Seq(Flows)
    PROVE  LET e == [i \in DOMAIN flows |-> Entry(flows[i])]
           IN  /\ e \in Seq(Entries) /\ Len(e) = Len(flows) /\ DOMAIN e = DOMAIN flows
               /\ \A i \in DOMAIN flows : e[i][1] = flows[i] /\ e[i][2] = ver[flows[i]] /\ flows[i] \in Flows
<1> DEFINE e == [i \in DOMAIN flows |-> Entry(flows[i])]
<1>1. \A i \in DOMAIN flows : flows[i] \in Flows
  OBVIOUS
<1>2. \A i \in DOMAIN flows : Entry(flows[i]) \in Entries
  BY <1>1, EntryType
<1>3. e \in [1..Len(flows) -> Entries]
  BY <1>2
<1>4. e \in Seq(Entries) /\ Len(e) = Len(flows)
  BY <1>3
<1> QED
  BY <1>1, <1>4, EntryType

(* A batch stored without an error, after what has been stored before.     *)
LEMMA BatchStored ==
    ASSUME Types, NEW flows \in Seq(Flows), BulkInsert(flows), kind = "sqlite", faults' = 0
    PROVE  /\ faults = 0 /\ proc' = proc /\ dest \in Seq(Entries) /\ dest' \in Seq(Entries)
           /\ Len(dest') = Len(dest) + Len(flows)
           /\ \A i \in DOMAIN dest' :
                 \/ i \in DOMAIN dest /\ dest'[i] = dest[i]
                 \/ /\ i - Len(dest) \in DOMAIN flows
                    /\ dest'[i][1] = flows[i - Len(dest)] /\ dest'[i][2] = ver[flows[i - Len(dest)]]
<1>1. faults = 0 /\ dest \in Seq(Entries)
  BY BulkInsertDoes, Zenon DEF Types
<1>2. CASE flows = <<>>
  <2>1. UNCHANGED <<dest, proc>> /\ Len(flows) = 0
    BY <1>2, BulkInsertDoes, Zenon
  <2> QED
    BY <1>1, <2>1
<1>3. CASE flows # <<>>
  <2> DEFINE e == [i \in DOMAIN flows |-> Entry(flows[i])]
  <2>1. proc' = proc /\ dest' = dest \o e
    BY <1>3, BulkInsertDoes, Zenon
  <2>2. e \in Seq(Entries) /\ Len(e) = Len(flows) /\ DOMAIN e = DOMAIN flows
        /\ \A i \in DOMAIN flows : e[i][1] = flows[i] /\ e[i][2] = ver[flows[i]]
    BY BatchEntries
  <2> HIDE DEF e
  <2>3. /\ dest \o e \in Seq(Entries) /\ Len(dest \o e) = Len(dest) + Len(e)
        /\ \A i \in DOMAIN (dest \o e) :
              \/ i \in DOMAIN dest /\ (dest \o e)[i] = dest[i]
              \/ i - Len(dest) \in DOMAIN e /\ (dest \o e)[i] = e[i - Len(dest)]
    BY <1>1, <2>2, Concat, Zenon
  <2> QED
    BY <1>1, <2>1, <2>2, <2>3
<1> QED
  BY <1>2, <1>3

(* The flow Run is at is one of the flows.                                 *)
LEMMA ArrivedType == ASSUME Types PROVE arrived \in Nat /\ (arrived # 0 => arrived \in Flows)
  BY OutputsAssumption DEF Types, Flows

(* Every step keeps the types and the places.                              *)
LEMMA NextTypes ==
    ASSUME Types, PlaceInv, [Next]_vars
    PROVE  Types' /\ PlaceInv'
<1> USE OutputsAssumption
<1>1. CASE Receive
  <2>1. UNCHANGED <<kind, ver, out, batch, buffer, slice, prep, ins, overlap, dest, faults>>
        /\ arrived' = arrived + 1 /\ run' \in {"out", "write"} /\ arrived' \in 0..MaxFlows
    BY <1>1 DEF Receive, mongoVars, Types
  <2>2. out \in SUBSET (1..arrived')
    BY <2>1 DEF Types
  <2> QED
    BY <2>1, <2>2 DEF Types, PlaceInv
<1>2. CASE Forward
  <2>1. UNCHANGED <<kind, arrived, ver, batch, buffer, slice, prep, ins, overlap, dest, faults>>
        /\ out' = out \cup {arrived} /\ run' \in {"recv", "write"} /\ arrived # 0
    BY <1>2 DEF Forward, mongoVars, Types, Step
  <2>2. out' \in SUBSET (1..arrived)
    BY <2>1 DEF Types
  <2> QED
    BY <2>1, <2>2 DEF Types, PlaceInv
<1>3. CASE WriteNow
  <2>1. UNCHANGED <<kind, arrived, ver, out, batch, buffer, slice, prep, ins, overlap, faults>>
        /\ run' \in {"recv", "out"} /\ dest' = Append(dest, Entry(arrived)) /\ arrived # 0
        /\ kind \in {"json", "http"}
    BY <1>3 DEF WriteNow, mongoVars, flowVars, Types, Step, AfterWrite
  <2>a. Entry(arrived) \in Entries /\ dest \in Seq(Entries)
    BY <2>1, ArrivedType, EntryType, Zenon DEF Types
  <2>2. dest' \in Seq(Entries)
    BY <2>1, <2>a
  <2> QED
    BY <2>1, <2>2, Zenon DEF Types, PlaceInv
<1>4. CASE WriteBuffered
  <2>1. UNCHANGED <<kind, arrived, ver, out, batch, slice, prep, ins, overlap, dest, faults>>
        /\ run' \in {"recv", "out"} /\ buffer' = Append(buffer, Entry(arrived)) /\ arrived # 0
        /\ kind \in {"csv", "zstd", "kafkaproducer", "influx"}
    BY <1>4 DEF WriteBuffered, mongoVars, flowVars, Types, Step, AfterWrite
  <2>2. buffer' \in Seq(Entries)
    <3>1. Entry(arrived) \in Entries /\ buffer \in Seq(Entries)
      BY <2>1, ArrivedType, EntryType, Zenon DEF Types
    <3> QED
      BY <2>1, <3>1
  <2> QED
    BY <2>1, <2>2, Zenon DEF Types, PlaceInv
<1>5. CASE Flush
  <2>1. UNCHANGED <<kind, arrived, ver, out, run, batch, slice, prep, ins, overlap, faults>>
        /\ buffer # <<>> /\ buffer' = Tail(buffer) /\ dest' = Append(dest, Head(buffer)) /\ run # "done"
    BY <1>5 DEF Flush, mongoVars, flowVars
  <2>2. buffer' \in Seq(Entries) /\ Head(buffer) \in Entries
    BY <2>1 DEF Types
  <2>3. kind \in {"csv", "zstd", "kafkaproducer", "influx"}
    BY <2>1 DEF PlaceInv
  <2>4. dest' \in Seq(Entries)
    BY <2>1, <2>2, <2>3 DEF Types
  <2> QED
    BY <2>1, <2>2, <2>3, <2>4, Zenon DEF Types, PlaceInv
<1>6. CASE WriteBatch
  <2> DEFINE unsaved == Append(batch, arrived)
  <2>1. UNCHANGED <<kind, arrived, ver, out, buffer, slice, prep, ins, overlap>>
        /\ run' \in {"recv", "out"} /\ arrived # 0 /\ kind \in {"sqlite", "clickhouse"}
    BY <1>6 DEF WriteBatch, mongoVars, flowVars, Types, Step, AfterWrite
  <2>2. unsaved \in Seq(Flows) /\ unsaved # <<>> /\ Len(unsaved) = Len(batch) + 1
    <3>1. arrived \in Flows /\ batch \in Seq(Flows)
      BY <2>1, ArrivedType DEF Types
    <3> QED
      BY <3>1, AppendIs
  <2>3. CASE Len(unsaved) >= BatchSize
    <3>1. BulkInsert(unsaved) /\ batch' = <<>>
      BY <1>6, <2>3 DEF WriteBatch
    <3> HIDE DEF unsaved
    <3>2. faults' \in Nat /\ (kind # "sqlite" => dest' = dest)
      BY <3>1, BulkInsertDoes, Zenon
    <3>3. ASSUME faults' = 0, kind = "sqlite" PROVE dest' \in Seq(Entries)
      BY <2>2, <3>1, <3>3, BatchStored
    <3> QED
      BY <2>1, <3>1, <3>2, <3>3, EmptyIsSeq DEF Types, PlaceInv
  <2>4. CASE ~(Len(unsaved) >= BatchSize)
    <3>1. batch' = unsaved /\ UNCHANGED <<dest, faults>>
      BY <1>6, <2>4 DEF WriteBatch
    <3>2. Len(unsaved) < BatchSize
      BY <2>2, <2>4
    <3> HIDE DEF unsaved
    <3> QED
      BY <2>1, <2>2, <3>1, <3>2, SMTT(30) DEF Types, PlaceInv
  <2> QED
    BY <2>3, <2>4
<1>7. CASE Return
  <2>1. UNCHANGED <<kind, arrived, ver, out, slice, prep, ins, overlap>> /\ run' = "done"
    BY <1>7 DEF Return, mongoVars, flowVars
  <2>2. CASE kind \in {"csv", "influx"}
    <3>1. UNCHANGED <<batch, faults>> /\ dest' = dest \o buffer /\ buffer' = <<>>
      BY <1>7, <2>2 DEF Return
    <3>2. dest' \in Seq(Entries)
      BY <2>2, <3>1, Concat DEF Types
    <3>3. batch = <<>>
      BY <2>2 DEF PlaceInv
    <3> QED
      BY <2>1, <2>2, <3>1, <3>2, <3>3, EmptyIsSeq DEF Types, PlaceInv
  <2>3. CASE kind \notin {"csv", "influx"}
    <3>1. BulkInsert(batch) /\ batch' = <<>> /\ buffer' = buffer
      BY <1>7, <2>3 DEF Return
    <3>2. faults' \in Nat /\ (kind # "sqlite" => dest' = dest)
      BY <3>1, BulkInsertDoes, Zenon
    <3>3. faults' = 0 /\ kind = "sqlite" => dest' \in Seq(Entries)
      <4>1. batch \in Seq(Flows)
        BY DEF Types
      <4> QED
        BY <3>1, <4>1, BatchStored
    <3> QED
      BY <2>1, <2>3, <3>1, <3>2, <3>3, EmptyIsSeq DEF Types, PlaceInv
  <2> QED
    BY <2>2, <2>3
<1>8. CASE Mongo
  <2>1. UNCHANGED <<kind, arrived, ver, out, batch, buffer, faults>> /\ kind = "mongodb"
    BY <1>8 DEF Mongo, Hand, Format, HandBatch, InsertDoc, flowVars, PlaceInv
  <2>2. run' = run \/ (run' \in {"recv", "out"} /\ arrived # 0)
    BY <1>8 DEF Mongo, Hand, Format, HandBatch, InsertDoc, AfterWrite, Step, Types
  <2>3. run' = "done" => run = "done"
    BY <2>2
  <2>4. CASE Hand
    <3>1. UNCHANGED <<slice, ins, overlap, dest>> /\ prep' = [prep EXCEPT !.pc = "format", !.flow = arrived]
          /\ arrived # 0 /\ prep.pc = "recv"
      BY <2>4 DEF Hand, Step, Types
    <3>2. prep' \in [pc : {"recv", "format", "send"}, slot : 1..(BatchSize + 1), flow : 0..MaxFlows]
          /\ prep'.pc = "format" /\ prep'.slot = prep.slot /\ prep'.flow = arrived /\ arrived \in Flows
      BY <3>1, ArrivedType, Zenon DEF Types
    <3>3. prep.slot # BatchSize + 1
      BY <3>1 DEF Types
    <3> QED
      BY <2>1, <2>2, <2>3, <3>1, <3>2, <3>3 DEF Types, PlaceInv
  <2>5. CASE Format
    <3>1. UNCHANGED <<ins, dest>> /\ slice' = [slice EXCEPT ![prep.slot] = Entry(prep.flow)]
          /\ prep.pc = "format" /\ overlap' = (overlap \/ ins # 0)
          /\ prep' = [prep EXCEPT !.pc = IF prep.slot = BatchSize THEN "send" ELSE "recv", !.slot = prep.slot + 1]
      BY <2>5 DEF Format
    <3>2. prep.slot \in 1..BatchSize /\ prep.flow \in Flows
      BY <3>1 DEF Types
    <3>3. prep' \in [pc : {"recv", "format", "send"}, slot : 1..(BatchSize + 1), flow : 0..MaxFlows]
          /\ (prep'.pc = "send" <=> prep'.slot = BatchSize + 1) /\ prep'.pc # "format"
      <4>1. /\ prep \in [pc : {"recv", "format", "send"}, slot : 1..(BatchSize + 1), flow : 0..MaxFlows]
            /\ prep.slot + 1 \in 1..(BatchSize + 1)
            /\ prep.slot = BatchSize <=> prep.slot + 1 = BatchSize + 1
        BY <3>2 DEF Types
      <4> QED
        BY <3>1, <4>1, Zenon
    <3>4. slice' \in [Slots -> Entries]
      BY <3>1, <3>2, EntryType, Zenon DEF Types
    <3>5. overlap' \in BOOLEAN
      BY <3>1
    <3> QED
      BY <2>1, <2>2, <2>3, <3>1, <3>3, <3>4, <3>5 DEF Types, PlaceInv
  <2>6. CASE HandBatch
    <3>1. UNCHANGED <<slice, overlap, dest>> /\ ins' = 1 /\ prep' = [prep EXCEPT !.pc = "recv", !.slot = 1]
      BY <2>6 DEF HandBatch
    <3>2. prep' \in [pc : {"recv", "format", "send"}, slot : 1..(BatchSize + 1), flow : 0..MaxFlows]
          /\ prep'.pc = "recv" /\ prep'.slot = 1 /\ 1 \in 1..BatchSize /\ 1 # BatchSize + 1
      <4>1. /\ prep \in [pc : {"recv", "format", "send"}, slot : 1..(BatchSize + 1), flow : 0..MaxFlows]
            /\ 1 \in 1..(BatchSize + 1)
        BY DEF Types
      <4>2. prep'.pc = "recv" /\ prep'.slot = 1 /\ prep'.flow = prep.flow
        BY <3>1, <4>1
      <4>3. prep' \in [pc : {"recv", "format", "send"}, slot : 1..(BatchSize + 1), flow : 0..MaxFlows]
        BY <3>1, <4>1, Zenon
      <4> QED
        BY <4>2, <4>3
    <3> QED
      BY <2>1, <2>2, <2>3, <3>1, <3>2 DEF Types, PlaceInv
  <2>7. CASE InsertDoc
    <3>1. UNCHANGED <<slice, prep, overlap>> /\ ins \in Slots /\ dest' = Append(dest, slice[ins])
          /\ ins' = (ins + 1) % (BatchSize + 1)
      BY <2>7 DEF InsertDoc, Types, Slots
    <3>2. ins' \in 0..BatchSize
      BY <3>1 DEF Slots
    <3>3. dest' \in Seq(Entries)
      BY <2>1, <3>1 DEF Types
    <3> QED
      BY <2>1, <2>2, <2>3, <3>1, <3>2, <3>3, Zenon DEF Types, PlaceInv
  <2> QED
    BY <1>8, <2>4, <2>5, <2>6, <2>7 DEF Mongo
<1>9. CASE Errs
  <2>1. UNCHANGED <<kind, arrived, ver, out, batch, slice, prep, overlap, dest>> /\ faults' = faults + 1
    BY <1>9 DEF Errs, PostFails, MarshalFails, NoProducer, OpenFails, FlushFails, InsertFails, flowVars,
                mongoVars, Fault
  <2>2. ins' = ins \/ ins' = 0
    BY <1>9 DEF Errs, PostFails, MarshalFails, NoProducer, OpenFails, FlushFails, InsertFails, mongoVars
  <2>3. buffer' = buffer \/ (buffer # <<>> /\ buffer' = Tail(buffer) /\ run # "done")
    BY <1>9 DEF Errs, PostFails, MarshalFails, NoProducer, OpenFails, FlushFails, InsertFails
  <2>4. run' = run \/ run' = "recv" \/ (run' = "out" /\ arrived # 0)
    BY <1>9 DEF Errs, PostFails, MarshalFails, NoProducer, OpenFails, FlushFails, InsertFails,
                AfterWrite, Step, Types
  <2>5. buffer' \in Seq(Entries) /\ (buffer' # <<>> => buffer # <<>>) /\ (run' = "done" => buffer' = buffer)
    <3>1. CASE buffer' = buffer
      BY <3>1 DEF Types
    <3>2. CASE buffer # <<>> /\ buffer' = Tail(buffer) /\ run # "done"
      BY <2>4, <3>2 DEF Types
    <3> QED
      BY <2>3, <3>1, <3>2
  <2>6. Types'
    BY <2>1, <2>2, <2>4, <2>5 DEF Types
  <2>7. PlaceInv'
    BY <2>1, <2>2, <2>4, <2>5 DEF PlaceInv
  <2> QED
    BY <2>6, <2>7
<1>10. CASE Idles
  <2>1. UNCHANGED <<kind, arrived, out, run, batch, buffer, slice, prep, ins, overlap, dest, faults>>
    BY <1>10 DEF Idles, Modify, CloseIn, vars, flowVars, mongoVars
  <2>2. ver' = ver \/ \E f \in Flows : ver' = [ver EXCEPT ![f] = 1]
    BY <1>10 DEF Idles, Modify, CloseIn, vars, flowVars
  <2>3. ver' \in [Flows -> {0, 1}]
    BY <2>2 DEF Types
  <2> QED
    BY <2>1, <2>3 DEF Types, PlaceInv
<1> QED
  BY <1>1, <1>2, <1>3, <1>4, <1>5, <1>6, <1>7, <1>8, <1>9, <1>10, Cases

(* The versions.                                                           *)
LEMMA NextVersion ==
    ASSUME Types, PlaceInv, VersionInv, [Next]_vars
    PROVE  VersionInv'
<1> USE OutputsAssumption
<1>1. CASE Receive
  <2>1. UNCHANGED <<kind, ver, out, dest, buffer, ForwardsFirst>> /\ arrived' = arrived + 1
    BY <1>1 DEF Receive, ForwardsFirst
  <2>2. arrived + 1 \notin out
    BY DEF Types
  <2> QED
    BY <2>1, <2>2 DEF VersionInv
<1>2. CASE Forward
  <2>1. UNCHANGED <<kind, ver, dest, buffer, arrived, ForwardsFirst>> /\ out \subseteq out'
        /\ run' = IF ForwardsFirst THEN "write" ELSE "recv"
    BY <1>2 DEF Forward, ForwardsFirst
  <2> QED
    BY <2>1 DEF VersionInv
<1>3. CASE WriteNow \/ WriteBuffered
  <2>1. UNCHANGED <<kind, ver, out, arrived, ForwardsFirst>> /\ run = "write" /\ arrived \in Flows
    BY <1>3, ArrivedType DEF WriteNow, WriteBuffered, ForwardsFirst, flowVars, Step, Types
  <2>2. Entry(arrived) \in Entries /\ (~ForwardsFirst => Entry(arrived)[2] = 0)
    BY <2>1, EntryType DEF VersionInv
  <2>3. \/ buffer' = buffer /\ dest' = Append(dest, Entry(arrived)) /\ dest \in Seq(Entries)
        \/ dest' = dest /\ buffer' = Append(buffer, Entry(arrived)) /\ buffer \in Seq(Entries)
    BY <1>3 DEF WriteNow, WriteBuffered, Types
  <2>4. ASSUME NEW s \in Seq(Entries), \A i \in DOMAIN s : s[i][2] = 0, NEW x \in Entries, x[2] = 0
        PROVE  \A i \in DOMAIN Append(s, x) : Append(s, x)[i][2] = 0
    BY <2>4
  <2>5. kind \in {"json", "zstd", "http", "csv"} => ~ForwardsFirst
    BY DEF ForwardsFirst
  <2>6. kind \in {"json", "zstd", "http", "csv"} =>
           (\A i \in DOMAIN dest' : dest'[i][2] = 0) /\ (\A i \in DOMAIN buffer' : buffer'[i][2] = 0)
    <3> SUFFICES ASSUME kind \in {"json", "zstd", "http", "csv"}
                 PROVE (\A i \in DOMAIN dest' : dest'[i][2] = 0) /\ (\A i \in DOMAIN buffer' : buffer'[i][2] = 0)
      OBVIOUS
    <3>1. Entry(arrived) \in Entries /\ Entry(arrived)[2] = 0
      BY <2>2, <2>5
    <3>2. (\A i \in DOMAIN dest : dest[i][2] = 0) /\ (\A i \in DOMAIN buffer : buffer[i][2] = 0)
      BY DEF VersionInv
    <3>3. CASE buffer' = buffer /\ dest' = Append(dest, Entry(arrived)) /\ dest \in Seq(Entries)
      BY <2>4, <3>1, <3>2, <3>3
    <3>4. CASE dest' = dest /\ buffer' = Append(buffer, Entry(arrived)) /\ buffer \in Seq(Entries)
      BY <2>4, <3>1, <3>2, <3>4
    <3> QED
      BY <2>3, <3>3, <3>4
  <2> QED
    BY <2>1, <2>6 DEF VersionInv
<1>4. CASE Flush
  <2>1. UNCHANGED <<kind, ver, out, arrived, run, ForwardsFirst>>
        /\ buffer # <<>> /\ buffer' = Tail(buffer) /\ dest' = Append(dest, Head(buffer))
    BY <1>4 DEF Flush, ForwardsFirst, flowVars
  <2>2. buffer \in Seq(Entries) /\ dest \in Seq(Entries)
    BY <2>1 DEF Types, PlaceInv
  <2>3. kind \in {"json", "zstd", "http", "csv"} =>
           (\A i \in DOMAIN dest' : dest'[i][2] = 0) /\ (\A i \in DOMAIN buffer' : buffer'[i][2] = 0)
    BY <2>1, <2>2 DEF VersionInv
  <2> QED
    BY <2>1, <2>3 DEF VersionInv
<1>5. CASE Return
  <2>1. UNCHANGED <<kind, ver, out, arrived, ForwardsFirst>> /\ run' = "done"
    BY <1>5 DEF Return, ForwardsFirst, flowVars
  <2>2. CASE kind \in {"csv", "influx"}
    <3>1. dest' = dest \o buffer /\ buffer' = <<>>
      BY <1>5, <2>2 DEF Return
    <3>2. buffer \in Seq(Entries) /\ dest \in Seq(Entries)
      BY <2>2 DEF Types
    <3>3. kind = "csv" => \A i \in DOMAIN dest' : dest'[i][2] = 0
      BY <3>1, <3>2, Concat DEF VersionInv
    <3> QED
      BY <2>1, <2>2, <3>1, <3>3 DEF VersionInv
  <2>3. CASE kind \notin {"csv", "influx"}
    <3>1. buffer' = buffer /\ (kind # "sqlite" => dest' = dest)
      BY <1>5, <2>3, BulkInsertDoes, Zenon DEF Return
    <3> QED
      BY <2>1, <3>1 DEF VersionInv
  <2> QED
    BY <2>2, <2>3
<1>6. CASE WriteBatch \/ Mongo
  <2>1. UNCHANGED <<kind, ver, out, arrived, ForwardsFirst>> /\ (run' # run => run' = AfterWrite /\ run = "write")
    BY <1>6 DEF WriteBatch, Mongo, Hand, Format, HandBatch, InsertDoc, ForwardsFirst, flowVars, Step
  <2>2. kind \notin {"json", "zstd", "http", "csv"}
    BY <1>6 DEF WriteBatch, Mongo, Hand, Format, HandBatch, InsertDoc, PlaceInv
  <2> QED
    BY <2>1, <2>2 DEF VersionInv, AfterWrite
<1>7. CASE Errs
  <2>1. UNCHANGED <<kind, ver, out, arrived, dest, ForwardsFirst>>
        /\ (run' # run => run' \in {AfterWrite, "recv"} /\ run = "write")
    BY <1>7 DEF Errs, PostFails, MarshalFails, NoProducer, OpenFails, FlushFails, InsertFails, flowVars,
                ForwardsFirst, Step
  <2>2. buffer' = buffer \/ kind \in {"kafkaproducer", "influx"}
    BY <1>7 DEF Errs, PostFails, MarshalFails, NoProducer, OpenFails, FlushFails, InsertFails
  <2> QED
    BY <2>1, <2>2 DEF VersionInv, AfterWrite
<1>8. CASE Idles
  <2>1. UNCHANGED <<kind, out, arrived, dest, buffer, run, ForwardsFirst>>
    BY <1>8 DEF Idles, Modify, CloseIn, vars, flowVars, ForwardsFirst
  <2>2. ver' = ver \/ \E f \in Flows : f \in out /\ ver' = [ver EXCEPT ![f] = 1]
    BY <1>8 DEF Idles, Modify, CloseIn, vars, flowVars
  <2>3. \A f \in Flows : f \notin out => ver'[f] = 0
    BY <2>2 DEF VersionInv, Types
  <2> QED
    BY <2>1, <2>3 DEF VersionInv
<1> QED
  BY <1>1, <1>2, <1>3, <1>4, <1>5, <1>6, <1>7, <1>8, Cases

(* Errors are counted and the segment stays what it is.                    *)
LEMMA FaultsStay ==
    ASSUME Types, [Next]_vars, faults' = 0
    PROVE  faults = 0 /\ kind' = kind /\ ~Errs
<1>1. kind' = kind
  BY Cases, Zenon DEF Receive, Forward, WriteNow, WriteBuffered, Flush, WriteBatch, Return, Mongo, Hand, Format,
     HandBatch, InsertDoc, Errs, PostFails, MarshalFails, NoProducer, OpenFails, FlushFails, InsertFails,
     Idles, Modify, CloseIn, vars
<1>2. ~Errs
  BY DEF Errs, PostFails, MarshalFails, NoProducer, OpenFails, FlushFails, InsertFails, Fault, Types
<1>3. WriteBatch \/ Return => faults = 0
  BY BulkInsertDoes, Zenon DEF WriteBatch, Return
<1> QED
  BY <1>1, <1>2, <1>3, Cases, Zenon DEF Receive, Forward, WriteNow, WriteBuffered, Flush, Mongo, Hand, Format,
     HandBatch, InsertDoc, Idles, Modify, CloseIn, vars

(* The order of what is stored.                                            *)
LEMMA NextOrder ==
    ASSUME Types, PlaceInv, OrderInv, [Next]_vars
    PROVE  OrderInv'
<1> USE OutputsAssumption
<1> SUFFICES ASSUME faults' = 0, kind' # "mongodb" PROVE OrderInv'
  BY DEF OrderInv
<1>0. faults = 0 /\ kind' = kind
  BY FaultsStay
<1>a. /\ \A i \in DOMAIN dest : dest[i][1] = i
      /\ \A i \in DOMAIN buffer : buffer[i][1] = Len(dest) + i
      /\ \A i \in DOMAIN batch : batch[i] = Len(dest) + i
      /\ proc = "up" => Len(dest) + Len(buffer) + Len(batch) = Written
  BY <1>0 DEF OrderInv
<1>b. /\ dest \in Seq(Entries) /\ buffer \in Seq(Entries) /\ batch \in Seq(Flows) /\ arrived \in Nat
      /\ UNCHANGED ForwardsFirst
  BY <1>0, ArrivedType DEF Types, ForwardsFirst
<1>c. Len(dest) \in Nat /\ Len(buffer) \in Nat /\ Len(batch) \in Nat
  BY <1>b
<1>1. CASE Receive \/ Forward
  <2>1. UNCHANGED <<dest, buffer, batch, proc>>
    BY <1>1 DEF Receive, Forward
  <2>2. Written' = Written
    BY <1>1, <1>b DEF Receive, Forward, Written, Step
  <2> QED
    BY <1>a, <2>1, <2>2 DEF OrderInv
<1>2. CASE WriteNow \/ WriteBuffered \/ WriteBatch
  <2>1. proc = "up" /\ run = "write" /\ arrived \in Flows /\ arrived' = arrived /\ run' = AfterWrite
    BY <1>2, ArrivedType DEF WriteNow, WriteBuffered, WriteBatch, flowVars, Step, Types
  <2>2. Written = arrived - 1 /\ Written' = arrived
    BY <1>b, <2>1 DEF Written, AfterWrite
  <2>3. Entry(arrived) \in Entries /\ Entry(arrived)[1] = arrived
    BY <2>1, EntryType, ZenonT(30)
  <2>4. CASE WriteNow
    <3>1. dest' = Append(dest, Entry(arrived)) /\ UNCHANGED <<buffer, batch>> /\ buffer = <<>> /\ batch = <<>>
      BY <2>4 DEF WriteNow, PlaceInv
    <3>2. Len(dest') = Len(dest) + 1 /\ \A i \in DOMAIN dest' : dest'[i][1] = i
      BY <1>a, <1>b, <2>1, <2>2, <2>3, <3>1
    <3> QED
      BY <1>a, <1>b, <2>1, <2>2, <3>1, <3>2 DEF OrderInv
  <2>5. CASE WriteBuffered
    <3>1. buffer' = Append(buffer, Entry(arrived)) /\ UNCHANGED <<dest, batch>> /\ batch = <<>>
      BY <2>5 DEF WriteBuffered, PlaceInv
    <3>2. Len(buffer') = Len(buffer) + 1 /\ \A i \in DOMAIN buffer' : buffer'[i][1] = Len(dest) + i
      BY <1>a, <1>b, <2>1, <2>2, <2>3, <3>1
    <3> QED
      BY <1>a, <1>b, <2>1, <2>2, <3>1, <3>2 DEF OrderInv
  <2>6. CASE WriteBatch
    <3> DEFINE unsaved == Append(batch, arrived)
    <3>1. buffer' = buffer /\ buffer = <<>> /\ kind \in {"sqlite", "clickhouse"}
      BY <2>6 DEF WriteBatch, PlaceInv
    <3>2. /\ unsaved \in Seq(Flows) /\ Len(unsaved) = Len(batch) + 1 /\ unsaved # <<>>
          /\ \A i \in DOMAIN unsaved : \/ i \in DOMAIN batch /\ unsaved[i] = batch[i]
                                       \/ i = Len(batch) + 1 /\ unsaved[i] = arrived
      BY <1>b, <2>1, AppendIs
    <3>3. Len(buffer) = 0
      BY <3>1
    <3>a. Len(dest) + Len(batch) = arrived - 1
      BY <1>a, <1>c, <2>1, <2>2, <3>3
    <3> HIDE DEF unsaved
    <3>4. \A i \in DOMAIN unsaved : unsaved[i] = Len(dest) + i
      BY <1>a, <1>b, <1>c, <3>2, <3>a
    <3>5. unsaved # <<>>
      BY <3>2
    <3>6. CASE BulkInsert(unsaved) /\ batch' = <<>>
      <4>1. CASE kind = "sqlite"
        <5>1. /\ dest' \in Seq(Entries) /\ Len(dest') = Len(dest) + Len(unsaved) /\ proc' = proc
              /\ \A i \in DOMAIN dest' :
                 \/ i \in DOMAIN dest /\ dest'[i] = dest[i]
                 \/ i - Len(dest) \in DOMAIN unsaved /\ dest'[i][1] = unsaved[i - Len(dest)]
          BY <3>2, <3>6, <4>1, BatchStored
        <5>2. \A i \in DOMAIN dest' : dest'[i][1] = i
          BY <1>a, <1>b, <3>4, <5>1
        <5>3. Len(dest') + Len(buffer') + Len(batch') = Written'
          BY <1>b, <1>c, <2>2, <3>1, <3>2, <3>3, <3>a, <3>6, <5>1, EmptyIsSeq
        <5> QED
          BY <3>1, <3>6, <5>2, <5>3 DEF OrderInv
      <4>2. CASE kind = "clickhouse"
        <5>1. dest' = dest /\ proc' # "up"
          BY <3>5, <3>6, <4>2, BulkInsertDoes
        <5> QED
          BY <1>a, <3>1, <3>6, <5>1 DEF OrderInv
      <4> QED
        BY <3>1, <4>1, <4>2
    <3>7. CASE batch' = unsaved /\ UNCHANGED <<dest, proc>>
      <4>1. Len(dest') + Len(buffer') + Len(batch') = Written'
        <5>1. Len(dest') = Len(dest) /\ Len(buffer') = 0 /\ Len(batch') = Len(batch) + 1
          BY <3>1, <3>2, <3>3, <3>7
        <5> QED
          BY <1>b, <1>c, <2>2, <3>a, <5>1
      <4> QED
        BY <1>a, <3>1, <3>4, <3>7, <4>1 DEF OrderInv
    <3> QED
      BY <2>6, <3>6, <3>7 DEF WriteBatch, unsaved
  <2> QED
    BY <1>2, <2>4, <2>5, <2>6
<1>3. CASE Flush
  <2>1. UNCHANGED <<batch, proc, run, arrived>> /\ buffer # <<>> /\ batch = <<>>
        /\ buffer' = Tail(buffer) /\ dest' = Append(dest, Head(buffer))
    BY <1>3 DEF Flush, PlaceInv, flowVars
  <2>2. Written' = Written
    BY <1>b, <2>1 DEF Written
  <2>3. /\ Len(dest') = Len(dest) + 1 /\ Len(buffer') = Len(buffer) - 1
        /\ \A i \in DOMAIN dest' : dest'[i][1] = i
        /\ \A i \in DOMAIN buffer' : buffer'[i][1] = Len(dest') + i
    <3>1. /\ Head(buffer) \in Entries /\ Head(buffer)[1] = Len(dest) + 1 /\ Len(buffer') = Len(buffer) - 1
          /\ \A i \in DOMAIN buffer' : i + 1 \in DOMAIN buffer /\ buffer'[i] = buffer[i + 1]
      BY <1>a, <1>b, <2>1, TailIs
    <3>2. /\ Len(dest') = Len(dest) + 1
          /\ \A i \in DOMAIN dest' : \/ i \in DOMAIN dest /\ dest'[i] = dest[i]
                                     \/ i = Len(dest) + 1 /\ dest'[i] = Head(buffer)
      BY <1>b, <2>1, <3>1, AppendIs
    <3>3. \A i \in DOMAIN buffer' : i \in Nat /\ buffer'[i][1] = Len(dest) + (i + 1)
      BY <1>a, <1>b, <2>1, <3>1
    <3>4. \A i \in DOMAIN dest' : dest'[i][1] = i
      BY <1>a, <3>1, <3>2
    <3>5. \A i \in DOMAIN buffer' : buffer'[i][1] = Len(dest') + i
      BY <1>c, <3>2, <3>3
    <3> QED
      BY <3>1, <3>2, <3>4, <3>5
  <2> QED
    BY <1>a, <1>b, <2>1, <2>2, <2>3 DEF OrderInv
<1>4. CASE Return
  <2>1. UNCHANGED arrived /\ run' = "done" /\ run = "recv" /\ proc = "up"
    BY <1>4 DEF Return, flowVars, Step
  <2>2. Written' = arrived /\ Written = arrived
    BY <2>1 DEF Written
  <2>3. CASE kind \in {"csv", "influx"}
    <3>1. dest' = dest \o buffer /\ buffer' = <<>> /\ UNCHANGED <<batch, proc>> /\ batch = <<>>
      BY <1>4, <2>3 DEF Return, PlaceInv
    <3>2. /\ Len(dest') = Len(dest) + Len(buffer)
          /\ \A i \in DOMAIN dest' : dest'[i][1] = i
      BY <1>a, <1>b, <3>1, Concat
    <3> QED
      BY <1>a, <1>b, <2>1, <2>2, <3>1, <3>2 DEF OrderInv
  <2>4. CASE kind \notin {"csv", "influx"}
    <3>1. BulkInsert(batch) /\ batch' = <<>> /\ buffer' = buffer
      BY <1>4, <2>4 DEF Return
    <3>2. CASE kind = "sqlite"
      <4>1. /\ dest' \in Seq(Entries) /\ Len(dest') = Len(dest) + Len(batch) /\ proc' = proc
            /\ \A i \in DOMAIN dest' :
                 \/ i \in DOMAIN dest /\ dest'[i] = dest[i]
                 \/ i - Len(dest) \in DOMAIN batch /\ dest'[i][1] = batch[i - Len(dest)]
        BY <1>b, <3>1, <3>2, BatchStored
      <4>2. \A i \in DOMAIN dest' : dest'[i][1] = i
        BY <1>a, <1>b, <4>1
      <4>3. buffer = <<>>
        BY <3>2 DEF PlaceInv
      <4> QED
        BY <1>a, <1>b, <2>1, <2>2, <3>1, <4>1, <4>2, <4>3 DEF OrderInv
    <3>3. CASE kind # "sqlite"
      <4>1. dest' = dest /\ (batch # <<>> => proc' # "up") /\ (batch = <<>> => proc' = proc)
        BY <3>1, <3>3, BulkInsertDoes, Zenon DEF PlaceInv
      <4> QED
        BY <1>a, <1>b, <2>1, <2>2, <3>1, <4>1 DEF OrderInv
    <3> QED
      BY <3>2, <3>3
  <2> QED
    BY <2>3, <2>4
<1>5. CASE Idles
  <2>1. UNCHANGED <<dest, buffer, batch, proc, run, arrived>>
    BY <1>5 DEF Idles, Modify, CloseIn, vars, flowVars
  <2>2. Written' = Written
    BY <1>b, <2>1 DEF Written
  <2> QED
    BY <1>a, <2>1, <2>2 DEF OrderInv
<1>6. ~Mongo /\ ~Errs
  <2>1. Mongo => kind = "mongodb"
    BY DEF Mongo, Hand, Format, HandBatch, InsertDoc, PlaceInv
  <2> QED
    BY <1>0, <2>1, FaultsStay
<1> QED
  BY <1>1, <1>2, <1>3, <1>4, <1>5, <1>6, Cases

(* sqlite: the versions of the last flows of the batches.                  *)
LEMMA ModFacts ==
    ASSUME NEW B \in Nat \ {0}, NEW a \in Nat, a % B = 0
    PROVE  /\ (a + B) % B = 0
           /\ \A j \in 1..B : (a + j) % B = 0 => j = B
<1>1. \A q \in Int, r \in 0..(B - 1) : (B * q + r) % B = r
  OBVIOUS
<1>2. PICK q \in Int : a = B * q
  <2>1. a = (B * (a \div B)) + (a % B) /\ a \div B \in Int
    OBVIOUS
  <2> DEFINE d == a \div B
  <2>2. B * d \in Int /\ d \in Int /\ a = (B * d) + (a % B)
    BY <2>1
  <2> HIDE DEF d
  <2>3. a = B * d
    BY <2>2
  <2> QED
    BY <2>2, <2>3
<1>3. (a + B) % B = 0
  <2>1. a + B = B * (q + 1) + 0
    BY <1>2
  <2>2. (B * (q + 1) + 0) % B = 0
    BY <1>1
  <2> QED
    BY <2>1, <2>2
<1>4. ASSUME NEW j \in 1..B, j # B, (a + j) % B = 0 PROVE FALSE
  <2>1. j \in 0..(B - 1) /\ a + j = B * q + j
    BY <1>2, <1>4
  <2>2. (B * q + j) % B = j
    BY <1>1, <2>1
  <2> QED
    BY <1>4, <2>1, <2>2
<1> QED
  BY <1>3, <1>4

(* sqlite: a full batch is stored before its last flow is handed on.       *)
LEMMA NextSqlite ==
    ASSUME Types, PlaceInv, VersionInv, OrderInv, SqliteInv, [Next]_vars
    PROVE  SqliteInv'
<1> SUFFICES ASSUME faults' = 0, kind' = "sqlite" PROVE SqliteInv'
  BY DEF SqliteInv
<1>0. faults = 0 /\ kind = "sqlite"
  BY FaultsStay
<1>a. /\ run # "done" => Len(dest) % BatchSize = 0
      /\ \A i \in DOMAIN dest : i % BatchSize = 0 => dest[i][2] = 0
      /\ dest \in Seq(Entries) /\ Len(dest) \in Nat /\ batch \in Seq(Flows) /\ Len(batch) \in Nat
      /\ Len(batch) < BatchSize
  BY <1>0 DEF SqliteInv, Types, PlaceInv
<1>1. CASE WriteBatch
  <2> DEFINE unsaved == Append(batch, arrived)
  <2>1. run = "write" /\ arrived \in Flows /\ run' \in {"out", "recv"}
    BY <1>1, ArrivedType DEF WriteBatch, Step, AfterWrite, Types
  <2>2. /\ unsaved \in Seq(Flows) /\ Len(unsaved) = Len(batch) + 1 /\ unsaved # <<>>
        /\ \A i \in DOMAIN unsaved : \/ i \in DOMAIN batch /\ unsaved[i] = batch[i]
                                     \/ i = Len(batch) + 1 /\ unsaved[i] = arrived
    BY <1>a, <2>1, AppendIs
  <2>3. ver[arrived] = 0
    BY <1>0, <2>1 DEF VersionInv, ForwardsFirst
  <2> HIDE DEF unsaved
  <2>4. CASE Len(unsaved) >= BatchSize
    <3>1. BulkInsert(unsaved)
      BY <1>1, <2>4 DEF WriteBatch, unsaved
    <3>2. /\ dest' \in Seq(Entries) /\ Len(dest') = Len(dest) + Len(unsaved)
          /\ \A i \in DOMAIN dest' :
                 \/ i \in DOMAIN dest /\ dest'[i] = dest[i]
                 \/ /\ i - Len(dest) \in DOMAIN unsaved
                    /\ dest'[i][2] = ver[unsaved[i - Len(dest)]]
      BY <1>0, <2>2, <3>1, BatchStored
    <3>3. Len(unsaved) = BatchSize /\ DOMAIN unsaved = 1..BatchSize /\ unsaved[BatchSize] = arrived
      <4>1. Len(unsaved) = BatchSize
        BY <1>a, <2>2, <2>4, OutputsAssumption
      <4> QED
        BY <1>a, <2>2, <4>1, OutputsAssumption
    <3>4. Len(dest') % BatchSize = 0
      BY <1>a, <2>1, <3>2, <3>3, ModFacts, OutputsAssumption
    <3>5. ASSUME NEW i \in DOMAIN dest', i % BatchSize = 0 PROVE dest'[i][2] = 0
      <4>1. CASE i \in DOMAIN dest /\ dest'[i] = dest[i]
        BY <1>a, <3>5, <4>1
      <4>2. CASE i - Len(dest) \in DOMAIN unsaved /\ dest'[i][2] = ver[unsaved[i - Len(dest)]]
        <5>1. i - Len(dest) \in 1..BatchSize /\ Len(dest) + (i - Len(dest)) = i
          BY <1>a, <3>2, <3>3, <4>2
        <5>2. i - Len(dest) = BatchSize
          BY <1>a, <2>1, <3>5, <5>1, ModFacts, OutputsAssumption, Zenon
        <5> QED
          BY <2>3, <3>3, <4>2, <5>2
      <4> QED
        BY <3>2, <4>1, <4>2
    <3> QED
      BY <3>4, <3>5 DEF SqliteInv
  <2>5. CASE ~(Len(unsaved) >= BatchSize)
    <3>1. dest' = dest
      BY <1>1, <2>5 DEF WriteBatch, unsaved
    <3> QED
      BY <1>a, <2>1, <3>1 DEF SqliteInv
  <2> QED
    BY <2>4, <2>5
<1>2. CASE Return
  <2>1. BulkInsert(batch) /\ run = "recv" /\ run' = "done"
    BY <1>0, <1>2 DEF Return, Step
  <2>2. \A i \in DOMAIN dest' :
           \/ i \in DOMAIN dest /\ dest'[i] = dest[i]
           \/ i - Len(dest) \in DOMAIN batch
    BY <1>0, <1>a, <2>1, BatchStored
  <2>3. dest' \in Seq(Entries)
    BY <1>0, <1>a, <2>1, BatchStored
  <2>4. ASSUME NEW i \in DOMAIN dest', i % BatchSize = 0 PROVE i \in DOMAIN dest /\ dest'[i] = dest[i]
    <3> SUFFICES ASSUME i - Len(dest) \in DOMAIN batch PROVE FALSE
      BY <2>2
    <3>1. i - Len(dest) \in 1..BatchSize /\ Len(dest) + (i - Len(dest)) = i /\ i - Len(dest) # BatchSize
      BY <1>a, <2>3, OutputsAssumption
    <3> QED
      BY <1>a, <2>1, <2>4, <3>1, ModFacts, OutputsAssumption, Zenon
  <2> QED
    BY <1>a, <2>1, <2>4 DEF SqliteInv
<1>3. CASE Receive \/ Forward \/ Idles
  <2>1. dest' = dest /\ (run = "done" => run' = "done")
    BY <1>3 DEF Receive, Forward, Idles, Modify, CloseIn, vars, Step
  <2> QED
    BY <1>a, <2>1 DEF SqliteInv
<1>4. ~(WriteNow \/ WriteBuffered \/ Flush \/ Mongo \/ Errs)
  BY <1>0, FaultsStay DEF WriteNow, WriteBuffered, Flush, Mongo, Hand, Format, HandBatch, InsertDoc, PlaceInv
<1> QED
  BY <1>1, <1>2, <1>3, <1>4, Cases

(* mongodb: Base is the number of flows in the batches handed over.        *)
LEMMA NextMongo ==
    ASSUME Types, PlaceInv, MongoInv, [Next]_vars
    PROVE  MongoInv'
<1> SUFFICES ASSUME faults' = 0, kind' = "mongodb" PROVE MongoInv'
  BY DEF MongoInv
<1>0. faults = 0 /\ kind = "mongodb" /\ ~Errs
  BY FaultsStay
<1> DEFINE Prep == [pc : {"recv", "format", "send"}, slot : 1..(BatchSize + 1), flow : 0..MaxFlows]
<1>a. /\ prep \in Prep /\ prep' \in Prep /\ arrived \in Nat
      /\ dest \in Seq(Entries) /\ ins \in 0..BatchSize /\ slice \in [Slots -> Entries]
      /\ BatchSize \in Nat \ {0} /\ Len(dest) \in Nat
  <2>1. Types'
    BY NextTypes
  <2> QED
    BY <1>0, <2>1, ArrivedType, OutputsAssumption, SMTT(30) DEF Types
<1>b. /\ prep.flow = Written /\ Base >= 0
      /\ \A j \in Slots : IF j < prep.slot THEN slice[j][1] = Base + j
                          ELSE Base > 0 => slice[j][1] = Base - BatchSize + j
      /\ IF ins = 0 THEN Len(dest) = Base
                    ELSE Len(dest) + 1 = Base - BatchSize + ins /\ Base > 0
      /\ ins # 0 /\ prep.slot > 1 => overlap
      /\ \A i \in DOMAIN dest : dest[i][1] = i \/ (overlap /\ dest[i][1] = i + BatchSize)
  BY <1>0 DEF MongoInv
<1>c. prep.slot \in Nat /\ prep.flow \in Nat /\ Base \in Int /\ UNCHANGED ForwardsFirst /\ ~ForwardsFirst
  BY <1>0, <1>a DEF Base, ForwardsFirst
<1>1. CASE Receive \/ Forward \/ Return \/ Idles
  <2>1. UNCHANGED <<slice, prep, ins, overlap>>
    BY <1>1 DEF Receive, Forward, Return, Idles, Modify, CloseIn, vars, mongoVars
  <2>2. dest' = dest
    <3>1. Return => BulkInsert(batch)
      BY <1>0 DEF Return
    <3>2. Return => dest' = dest
      BY <1>0, <3>1, BulkInsertDoes, Zenon
    <3> QED
      BY <1>1, <3>2 DEF Receive, Forward, Idles, Modify, CloseIn, vars
  <2>3. Written' = Written
    BY <1>1, <1>a, <1>c DEF Receive, Forward, Return, Idles, Modify, CloseIn, vars, flowVars, Written, Step
  <2>4. Base' = Base
    BY <2>1, Zenon DEF Base
  <2> QED
    BY <1>b, <2>1, <2>2, <2>3, <2>4, Zenon DEF MongoInv
<1>2. CASE Hand
  <2>1. /\ UNCHANGED <<slice, ins, overlap, dest, arrived>> /\ prep.pc = "recv" /\ run = "write" /\ run' = "out"
        /\ prep'.pc = "format" /\ prep'.flow = arrived /\ prep'.slot = prep.slot
    BY <1>2, <1>a, <1>c DEF Hand, Step, flowVars, AfterWrite
  <2>2. Written = arrived - 1 /\ Written' = arrived
    BY <1>c, <2>1, Zenon DEF Written
  <2>3. Base' = Base
    BY <1>a, <1>b, <2>1, <2>2, SMTT(30) DEF Base
  <2> QED
    BY <1>b, <2>1, <2>2, <2>3 DEF MongoInv
<1>3. CASE Format
  <2>1. /\ UNCHANGED <<ins, dest, arrived, run>> /\ prep.pc = "format" /\ prep'.pc # "format"
        /\ prep'.flow = prep.flow /\ prep'.slot = prep.slot + 1
        /\ slice' = [slice EXCEPT ![prep.slot] = Entry(prep.flow)] /\ overlap' = (overlap \/ ins # 0)
    BY <1>3, <1>a DEF Format, flowVars
  <2>2. prep.slot \in Slots /\ Entry(prep.flow)[1] = prep.flow
    <3>1. prep.flow \in Flows /\ prep.slot # BatchSize + 1
      BY <2>1 DEF Types
    <3>2. prep.slot \in 1..(BatchSize + 1)
      BY <1>a
    <3> QED
      BY <1>a, <1>c, <3>1, <3>2, EntryType DEF Slots
  <2>3. Base' = Base /\ prep.flow = Base + prep.slot /\ Written' = Written
    BY <1>a, <1>c, <2>1, SMTT(30) DEF Base, Written
  <2>4. ASSUME NEW j \in Slots
        PROVE  IF j < prep'.slot THEN slice'[j][1] = Base + j
               ELSE Base > 0 => slice'[j][1] = Base - BatchSize + j
    <3>1. CASE j = prep.slot
      BY <1>a, <1>c, <2>1, <2>2, <2>3, <3>1
    <3>2. CASE j # prep.slot
      <4>1. slice'[j] = slice[j] /\ (j < prep'.slot <=> j < prep.slot)
        BY <1>a, <1>c, <2>1, <3>2 DEF Slots
      <4> QED
        BY <1>b, <4>1
    <3> QED
      BY <3>1, <3>2
  <2>5. \A i \in DOMAIN dest : dest[i][1] = i \/ (overlap' /\ dest[i][1] = i + BatchSize)
    BY <1>b, <2>1, Zenon
  <2>6. ins # 0 => overlap'
    BY <2>1, Zenon
  <2> QED
    BY <1>b, <2>1, <2>3, <2>4, <2>5, <2>6, Zenon DEF MongoInv
<1>4. CASE HandBatch
  <2>1. /\ UNCHANGED <<slice, overlap, dest, arrived, run>> /\ prep.pc = "send" /\ prep'.pc = "recv"
        /\ prep'.flow = prep.flow /\ prep'.slot = 1 /\ ins = 0 /\ ins' = 1
    BY <1>4, <1>a DEF HandBatch, flowVars
  <2>2. prep.slot = BatchSize + 1
    BY <2>1 DEF Types
  <2>3. Base' = Base + BatchSize /\ Written' = Written
    BY <1>a, <1>c, <2>1, <2>2, SMTT(30) DEF Base, Written
  <2>4. \A j \in Slots : slice'[j][1] = Base' - BatchSize + j /\ ~(j < 1)
    BY <1>a, <1>b, <1>c, <2>1, <2>2, <2>3 DEF Slots
  <2>5. Base' > 0 /\ Len(dest') + 1 = Base' - BatchSize + ins' /\ ~(prep'.slot > 1)
    BY <1>a, <1>b, <1>c, <2>1, <2>3, SMTT(30)
  <2> QED
    BY <1>b, <2>1, <2>3, <2>4, <2>5 DEF MongoInv
<1>5. CASE InsertDoc
  <2>1. /\ UNCHANGED <<slice, overlap, prep, arrived, run>> /\ ins # 0
        /\ dest' = Append(dest, slice[ins]) /\ ins' = (ins + 1) % (BatchSize + 1)
    BY <1>5 DEF InsertDoc, flowVars
  <2>2. ins \in Slots /\ ins' = IF ins = BatchSize THEN 0 ELSE ins + 1
    <3>1. ins \in 1..BatchSize
      BY <1>a, <2>1
    <3>2. BatchSize \in Nat /\ BatchSize + 1 \in Nat \ {0}
      BY <1>a
    <3>3. CASE ins = BatchSize
      <4>1. (BatchSize + 1) % (BatchSize + 1) = 0
        BY <3>2
      <4> QED
        BY <2>1, <3>1, <3>3, <4>1 DEF Slots
    <3>4. CASE ins # BatchSize
      <4>1. ins + 1 \in 0..BatchSize
        BY <3>1, <3>2, <3>4
      <4>2. (ins + 1) % (BatchSize + 1) = ins + 1
        BY <3>2, <4>1
      <4> QED
        BY <2>1, <3>1, <3>4, <4>2 DEF Slots
    <3> QED
      BY <3>3, <3>4
  <2>3. /\ Len(dest') = Len(dest) + 1
        /\ \A i \in DOMAIN dest' : \/ i \in DOMAIN dest /\ dest'[i] = dest[i]
                                   \/ i = Len(dest) + 1 /\ dest'[i] = slice[ins]
    BY <1>a, <2>1, <2>2, AppendIs
  <2>4. Base' = Base /\ Written' = Written
    BY <1>c, <2>1 DEF Base, Written
  <2>5. \/ slice[ins][1] = Len(dest) + 1
        \/ overlap /\ slice[ins][1] = Len(dest) + 1 + BatchSize
    <3>1. CASE ins < prep.slot
      <4>1. prep.slot > 1
        BY <1>a, <1>c, <2>2, <3>1 DEF Slots
      <4>2. slice[ins][1] = Base + ins
        BY <1>b, <2>2, <3>1
      <4>3. Base + ins = Len(dest) + 1 + BatchSize
        BY <1>a, <1>b, <1>c, <2>1, SMTT(30)
      <4> QED
        BY <1>b, <2>1, <4>1, <4>2, <4>3
    <3>2. CASE ~(ins < prep.slot)
      BY <1>b, <2>1, <2>2, <3>2
    <3> QED
      BY <3>1, <3>2
  <2>6. \A i \in DOMAIN dest' : dest'[i][1] = i \/ (overlap /\ dest'[i][1] = i + BatchSize)
    BY <1>b, <2>3, <2>5
  <2>7. IF ins' = 0 THEN Len(dest') = Base ELSE Len(dest') + 1 = Base - BatchSize + ins' /\ Base > 0
    <3>1. Len(dest) + 1 = Base - BatchSize + ins /\ Base > 0
      BY <1>b, <2>1
    <3>2. Len(dest') = Base - BatchSize + ins
      BY <2>3, <3>1
    <3>3. ins' = IF ins = BatchSize THEN 0 ELSE ins + 1
      BY <2>2
    <3>4. Base \in Int /\ BatchSize \in Nat /\ ins \in Nat
      BY <1>a, <1>c
    <3> QED
      BY <3>1, <3>2, <3>3, <3>4
  <2> QED
    BY <1>b, <2>1, <2>4, <2>6, <2>7 DEF MongoInv
<1>6. ~(WriteNow \/ WriteBuffered \/ Flush \/ WriteBatch)
  BY <1>0 DEF WriteNow, WriteBuffered, Flush, WriteBatch, PlaceInv
<1> QED
  BY <1>0, <1>1, <1>2, <1>3, <1>4, <1>5, <1>6, Cases DEF Mongo

(* The segment starts with nothing stored and nothing waiting.             *)
LEMMA InitInv == Init => IInv
<1> SUFFICES ASSUME Init PROVE IInv
  BY Zenon
<1>1. Types
  <2>1. prep \in [pc : {"recv", "format", "send"}, slot : 1..(BatchSize + 1), flow : 0..MaxFlows]
        /\ prep.pc = "recv" /\ prep.slot = 1 /\ prep.flow = 0 /\ 1 # BatchSize + 1
    BY OutputsAssumption DEF Init
  <2>2. slice \in [Slots -> Entries]
    BY DEF Init, Entries, NoEntry
  <2>3. ver \in [Flows -> {0, 1}] /\ ins \in 0..BatchSize /\ arrived \in 0..MaxFlows /\ out \in SUBSET (1..arrived)
    BY OutputsAssumption DEF Init
  <2> QED
    BY <2>1, <2>2, <2>3, EmptyIsSeq, Zenon DEF Init, Types
<1>2. PlaceInv
  BY OutputsAssumption DEF Init, PlaceInv
<1>3. VersionInv
  BY DEF Init, VersionInv
<1>4. Len(dest) = 0 /\ Len(buffer) = 0 /\ Len(batch) = 0 /\ DOMAIN dest = {} /\ DOMAIN buffer = {} /\ DOMAIN batch = {}
  BY DEF Init
<1>5. Written = 0 /\ Base = 0
  BY DEF Init, Written, Base
<1>6. OrderInv
  BY <1>4, <1>5 DEF OrderInv
<1>7. SqliteInv
  <2>1. 0 % BatchSize = 0
    BY OutputsAssumption
  <2> QED
    BY <1>4, <2>1 DEF SqliteInv
<1>8. MongoInv
  BY <1>4, <1>5, OutputsAssumption DEF MongoInv, Init, Slots
<1> QED
  BY <1>1, <1>2, <1>3, <1>6, <1>7, <1>8 DEF IInv

(* The five parts of the invariant together are inductive.                 *)
LEMMA InvStep == IInv /\ [Next]_vars => IInv'
  BY NextTypes, NextVersion, NextOrder, NextSqlite, NextMongo DEF IInv

(* Without an error each output stores the flows in their order, none      *)
(* twice and none left out, but for mongodb's overwritten slots.           *)
THEOREM OutputsKeepOrder == Spec => []StoredInOrder
<1>1. IInv => StoredInOrder
  BY DEF IInv, OrderInv, MongoInv, StoredInOrder
<1> QED
  BY <1>1, InitInv, InvStep, PTL DEF Spec

(* json, http, csv, sqlite and influx have stored everything when Run      *)
(* returns.                                                                *)
THEOREM OutputsComplete == Spec => []CompleteAtClose
<1>1. IInv => CompleteAtClose
  <2> SUFFICES ASSUME IInv, run = "done", proc = "up", faults = 0,
                      kind \in {"json", "http", "csv", "sqlite", "influx"}
               PROVE  Len(dest) = arrived
    BY DEF CompleteAtClose
  <2>1. batch = <<>> /\ buffer = <<>>
    BY DEF IInv, PlaceInv
  <2>2. Len(dest) + Len(buffer) + Len(batch) = arrived
    BY DEF IInv, OrderInv, Written
  <2>3. Len(dest) \in Nat
    BY DEF IInv, Types
  <2> QED
    BY <2>1, <2>2, <2>3, EmptyIsSeq
<1> QED
  BY <1>1, InitInv, InvStep, PTL DEF Spec

(* json, zstd, http and csv store what came in, and sqlite does so for the *)
(* last flow of a full batch.                                              *)
THEOREM OutputsFaithful == Spec => []StoredAsReceived
<1>1. IInv => StoredAsReceived
  BY DEF IInv, VersionInv, SqliteInv, StoredAsReceived
<1> QED
  BY <1>1, InitInv, InvStep, PTL DEF Spec
===============================================================================

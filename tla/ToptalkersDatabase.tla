------------------------- MODULE ToptalkersDatabase -------------------------
(***************************************************************************)
(* The traffic counters of the toptalkers_metrics and                      *)
(* traffic_specific_toptalkers segments (analysis/toptalkers_metrics/      *)
(* toptalker_database.go). Goroutines: the segment's Run, Clock, which     *)
(* moves every record to its next bucket, Cleanup, which deletes empty     *)
(* records, and the collector of the metrics, whose other half sends the   *)
(* records while it holds the database's lock (col).                       *)
(*                                                                         *)
(* A record is a ring of Capacity buckets. hist is what it should be: the  *)
(* buckets one after the other, of which the last is the current one.      *)
(***************************************************************************)
EXTENDS Integers, Sequences, FiniteSets, SequencesExt, FiniteSetsExt

CONSTANTS
    Keys,               \* addresses
    Capacity,           \* ReportBuckets
    ThresholdBuckets,
    BucketDuration,
    ThresholdBps, ThresholdPps,
    CleanupEvery,       \* Buckets * CleanupWindowSizes
    Sizes,              \* the bytes of a flow, which has one packet
    MaxFlows            \* bound: flows

ASSUME WindowsAssumption ==
    /\ Capacity \in Nat \ {0} /\ ThresholdBuckets \in Nat \ {0}
    /\ BucketDuration \in Nat \ {0} /\ CleanupEvery \in Nat \ {0}

VARIABLES
    kind, relevant, \* the segment, and its RelevantAddress
    flows,          \* flows received
    run, flow,      \* Run, and its flow
    todo, forward,  \* the flow's keys left; a record was above the threshold
    lock,           \* who holds the database's lock
    records,        \* the keys in the database
    ring, pointer, above,   \* of each record
    clock, cleanup, col,    \* the other goroutines
    left,           \* the records each of them has still to visit
    empty,          \* the record Cleanup is about to delete
    counter,        \* cleanupCounter
    inClosed,
    hist            \* what each record should hold

config == <<kind, relevant>>
runVars == <<config, flows, run, flow, todo, forward, inClosed>>
recVars == <<records, ring, pointer, above, hist>>
timers == <<clock, cleanup, col, left, empty, counter>>
vars == <<runVars, lock, recVars, timers>>

Kinds == {"toptalkers_metrics", "traffic_specific_toptalkers"}
Relevant == {"one", "both", "connection"}
Walkers == {"clock", "cleanup", "col"}
Slots == 0..(Capacity - 1)
Bucket == [fwdBytes : Nat, fwdPackets : Nat, dropBytes : Nat, dropPackets : Nat]
NoTraffic == [fwdBytes |-> 0, fwdPackets |-> 0, dropBytes |-> 0, dropPackets |-> 0]
Flow == [fwd : BOOLEAN, bytes : Sizes]
NoFlow == [fwd |-> FALSE, bytes |-> CHOOSE s \in Sizes : TRUE]
Remembered == IF Capacity > ThresholdBuckets THEN Capacity ELSE ThresholdBuckets

TypeOK ==
    /\ kind \in Kinds /\ relevant \in Relevant /\ flows \in 0..MaxFlows /\ flow \in Flow
    /\ run \in {"recv", "get", "append", "load", "send", "drop", "stop", "done"}
    /\ todo \in Seq(Keys) /\ forward \in BOOLEAN
    /\ lock \in Walkers \cup {"free"} /\ records \subseteq Keys
    /\ ring \in [Keys -> [Slots -> Bucket]] /\ pointer \in [Keys -> Slots]
    /\ above \in [Keys -> BOOLEAN]
    /\ clock \in {"select", "walk", "exited"} /\ cleanup \in {"select", "walk", "delete"}
    /\ col \in {"idle", "walk"}
    /\ left \in [Walkers -> SUBSET Keys] /\ empty \subseteq Keys
    /\ counter \in 1..CleanupEvery
    /\ inClosed \in BOOLEAN /\ hist \in [Keys -> Seq(Bucket)]

NewRing == [i \in Slots |-> NoTraffic]

Init ==
    /\ kind \in Kinds /\ relevant \in Relevant /\ flows = 0 /\ run = "recv" /\ flow = NoFlow
    /\ todo = << >> /\ forward = FALSE /\ inClosed = FALSE
    /\ lock = "free" /\ records = {}
    /\ ring = [k \in Keys |-> NewRing] /\ pointer = [k \in Keys |-> 0]
    /\ above = [k \in Keys |-> FALSE]
    /\ clock = "select" /\ cleanup = "select" /\ col = "idle"
    /\ left = [w \in Walkers |-> {}] /\ empty = {}
    /\ counter = CleanupEvery /\ hist = [k \in Keys |-> <<NoTraffic>>]

-----------------------------------------------------------------------------
(* Run.                                                                    *)

(* The keys of a flow: one address, both, or the pair. toptalkers_metrics  *)
(* has no case for the pair.                                               *)
FlowKeys(s, d) ==
    CASE relevant = "one" -> <<d>>
      [] relevant = "both" -> <<s, d>>
      [] relevant = "connection" -> IF kind = "toptalkers_metrics" THEN << >> ELSE <<d>>

ReceiveFlow(s, d) ==
    /\ run = "recv" /\ ~inClosed /\ flows < MaxFlows
    /\ todo' = FlowKeys(s, d)
    /\ \E fwd \in BOOLEAN, bytes \in Sizes : flow' = [fwd |-> fwd, bytes |-> bytes]
    /\ flows' = flows + 1 /\ forward' = FALSE
    /\ run' = IF todo' = << >> THEN "drop" ELSE "get"
    /\ UNCHANGED <<config, inClosed, lock, recVars, timers>>

(* GetTypedRecord: one critical section of the database's lock. A key      *)
(* without a record has an empty ring.                                     *)
GetTypedRecord ==
    /\ run = "get" /\ lock = "free"
    /\ LET k == Head(todo)
       IN  IF k \in records THEN UNCHANGED recVars
           ELSE /\ records' = records \cup {k}
                /\ above' = [above EXCEPT ![k] = FALSE]
                /\ UNCHANGED <<ring, pointer, hist>>
    /\ run' = "append"
    /\ UNCHANGED <<config, flows, flow, todo, forward, inClosed, lock, timers>>

Counted(b) ==
    IF flow.fwd THEN [b EXCEPT !.fwdBytes = @ + flow.bytes, !.fwdPackets = @ + 1]
    ELSE [b EXCEPT !.dropBytes = @ + flow.bytes, !.dropPackets = @ + 1]

(* Record.Append, on the record GetTypedRecord returned. If Cleanup has    *)
(* deleted that meanwhile, nobody will see the traffic.                    *)
AppendTraffic ==
    /\ run = "append"
    /\ LET k == Head(todo)
       IN  IF k \in records
           THEN /\ ring' = [ring EXCEPT ![k][pointer[k]] = Counted(@)]
                /\ hist' = [hist EXCEPT ![k][Len(hist[k])] = Counted(@)]
           ELSE UNCHANGED <<ring, hist>>
    /\ run' = "load"
    /\ UNCHANGED <<config, flows, flow, todo, forward, inClosed, lock, records, pointer, above, timers>>

(* aboveThreshold.Load, and the next key or the end of the loop. The       *)
(* traffic-specific segment passes every flow on.                          *)
Load ==
    /\ run = "load"
    /\ forward' = (kind = "traffic_specific_toptalkers" \/ forward \/ above[Head(todo)])
    /\ todo' = Tail(todo)
    /\ run' = IF todo' # << >> THEN "get" ELSE IF forward' THEN "send" ELSE "drop"
    /\ UNCHANGED <<config, flows, flow, inClosed, lock, recVars, timers>>

(* The flow is sent on Out, or on Drops, or nobody has subscribed.         *)
Pass ==
    /\ run \in {"send", "drop"}
    /\ run' = "recv" /\ flow' = NoFlow /\ forward' = FALSE
    /\ UNCHANGED <<config, flows, todo, inClosed, lock, recVars, timers>>

CloseInput ==
    /\ ~inClosed /\ inClosed' = TRUE
    /\ UNCHANGED <<config, flows, run, flow, todo, forward, lock, recVars, timers>>

(* In is closed. toptalkers_metrics leaves its timers running.             *)
Return ==
    /\ run = "recv" /\ inClosed
    /\ run' = IF kind = "toptalkers_metrics" THEN "done" ELSE "stop"
    /\ UNCHANGED <<config, flows, flow, todo, forward, inClosed, lock, recVars, timers>>

(* StopTimers: the send meets Clock in its select. Cleanup is not stopped. *)
StopTimers ==
    /\ run = "stop" /\ clock = "select"
    /\ run' = "done" /\ clock' = "exited"
    /\ UNCHANGED <<config, flows, flow, todo, forward, inClosed, lock, recVars, cleanup, col, left, empty, counter>>

-----------------------------------------------------------------------------
(* Clock.                                                                  *)

(* The n slots before the pointer, the nearest first, wrapping around.     *)
Before(k, n) == [i \in 1..n |-> (pointer[k] - i) % Capacity]

SumOf(buckets, Amount(_)) == FoldLeft(LAMBDA acc, b : acc + Amount(b), 0, buckets)
Bytes(b) == b.fwdBytes + b.dropBytes
Packets(b) == b.fwdPackets + b.dropPackets

Exceeds(buckets) ==
    LET window == BucketDuration * ThresholdBuckets
    IN  /\ (SumOf(buckets, Bytes) * 8) \div window > ThresholdBps
        /\ SumOf(buckets, Packets) \div window > ThresholdPps

LastN(s, n) == SubSeq(s, IF Len(s) > n THEN Len(s) - n + 1 ELSE 1, Len(s))

ClockLocks ==
    /\ clock = "select" /\ lock = "free"
    /\ clock' = "walk" /\ lock' = "clock" /\ left' = [left EXCEPT !["clock"] = records]
    /\ UNCHANGED <<runVars, recVars, cleanup, col, empty, counter>>

(* Faulty: the new bucket is not cleared.                                  *)
Tick_NotCleared(k) ==
    LET p == (pointer[k] + 1) % Capacity
        window == [i \in 1..ThresholdBuckets |-> ring[k][(p - i) % Capacity]]
    IN  /\ pointer' = [pointer EXCEPT ![k] = p]
        /\ above' = [above EXCEPT ![k] = Exceeds(window)]
        /\ hist' = [hist EXCEPT ![k] = LastN(Append(@, NoTraffic), Remembered + 1)]
        /\ UNCHANGED ring

(* Record.tick: the pointer advances, the buckets behind it are compared   *)
(* with the thresholds, the bucket under it is cleared.                    *)
Tick(k) ==
    LET p == (pointer[k] + 1) % Capacity
        window == [i \in 1..ThresholdBuckets |-> ring[k][(p - i) % Capacity]]
    IN  /\ pointer' = [pointer EXCEPT ![k] = p]
        /\ above' = [above EXCEPT ![k] = Exceeds(window)]
        /\ ring' = [ring EXCEPT ![k][p] = NoTraffic]
        /\ hist' = [hist EXCEPT ![k] = LastN(Append(@, NoTraffic), Remembered + 1)]

ClockTick(k) ==
    /\ clock = "walk" /\ k \in left["clock"]
    /\ Tick(k)
    /\ left' = [left EXCEPT !["clock"] = @ \ {k}]
    /\ UNCHANGED <<runVars, lock, records, clock, cleanup, col, empty, counter>>

ClockUnlocks ==
    /\ clock = "walk" /\ left["clock"] = {}
    /\ clock' = "select" /\ lock' = "free"
    /\ UNCHANGED <<runVars, recVars, cleanup, col, left, empty, counter>>

-----------------------------------------------------------------------------
(* Cleanup: every CleanupEvery ticks of its own it visits the records.     *)

CleanupLocks ==
    /\ cleanup = "select" /\ lock = "free"
    /\ IF counter > 1
       THEN counter' = counter - 1 /\ UNCHANGED <<cleanup, lock, left>>
       ELSE /\ counter' = CleanupEvery /\ cleanup' = "walk" /\ lock' = "cleanup"
            /\ left' = [left EXCEPT !["cleanup"] = records]
    /\ UNCHANGED <<runVars, recVars, clock, col, empty>>

(* Faulty: dropped traffic is forgotten.                                   *)
IsEmpty_ForwardedOnly(k) == \A i \in Slots : ring[k][i].fwdPackets = 0

IsEmpty(k) == \A i \in Slots : ring[k][i].fwdPackets = 0 /\ ring[k][i].dropPackets = 0

(* isEmpty gives the record's lock back before delete.                     *)
CleanupTests(k) ==
    /\ cleanup = "walk" /\ k \in left["cleanup"]
    /\ left' = [left EXCEPT !["cleanup"] = @ \ {k}]
    /\ cleanup' = IF IsEmpty(k) THEN "delete" ELSE "walk"
    /\ empty' = IF IsEmpty(k) THEN {k} ELSE {}
    /\ UNCHANGED <<runVars, lock, recVars, clock, col, counter>>

CleanupDeletes ==
    /\ cleanup = "delete"
    /\ records' = records \ empty
    /\ ring' = [k \in Keys |-> IF k \in empty THEN NewRing ELSE ring[k]]
    /\ pointer' = [k \in Keys |-> IF k \in empty THEN 0 ELSE pointer[k]]
    /\ hist' = [k \in Keys |-> IF k \in empty THEN <<NoTraffic>> ELSE hist[k]]
    /\ cleanup' = "walk" /\ empty' = {}
    /\ UNCHANGED <<runVars, lock, above, clock, col, left, counter>>

(* Faulty: the lock is kept.                                               *)
CleanupUnlocks_Kept ==
    /\ cleanup = "walk" /\ left["cleanup"] = {}
    /\ cleanup' = "select"
    /\ UNCHANGED <<runVars, lock, recVars, clock, col, left, empty, counter>>

CleanupUnlocks ==
    /\ cleanup = "walk" /\ left["cleanup"] = {}
    /\ cleanup' = "select" /\ lock' = "free"
    /\ UNCHANGED <<runVars, recVars, clock, col, left, empty, counter>>

-----------------------------------------------------------------------------
(* The collector. GetAllRecords sends the records with the lock held, and  *)
(* Collect, which only reads them, receives one after the other.           *)

CollectLocks ==
    /\ col = "idle" /\ lock = "free"
    /\ col' = "walk" /\ lock' = "col" /\ left' = [left EXCEPT !["col"] = records]
    /\ UNCHANGED <<runVars, recVars, clock, cleanup, empty, counter>>

CollectNext(k) ==
    /\ col = "walk" /\ k \in left["col"]
    /\ left' = [left EXCEPT !["col"] = @ \ {k}]
    /\ UNCHANGED <<runVars, lock, recVars, clock, cleanup, col, empty, counter>>

CollectUnlocks ==
    /\ col = "walk" /\ left["col"] = {}
    /\ col' = "idle" /\ lock' = "free"
    /\ UNCHANGED <<runVars, recVars, clock, cleanup, left, empty, counter>>

(* GetMetrics: the buckets whose sums are reported.                        *)
GetMetrics(k) == LET slots == Before(k, Capacity)
                 IN  [i \in 1..Capacity |-> ring[k][slots[i]]]

-----------------------------------------------------------------------------
Next ==
    \/ GetTypedRecord \/ AppendTraffic \/ Load \/ Pass \/ CloseInput \/ Return \/ StopTimers
    \/ ClockLocks \/ ClockUnlocks
    \/ CleanupLocks \/ CleanupDeletes \/ CleanupUnlocks
    \/ CollectLocks \/ CollectUnlocks
    \/ \E k \in Keys : ClockTick(k) \/ CleanupTests(k) \/ CollectNext(k)
    \/ \E s, d \in Keys : ReceiveFlow(s, d)

Spec == Init /\ [][Next]_vars

(* Goroutines run, and a lock that is asked for is given before long. The  *)
(* timers need not fire, nobody has to scrape the metrics or to close In.  *)
Fairness ==
    /\ SF_vars(GetTypedRecord) /\ WF_vars(AppendTraffic \/ Load \/ Pass \/ Return) /\ SF_vars(StopTimers)
    /\ WF_vars(ClockUnlocks \/ \E k \in Keys : ClockTick(k))
    /\ WF_vars(CleanupDeletes \/ CleanupUnlocks \/ \E k \in Keys : CleanupTests(k))
    /\ WF_vars(CollectUnlocks \/ \E k \in Keys : CollectNext(k))

FairSpec == Spec /\ Fairness

-----------------------------------------------------------------------------
(* What the collector reports of a record is the traffic of the last       *)
(* Capacity buckets, of which the last one is not over yet: ticks, appends *)
(* and the reuse of the ring's slots lose none of it and count none twice. *)
(* It is above the threshold exactly if the average over its last          *)
(* ThresholdBuckets full buckets was when Clock last visited it.           *)
WindowIsExact ==
    TypeOK /\ \A k \in records :
        /\ \A c \in DOMAIN NoTraffic :
              SumOf(GetMetrics(k), LAMBDA b : b[c]) = SumOf(LastN(hist[k], Capacity), LAMBDA b : b[c])
        /\ above[k] = Exceeds(LastN(Front(hist[k]), ThresholdBuckets))

(* Cleanup deletes only records without traffic, up to the one flow that   *)
(* Run may add to a record between isEmpty and delete.                     *)
CleanupLosesOneFlow ==
    [][\A k \in records \ records' : SumOf(GetMetrics(k), Packets) <= 1]_vars

(* Every flow is passed on or dropped: no holder of the database's lock    *)
(* waits for Run, and Run returns when In is closed, after it has met      *)
(* Clock in its select if it stops the timers.                             *)
RunGoesOn ==
    /\ run \in {"get", "append", "load"} ~> run \in {"send", "drop"}
    /\ inClosed ~> run = "done"
=============================================================================

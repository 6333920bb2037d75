----------------------------- MODULE Lumberjack -----------------------------
(***************************************************************************)
(* The lumberjack output segment, segments/output/lumberjack: Run puts     *)
(* every flow into the queue LumberjackOut and hands it to the next        *)
(* segment; the writer goroutines of every server collect batches from the *)
(* queue and send them when they are full or when the batch timer fires.   *)
(* The client retries a failed Send for ever, except for the last one.     *)
(*                                                                         *)
(* A step is everything between two points at which another goroutine can  *)
(* interfere: a channel operation, a wait, an answer of the server.  A     *)
(* failing dial leaves everything as it is and is a stuttering step.       *)
(***************************************************************************)
EXTENDS Integers, Sequences, FiniteSets, Functions

CONSTANTS
    Servers,      \* the hosts of the option "servers"
    MaxWorkers,   \* bound: writer goroutines of all servers together
    BatchSize,    \* flows per batch
    QueueSize,    \* capacity of LumberjackOut
    Following,    \* segments behind this one in the pipeline
    MaxFlows,     \* bound: flows that arrive
    MaxFailures   \* bound: calls of Send that fail

ASSUME LumberjackAssumption ==
    /\ BatchSize \in Nat \ {0} /\ QueueSize \in Nat \ {0} /\ MaxWorkers \in Nat \ {0}
    /\ Following \in Nat /\ MaxFlows \in Nat /\ MaxFailures \in Nat
    /\ IsFiniteSet(Servers)

VARIABLES
    parallelism, \* options.Parallelism of each server; 0: the server is not configured
    debug,       \* BatchDebugPrintf: "set" if the option "batchdebug" is given, else "nil"
    arrived,     \* flows received from In so far: the flows are 1..arrived
    inClosed,    \* the pipeline's Close has closed In
    run,         \* where Run is
    queue,       \* content of LumberjackOut
    worker,      \* the writer goroutines
    writers,     \* counter of writerWG
    wg,          \* counter of the pipeline's wait group, this and the following segments
    following,   \* following segments that have not returned
    got,         \* how often the server received each flow
    failures,    \* calls of Send that failed so far
    proc         \* "up", "exited" (Close has returned) or the panic that ended the process

conf == <<parallelism, debug>>
counts == <<writers, wg, following>>
server == <<got, failures>>
vars == <<conf, arrived, inClosed, run, queue, worker, counts, server, proc>>

Flows == 1..MaxFlows
Goroutines == Servers \X (1..MaxWorkers)
Workers == {w \in Goroutines : w[2] <= parallelism[w[1]]}

\* A goroutine before its first receive: no client, an empty batch, the timer created and stopped.
NewWorker == [pc |-> "select", batch |-> <<>>, timer |-> "off", conn |-> FALSE]

\* writerWG.Add(1) is called once per server, whatever its parallelism.
Init ==
    /\ parallelism \in [Servers -> 0..MaxWorkers]
    /\ Workers # {} /\ Cardinality(Workers) <= MaxWorkers
    /\ debug \in {"set", "nil"}
    /\ arrived = 0 /\ inClosed = FALSE
    /\ run = "recv"
    /\ queue = <<>>
    /\ worker = [w \in Goroutines |-> NewWorker]
    /\ writers = Cardinality({s \in Servers : parallelism[s] > 0})
    /\ wg = 1 + Following /\ following = Following
    /\ got = [f \in Flows |-> 0]
    /\ failures = 0
    /\ proc = "up"

----------------------------------------------------------------------------
\* Run: the loop over In. A flow goes into the queue first and then to the next segment.

Receive ==
    /\ proc = "up" /\ run = "recv" /\ ~inClosed /\ arrived < MaxFlows
    /\ arrived' = arrived + 1
    /\ run' = "queue"
    /\ UNCHANGED <<parallelism, debug, inClosed, queue, worker, counts, server, proc>>

Enqueue ==
    /\ proc = "up" /\ run = "queue" /\ Len(queue) < QueueSize
    /\ queue' = Append(queue, arrived)
    /\ run' = "out"
    /\ UNCHANGED <<conf, arrived, inClosed, worker, counts, server, proc>>

\* The next segment takes the flow from Out.
Forward ==
    /\ proc = "up" /\ run = "out"
    /\ run' = "recv"
    /\ UNCHANGED <<conf, arrived, inClosed, queue, worker, counts, server, proc>>

\* The loop ends: close(LumberjackOut), then the deferred close(Out).
CloseQueue ==
    /\ proc = "up" /\ run = "recv" /\ inClosed
    /\ run' = "closed"
    /\ UNCHANGED <<conf, arrived, inClosed, queue, worker, counts, server, proc>>

QueueClosed == run \in {"closed", "wait", "done"}
OutClosed == run \in {"wait", "done"}

CloseOut ==
    /\ proc = "up" /\ run = "closed"
    /\ run' = "wait"
    /\ UNCHANGED <<conf, arrived, inClosed, queue, worker, counts, server, proc>>

\* wg.Done(): a counter below zero panics.
WgDone ==
    IF wg = 0 THEN proc' = "negativeWg" /\ UNCHANGED wg
              ELSE wg' = wg - 1 /\ UNCHANGED proc

\* writerWG.Wait() returns and the deferred function ends with wg.Done().
Return ==
    /\ proc = "up" /\ run = "wait" /\ writers = 0
    /\ run' = "done"
    /\ WgDone
    /\ UNCHANGED <<conf, arrived, inClosed, queue, worker, writers, following, server>>

----------------------------------------------------------------------------
\* The writer goroutines.

Step(w) == proc = "up" /\ w \in Workers

\* The server has received the flows of a sequence (once more).
Deliver(s) == got' = [f \in Flows |-> IF f \in Range(s) THEN got[f] + 1 ELSE got[f]]

\* A flow is converted and appended; a full batch stops the timer and is sent.
Take(w) ==
    LET batch == Append(worker[w].batch, Head(queue))
        full == Len(batch) = BatchSize
    IN  /\ Step(w) /\ worker[w].pc = "select" /\ queue # <<>>
        /\ queue' = Tail(queue)
        /\ worker' = [worker EXCEPT ![w].batch = batch,
                                    ![w].pc = IF full THEN "send" ELSE "select",
                                    ![w].timer = IF full THEN "off" ELSE worker[w].timer]
        /\ UNCHANGED <<conf, arrived, inClosed, run, counts, server, proc>>

\* The batch timeout passes.
Tick(w) ==
    /\ Step(w) /\ worker[w].timer = "armed"
    /\ worker' = [worker EXCEPT ![w].timer = "fired"]
    /\ UNCHANGED <<conf, arrived, inClosed, run, queue, counts, server, proc>>

\* Faulty: the timer only runs again, whatever is in the batch.
Expire_OnlyResets(w) ==
    /\ Step(w) /\ worker[w].pc = "select" /\ worker[w].timer = "fired"
    /\ worker' = [worker EXCEPT ![w].timer = "armed"]
    /\ UNCHANGED <<conf, arrived, inClosed, run, queue, counts, server, proc>>

\* The timer's case of the select: an incomplete batch is sent, else the timer runs again.
Expire(w) ==
    /\ Step(w) /\ worker[w].pc = "select" /\ worker[w].timer = "fired"
    /\ IF debug = "nil"
       THEN proc' = "nilBatchDebugPrintf" /\ UNCHANGED worker
       ELSE /\ UNCHANGED proc
            /\ worker' = IF worker[w].batch # <<>>
                         THEN [worker EXCEPT ![w].timer = "off", ![w].pc = "send"]
                         ELSE [worker EXCEPT ![w].timer = "armed"]
    /\ UNCHANGED <<conf, arrived, inClosed, run, queue, counts, server>>

\* connect succeeds: on the first Send of the goroutine or after a failed one.
Connect(w) ==
    /\ Step(w) /\ worker[w].pc = "send" /\ ~worker[w].conn
    /\ worker' = [worker EXCEPT ![w].conn = TRUE]
    /\ UNCHANGED <<conf, arrived, inClosed, run, queue, counts, server, proc>>

\* Send returns. After a full batch BatchDebugPrintf is called; then the timer is set, in both cases.
SendOk(w) ==
    LET b == worker[w].batch
    IN  /\ Step(w) /\ worker[w].pc = "send" /\ worker[w].conn
        /\ Deliver(b)
        /\ worker' = [worker EXCEPT ![w].pc = "select", ![w].batch = <<>>, ![w].timer = "armed"]
        /\ proc' = IF debug = "nil" /\ Len(b) = BatchSize THEN "nilBatchDebugPrintf" ELSE proc
        /\ UNCHANGED <<conf, arrived, inClosed, run, queue, counts, failures>>

\* Faulty: a failed Send is not repeated.
SendFail_NoRetry(w) ==
    /\ Step(w) /\ worker[w].pc = "send" /\ worker[w].conn /\ failures < MaxFailures
    /\ failures' = failures + 1
    /\ \E n \in 0..Len(worker[w].batch) : Deliver(SubSeq(worker[w].batch, 1, n))
    /\ worker' = [worker EXCEPT ![w].pc = "select", ![w].batch = <<>>, ![w].timer = "armed"]
    /\ UNCHANGED <<conf, arrived, inClosed, run, queue, counts, proc>>

\* A call of sc.Send fails after the server may have received the first n flows: at a timeout it is
\* repeated on the same connection, otherwise the client connects again before.
SendFail(w) ==
    /\ Step(w) /\ worker[w].pc = "send" /\ worker[w].conn /\ failures < MaxFailures
    /\ failures' = failures + 1
    /\ \E n \in 0..Len(worker[w].batch) : Deliver(SubSeq(worker[w].batch, 1, n))
    /\ \E c \in BOOLEAN : worker' = [worker EXCEPT ![w].conn = c]
    /\ UNCHANGED <<conf, arrived, inClosed, run, queue, counts, proc>>

\* What the code should do: only Run counts in the pipeline's wait group.
Final_NoDone(w) ==
    /\ Step(w) /\ worker[w].pc = "select" /\ queue = <<>> /\ QueueClosed /\ worker[w].conn
    /\ Deliver(worker[w].batch)
    /\ worker' = [worker EXCEPT ![w].pc = "exit", ![w].batch = <<>>]
    /\ UNCHANGED <<conf, arrived, inClosed, run, queue, counts, failures, proc>>

\* The queue is closed and empty: the rest of the batch is sent without a retry and wg.Done() is
\* called. Without an earlier Send the client has no connection: the call panics.
Final(w) ==
    LET b == worker[w].batch
    IN  /\ Step(w) /\ worker[w].pc = "select" /\ queue = <<>> /\ QueueClosed
        /\ \/ /\ ~worker[w].conn
              /\ proc' = "nilClient"
              /\ UNCHANGED <<worker, wg, server>>
           \/ /\ worker[w].conn
              /\ Deliver(b)
              /\ worker' = [worker EXCEPT ![w].pc = "exit", ![w].batch = <<>>]
              /\ WgDone
              /\ UNCHANGED failures
           \/ /\ worker[w].conn /\ failures < MaxFailures
              /\ failures' = failures + 1
              /\ \E n \in 0..Len(b) : Deliver(SubSeq(b, 1, n))
              /\ worker' = [worker EXCEPT ![w].pc = "exit"]
              /\ WgDone
        /\ UNCHANGED <<conf, arrived, inClosed, run, queue, writers, following>>

\* The deferred calls of the goroutine: client.Close() and writerWG.Done().
Exit(w) ==
    /\ Step(w) /\ worker[w].pc = "exit"
    /\ worker' = [worker EXCEPT ![w].pc = "done"]
    /\ IF writers = 0 THEN proc' = "negativeWriterWG" /\ UNCHANGED writers
                      ELSE writers' = writers - 1 /\ UNCHANGED proc
    /\ UNCHANGED <<conf, arrived, inClosed, run, queue, wg, following, server>>

----------------------------------------------------------------------------
\* The rest of the pipeline.

\* Close of the pipeline, and the end of the segment before this one, close In.
CloseIn ==
    /\ proc = "up" /\ ~inClosed
    /\ inClosed' = TRUE
    /\ UNCHANGED <<conf, arrived, run, queue, worker, counts, server, proc>>

\* A following segment sees Out closed, forwards the close and returns.
FollowingDone ==
    /\ proc = "up" /\ OutClosed /\ following > 0
    /\ following' = following - 1
    /\ WgDone
    /\ UNCHANGED <<conf, arrived, inClosed, run, queue, worker, writers, server>>

\* wg.Wait() of Close returns and main ends the process.
CloseReturns ==
    /\ proc = "up" /\ inClosed /\ wg = 0
    /\ proc' = "exited"
    /\ UNCHANGED <<conf, arrived, inClosed, run, queue, worker, counts, server>>

RunNext == Receive \/ Enqueue \/ Forward \/ CloseQueue \/ CloseOut \/ Return
SendNext(w) == Expire(w) \/ Connect(w) \/ SendOk(w)
EndNext(w) == Final(w) \/ Exit(w)
Next ==
    \/ RunNext
    \/ \E w \in Goroutines : Take(w) \/ SendNext(w) \/ EndNext(w) \/ Tick(w) \/ SendFail(w)
    \/ CloseIn \/ FollowingDone \/ CloseReturns

Spec == Init /\ [][Next]_vars

\* Goroutines and timers make progress, the server accepts connections in the end, failures are
\* bounded, and a select with several ready cases passes over none of them for ever (it chooses at
\* random). Nobody has to close In.
FairSpec ==
    /\ Spec
    /\ WF_vars(RunNext) /\ WF_vars(FollowingDone \/ CloseReturns)
    /\ WF_vars(\E w \in Goroutines : Take(w))
    /\ \A w \in Goroutines : WF_vars(SendNext(w)) /\ WF_vars(EndNext(w)) /\ WF_vars(Tick(w))

----------------------------------------------------------------------------
\* Properties.

Queued == Range(queue)
InBatch(w) == Range(worker[w].batch)
Accepted == (1..arrived) \ (IF run = "queue" THEN {arrived} ELSE {})

TypeOK ==
    /\ parallelism \in [Servers -> 0..MaxWorkers] /\ debug \in {"set", "nil"}
    /\ arrived \in 0..MaxFlows /\ inClosed \in BOOLEAN
    /\ run \in {"recv", "queue", "out", "closed", "wait", "done"}
    /\ queue \in Seq(Flows) /\ Len(queue) <= QueueSize
    /\ worker \in [Goroutines -> [pc : {"select", "send", "exit", "done"}, batch : Seq(Flows),
                                  timer : {"off", "armed", "fired"}, conn : BOOLEAN]]
    /\ writers \in Nat /\ wg \in Nat /\ following \in 0..Following
    /\ got \in [Flows -> Nat] /\ failures \in 0..MaxFailures

(* A flow that Run has put into the queue is in the queue, in the batch of exactly one writer or   *)
(* has been received by a server: retries, reconnects and the timer lose nothing, and what a writer *)
(* gives up when SendNoRetry fails at the end is less than one batch.  A server receives a flow     *)
(* again only because a Send failed that had delivered it already.                                  *)
AtLeastOnce ==
    /\ TypeOK
    /\ Accepted \subseteq Queued \cup {f \in Flows : got[f] > 0} \cup UNION {InBatch(w) : w \in Workers}
    /\ \A v, w \in Workers : v # w => InBatch(v) \cap (InBatch(w) \cup Queued) = {}
    /\ \A w \in Workers : worker[w].pc # "send" => Len(worker[w].batch) < BatchSize
    /\ \A f \in Flows : got[f] <= 1 + failures
    /\ failures = 0 => \A w \in Workers : \A f \in InBatch(w) \cup Queued : got[f] = 0

(* Every writer calls wg.Done() of the pipeline's wait group, which was raised once for the whole   *)
(* segment. So whenever Close returns, lumberjack's Run or that of a following segment is still    *)
(* running, and a shutdown in which they all return ends in a panic.                               *)
CloseReturnsEarly == (run = "done" /\ following = 0) => proc \notin {"up", "exited"}

(* Once a writer has sent a batch its timer runs, and whatever the writer collects is sent, unless  *)
(* the process ends or the queue is closed and the last SendNoRetry fails.  After In is closed Run  *)
(* returns or the process ends.                                                                     *)
TimerSendsBatches ==
    /\ \A w \in Goroutines :
          (worker[w].batch # <<>> /\ worker[w].timer # "off")
              ~> (worker[w].batch = <<>> \/ proc # "up" \/ worker[w].pc = "done")
    /\ inClosed ~> (run = "done" \/ proc # "up")
=============================================================================

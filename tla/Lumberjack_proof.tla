--------------------------- MODULE Lumberjack_proof ---------------------------
(***************************************************************************)
(* Proofs for the lumberjack output, whatever the servers, their           *)
(* parallelism, the batch size, the queue, the failures and the number of  *)
(* flows are: the wait group of the pipeline never waits for all segments  *)
(* of a chain with it, and no accepted flow is lost on the way from the    *)
(* queue to a server.                                                      *)
(***************************************************************************)
EXTENDS Lumberjack, FiniteSetTheorems, TLAPS

Configured == {s \in Servers : parallelism[s] > 0}
Alive == proc \in {"up", "exited"}

(* A writer that has called wg.Done().                                     *)
SomeEnded == \E w \in Goroutines : worker[w].pc \in {"exit", "done"}
SomeDone == \E w \in Goroutines : worker[w].pc = "done"

Writer == [pc : {"select", "send", "exit", "done"}, batch : Seq(Flows),
           timer : {"off", "armed", "fired"}, conn : BOOLEAN]

Types ==
    /\ writers \in Nat /\ wg \in Nat /\ following \in Nat
    /\ arrived \in 0..MaxFlows /\ (run = "queue" => arrived > 0) /\ queue \in Seq(Flows)
    /\ worker \in [Goroutines -> Writer]

(* Of the 1 + Following the wait group was raised by, what is left covers  *)
(* the segments that still run, less one once a writer has ended.          *)
WgInv ==
    Alive => /\ wg <= 1 + following
             /\ run = "done" => wg <= following
             /\ SomeEnded => wg <= following
             /\ run = "done" /\ SomeEnded => wg < following

(* writerWG was raised once per server, so it reaches zero only after a    *)
(* writer has ended, and Run returns only then.                            *)
WriterInv ==
    /\ Cardinality(Configured) \in Nat \ {0}
    /\ writers # Cardinality(Configured) => SomeDone
    /\ run = "done" => writers = 0

IInv == Types /\ WgInv /\ WriterInv

LEMMA InitInv == Init => IInv
<1> SUFFICES ASSUME Init PROVE IInv
  OBVIOUS
<1>1. IsFiniteSet(Configured)
  BY FS_Subset, LumberjackAssumption DEF Configured
<1>2. Configured # {}
  <2>1. PICK w \in Goroutines : w[2] <= parallelism[w[1]]
    BY DEF Init, Workers
  <2>2. w[1] \in Servers /\ w[2] \in Nat /\ w[2] > 0
    BY <2>1, LumberjackAssumption DEF Goroutines
  <2>3. parallelism[w[1]] \in Nat
    BY <2>2, LumberjackAssumption DEF Init
  <2> QED
    BY <2>1, <2>2, <2>3 DEF Configured
<1>3. Cardinality(Configured) \in Nat \ {0}
  BY <1>1, <1>2, FS_CardinalityType, FS_EmptySet
<1>4. NewWorker \in Writer
  BY DEF NewWorker, Writer
<1>5. Types
  BY <1>3, <1>4, LumberjackAssumption DEF Init, Types, Configured, Flows
<1>6. ~SomeEnded
  BY DEF Init, SomeEnded, NewWorker
<1>7. WgInv /\ WriterInv
  BY <1>3, <1>6, LumberjackAssumption DEF Init, WgInv, WriterInv, Configured
<1> QED
  BY <1>5, <1>7 DEF IInv

(* Run, the other segments and Close.                                      *)
LEMMA PipelineStep ==
    ASSUME IInv, RunNext \/ CloseIn \/ FollowingDone \/ CloseReturns
    PROVE  IInv'
<1> USE DEF IInv, Types, WgInv, WriterInv, Alive, SomeEnded, SomeDone, Configured
<1>1. CASE Receive
  BY <1>1, LumberjackAssumption DEF Receive, conf, counts, server
<1>2. CASE Enqueue
  <2>1. arrived \in Flows
    BY <1>2, LumberjackAssumption DEF Enqueue, Flows
  <2>2. queue' \in Seq(Flows)
    BY <1>2, <2>1 DEF Enqueue
  <2> QED
    BY <1>2, <2>2 DEF Enqueue, conf, counts, server
<1>3. CASE Forward \/ CloseQueue \/ CloseOut
  BY <1>3, Zenon DEF Forward, CloseQueue, CloseOut, conf, counts, server
<1>4. CASE Return
  <2>1. /\ UNCHANGED <<parallelism, arrived, queue, worker, writers>> /\ proc = "up"
        /\ \/ wg = 0 /\ proc' = "negativeWg" /\ wg' = wg
           \/ wg > 0 /\ proc' = proc /\ wg' = wg - 1
    BY <1>4 DEF Return, WgDone, conf, server
  <2>2. Types' /\ WriterInv'
    BY <1>4, <2>1 DEF Return
  <2>3. WgInv'
    BY <1>4, <2>1 DEF Return
  <2> QED
    BY <2>2, <2>3, Zenon
<1>5. CASE CloseIn \/ CloseReturns
  BY <1>5, Zenon DEF CloseIn, CloseReturns, conf, counts, server
<1>6. CASE FollowingDone
  <2>1. /\ UNCHANGED <<parallelism, arrived, queue, worker, writers>> /\ proc = "up"
        /\ \/ wg = 0 /\ proc' = "negativeWg" /\ wg' = wg
           \/ wg > 0 /\ proc' = proc /\ wg' = wg - 1
    BY <1>6 DEF FollowingDone, WgDone, conf, server
  <2>2. Types' /\ WriterInv'
    BY <1>6, <2>1 DEF FollowingDone
  <2>3. WgInv'
    BY <1>6, <2>1 DEF FollowingDone
  <2> QED
    BY <2>2, <2>3, Zenon
<1> QED
  BY <1>1, <1>2, <1>3, <1>4, <1>5, <1>6 DEF RunNext

LEMMA EmptyBatch == <<>> \in Seq(Flows)
  OBVIOUS

(* A writer that goes on: the counters are left alone and nobody ends.     *)
LEMMA WriterGoesOn ==
    ASSUME IInv, NEW w \in Goroutines,
           Take(w) \/ SendNext(w) \/ Tick(w) \/ SendFail(w)
    PROVE  IInv'
<1>1. /\ UNCHANGED <<parallelism, arrived, run, counts>>
      /\ proc = "up"
  BY DEF Take, SendNext, Tick, SendFail, Expire, Connect, SendOk, Step, conf, counts
<1>2. worker \in [Goroutines -> Writer] /\ worker[w] \in Writer /\ queue \in Seq(Flows)
  BY DEF IInv, Types
<1>3. queue' \in Seq(Flows)
  <2>1. CASE Take(w)
    BY <1>2, <2>1 DEF Take
  <2>2. CASE SendNext(w) \/ Tick(w) \/ SendFail(w)
    BY <1>2, <2>2 DEF SendNext, Expire, Connect, SendOk, Tick, SendFail
  <2> QED
    BY <2>1, <2>2
<1>4. PICK r \in Writer : /\ worker' = [worker EXCEPT ![w] = r]
                          /\ \/ r.pc = worker[w].pc
                             \/ r.pc \in {"select", "send"} /\ worker[w].pc \in {"select", "send"}
  <2>1. CASE Take(w)
    <3> DEFINE batch == Append(worker[w].batch, Head(queue))
               full == Len(batch) = BatchSize
    <3>1. batch \in Seq(Flows) /\ worker[w].pc = "select"
      BY <1>2, <2>1 DEF Take, Writer
    <3>2. worker' = [worker EXCEPT ![w] = [worker[w] EXCEPT !.batch = batch,
                                           !.pc = IF full THEN "send" ELSE "select",
                                           !.timer = IF full THEN "off" ELSE worker[w].timer]]
      BY <1>2, <2>1, Zenon DEF Take, Writer
    <3> DEFINE q == [worker[w] EXCEPT !.batch = batch, !.pc = IF full THEN "send" ELSE "select",
                                      !.timer = IF full THEN "off" ELSE worker[w].timer]
    <3> HIDE DEF batch
    <3>3. q \in Writer /\ q.pc \in {"select", "send"}
      BY <1>2, <3>1, Zenon DEF Writer
    <3> QED
      BY <3>1, <3>2, <3>3, Zenon
  <2>2. CASE Expire(w)
    <3>1. \/ worker' = worker
          \/ worker' = [worker EXCEPT ![w] = [worker[w] EXCEPT !.timer = "off", !.pc = "send"]]
          \/ worker' = [worker EXCEPT ![w] = [worker[w] EXCEPT !.timer = "armed"]]
      BY <1>2, <2>2, Zenon DEF Expire
    <3>2. worker = [worker EXCEPT ![w] = worker[w]] /\ worker[w].pc = "select"
      BY <1>2, <2>2 DEF Expire
    <3> DEFINE q == [worker[w] EXCEPT !.timer = "off", !.pc = "send"]
               a == [worker[w] EXCEPT !.timer = "armed"]
    <3>3. q \in Writer /\ q.pc = "send" /\ a \in Writer /\ a.pc = worker[w].pc
      BY <1>2, Zenon DEF Writer
    <3>4. worker' = worker \/ worker' = [worker EXCEPT ![w] = q] \/ worker' = [worker EXCEPT ![w] = a]
      BY <3>1
    <3> HIDE DEF q, a
    <3> QED
      BY <1>2, <3>2, <3>3, <3>4
  <2>3. CASE Connect(w) \/ Tick(w) \/ SendFail(w)
    <3>1. \/ worker' = [worker EXCEPT ![w] = [worker[w] EXCEPT !.timer = "fired"]]
          \/ \E c \in BOOLEAN : worker' = [worker EXCEPT ![w] = [worker[w] EXCEPT !.conn = c]]
      BY <2>3, Zenon DEF Connect, Tick, SendFail
    <3> DEFINE q == [worker[w] EXCEPT !.timer = "fired"]
               a(c) == [worker[w] EXCEPT !.conn = c]
    <3>2. q \in Writer /\ q.pc = worker[w].pc
      BY <1>2 DEF Writer
    <3>3. \A c \in BOOLEAN : a(c) \in Writer /\ a(c).pc = worker[w].pc
      BY <1>2, Zenon DEF Writer
    <3>4. worker' = [worker EXCEPT ![w] = q] \/ \E c \in BOOLEAN : worker' = [worker EXCEPT ![w] = a(c)]
      BY <3>1
    <3> HIDE DEF q, a
    <3> QED
      BY <3>2, <3>3, <3>4
  <2>4. CASE SendOk(w)
    <3>1. /\ worker' = [worker EXCEPT ![w] = [worker[w] EXCEPT !.pc = "select", !.batch = <<>>,
                                                               !.timer = "armed"]]
          /\ worker[w].pc = "send"
      BY <1>2, <2>4, Zenon DEF SendOk, Writer
    <3> DEFINE e == <<>>
               q == [worker[w] EXCEPT !.pc = "select", !.batch = e, !.timer = "armed"]
    <3>2. q \in Writer /\ q.pc = "select"
      <4>1. e \in Seq(Flows)
        BY EmptyBatch
      <4> HIDE DEF e
      <4> QED
        BY <1>2, <4>1, Zenon DEF Writer
    <3>3. worker' = [worker EXCEPT ![w] = q]
      BY <3>1
    <3> HIDE DEF q
    <3> QED
      BY <3>1, <3>2, <3>3, Zenon
  <2> QED
    BY <2>1, <2>2, <2>3, <2>4 DEF SendNext
<1>5. worker' \in [Goroutines -> Writer]
  BY <1>2, <1>4
<1>6. \A v \in Goroutines : worker'[v] = IF v = w THEN r ELSE worker[v]
  BY <1>2, <1>4
<1>7. (SomeEnded' <=> SomeEnded) /\ (SomeDone' <=> SomeDone)
  BY <1>4, <1>6 DEF SomeEnded, SomeDone
<1> QED
  BY <1>1, <1>3, <1>5, <1>7 DEF IInv, Types, WgInv, WriterInv, Alive, Configured, counts

(* A writer that ends takes one from the pipeline's wait group, and one    *)
(* from writerWG.                                                          *)
LEMMA WriterEnds ==
    ASSUME IInv, NEW w \in Goroutines, EndNext(w)
    PROVE  IInv'
<1>1. UNCHANGED <<parallelism, arrived, run, queue, following>> /\ proc = "up"
  BY DEF EndNext, Final, Exit, Step, conf
<1>2. ASSUME Final(w), worker[w].conn PROVE IInv'
  <2>1. \/ worker' = [worker EXCEPT ![w].pc = "exit", ![w].batch = <<>>]
        \/ worker' = [worker EXCEPT ![w].pc = "exit"]
    BY <1>2 DEF Final
  <2>2. worker' \in [Goroutines -> Writer] /\ worker'[w].pc = "exit"
    <3>1. worker[w] \in Writer /\ worker \in [Goroutines -> Writer]
      BY DEF IInv, Types
    <3>2. \E r \in Writer : r.pc = "exit" /\ worker' = [worker EXCEPT ![w] = r]
      <4> DEFINE q == [worker[w] EXCEPT !.pc = "exit"]
                 e == <<>>
                 a == [worker[w] EXCEPT !.pc = "exit", !.batch = e]
      <4>1. q \in Writer /\ q.pc = "exit" /\ a \in Writer /\ a.pc = "exit"
        <5>1. e \in Seq(Flows)
          BY EmptyBatch
        <5> HIDE DEF e
        <5> QED
          BY <3>1, <5>1, Zenon DEF Writer
      <4>2. worker' = [worker EXCEPT ![w] = q] \/ worker' = [worker EXCEPT ![w] = a]
        BY <2>1, <3>1 DEF Writer
      <4> HIDE DEF q, a
      <4> QED
        BY <4>1, <4>2
    <3> QED
      BY <3>1, <3>2
  <2>3. SomeEnded'
    BY <2>2 DEF SomeEnded
  <2>4. SomeDone => SomeDone'
    <3>1. worker[w].pc # "done"
      BY <1>2 DEF Final
    <3>2. \A v \in Goroutines \ {w} : worker'[v] = worker[v]
      BY <2>1 DEF IInv, Types
    <3> QED
      BY <3>1, <3>2 DEF SomeDone
  <2>5. /\ writers' = writers
        /\ \/ wg = 0 /\ proc' = "negativeWg" /\ wg' = wg
           \/ wg > 0 /\ proc' = proc /\ wg' = wg - 1
    BY <1>2 DEF Final, WgDone, IInv, Types
  <2>6. Types'
    BY <1>1, <2>2, <2>5 DEF IInv, Types
  <2>7. WgInv'
    BY <1>1, <2>5 DEF IInv, Types, WgInv, Alive
  <2>8. WriterInv'
    BY <1>1, <2>4, <2>5 DEF IInv, WriterInv, Configured
  <2> QED
    BY <2>6, <2>7, <2>8 DEF IInv
<1>3. ASSUME Final(w), ~worker[w].conn PROVE IInv'
  <2>1. UNCHANGED <<worker, wg, writers>> /\ proc' = "nilClient"
    BY <1>3 DEF Final
  <2> QED
    BY <1>1, <2>1 DEF IInv, Types, WgInv, WriterInv, Alive, SomeDone, Configured
<1>4. ASSUME Exit(w) PROVE IInv'
  <2>1. worker' = [worker EXCEPT ![w].pc = "done"] /\ wg' = wg
    BY <1>4 DEF Exit
  <2>2. worker' \in [Goroutines -> Writer] /\ worker'[w].pc = "done"
    <3> DEFINE r == [worker[w] EXCEPT !.pc = "done"]
    <3>1. worker[w] \in Writer /\ worker \in [Goroutines -> Writer]
      BY DEF IInv, Types
    <3>2. r \in Writer /\ r.pc = "done"
      BY <3>1 DEF Writer
    <3>3. worker' = [worker EXCEPT ![w] = r]
      BY <2>1
    <3> HIDE DEF r
    <3> QED
      BY <3>1, <3>2, <3>3
  <2>3. SomeEnded' /\ SomeDone' /\ SomeEnded
    BY <1>4, <2>2 DEF SomeEnded, SomeDone, Exit
  <2>4. IF writers = 0 THEN proc' = "negativeWriterWG" /\ writers' = writers
        ELSE writers' = writers - 1 /\ proc' = proc
    BY <1>4 DEF Exit
  <2>5. Types'
    BY <1>1, <2>1, <2>2, <2>4 DEF IInv, Types
  <2>6. WgInv'
    BY <1>1, <2>1, <2>3, <2>4 DEF IInv, Types, WgInv, Alive
  <2>7. WriterInv'
    BY <1>1, <2>3, <2>4 DEF IInv, Types, WriterInv, Configured
  <2> QED
    BY <2>5, <2>6, <2>7 DEF IInv
<1> QED
  BY <1>2, <1>3, <1>4 DEF EndNext

(* Every step of the program keeps the counters in step.                   *)
LEMMA InvStep == IInv /\ [Next]_vars => IInv'
<1> SUFFICES ASSUME IInv, [Next]_vars PROVE IInv'
  OBVIOUS
<1>1. CASE UNCHANGED vars
  BY <1>1 DEF vars, conf, counts, IInv, Types, WgInv, WriterInv, Alive, SomeEnded, SomeDone, Configured
<1>2. CASE Next
  BY <1>2, PipelineStep, WriterGoesOn, WriterEnds DEF Next
<1> QED
  BY <1>1, <1>2

(* Close never waits for lumberjack and all that follows it: when Run and  *)
(* the Runs of all following segments have returned, the process has       *)
(* panicked, so a Close that returned did so before one of them.           *)
THEOREM CloseNeverWaits == Spec => []CloseReturnsEarly
<1>1. IInv => CloseReturnsEarly
  <2> SUFFICES ASSUME IInv, run = "done", following = 0, Alive PROVE FALSE
    BY DEF CloseReturnsEarly, Alive
  <2>1. SomeDone
    BY DEF IInv, WriterInv
  <2>2. SomeEnded
    BY <2>1 DEF SomeDone, SomeEnded
  <2> QED
    BY <2>2 DEF IInv, Types, WgInv
<1> QED
  BY InitInv, InvStep, <1>1, PTL DEF Spec

-----------------------------------------------------------------------------
(* Where the flows are.                                                    *)

Distinct(s) == \A i, j \in DOMAIN s : i # j => s[i] # s[j]

(* AtLeastOnce made inductive: each accepted flow has a place, no flow is  *)
(* in two places, what is still to be sent has been received at most once  *)
(* per failure, and a flow that is not accepted not at all.                *)
FlowInv ==
    /\ Queued \subseteq Accepted /\ Distinct(queue)
    /\ \A w \in Workers : InBatch(w) \subseteq Accepted /\ InBatch(w) \cap Queued = {}
    /\ \A v, w \in Workers : v # w => InBatch(v) \cap InBatch(w) = {}
    /\ \A f \in Accepted : f \in Queued \/ got[f] > 0 \/ \E w \in Workers : f \in InBatch(w)
    /\ \A w \in Workers : worker[w].pc # "send" => Len(worker[w].batch) < BatchSize
    /\ \A f \in Flows : got[f] <= 1 + failures
    /\ \A f \in Queued : got[f] <= failures
    /\ \A w \in Workers : \A f \in InBatch(w) : got[f] <= failures
    /\ \A f \in Flows \ Accepted : got[f] = 0

(* The flows of a sequence: after an append, without its head, of a part.  *)
LEMMA RangeAppend == ASSUME NEW S, NEW s \in Seq(S), NEW x \in S PROVE Range(Append(s, x)) = Range(s) \cup {x}
<1>1. \A i \in DOMAIN s : i \in DOMAIN Append(s, x) /\ Append(s, x)[i] = s[i]
  OBVIOUS
<1>2. Len(s) + 1 \in DOMAIN Append(s, x) /\ Append(s, x)[Len(s) + 1] = x
  OBVIOUS
<1>3. \A i \in DOMAIN Append(s, x) : i \in DOMAIN s \/ i = Len(s) + 1
  OBVIOUS
<1> QED
  BY <1>1, <1>2, <1>3 DEF Range

LEMMA RangeHeadTail == ASSUME NEW S, NEW s \in Seq(S), s # <<>>
                       PROVE  Range(s) = {Head(s)} \cup Range(Tail(s)) /\ Head(s) \in S
<1>1. Range(Tail(s)) \subseteq Range(s) /\ Head(s) \in Range(s) /\ Head(s) \in S
  BY DEF Range
<1>2. ASSUME NEW i \in DOMAIN s PROVE s[i] \in {Head(s)} \cup Range(Tail(s))
  <2>1. CASE i = 1
    BY <2>1
  <2>2. CASE i # 1
    <3>1. i - 1 \in DOMAIN Tail(s) /\ Tail(s)[i - 1] = s[i]
      BY <2>2
    <3> QED
      BY <3>1 DEF Range
  <2> QED
    BY <2>1, <2>2
<1> QED
  BY <1>1, <1>2 DEF Range

(* Distinct flows stay distinct when one leaves or a new one is appended.  *)
LEMMA DistinctTail == ASSUME NEW S, NEW s \in Seq(S), s # <<>>, Distinct(s)
                      PROVE  Distinct(Tail(s)) /\ Head(s) \notin Range(Tail(s))
  BY DEF Range, Distinct

LEMMA DistinctAppend == ASSUME NEW S, NEW s \in Seq(S), NEW x \in S \ Range(s), Distinct(s)
                        PROVE  Distinct(Append(s, x))
  BY DEF Range, Distinct

LEMMA RangePrefix == ASSUME NEW S, NEW s \in Seq(S), NEW n \in 0..Len(s)
                     PROVE  Range(SubSeq(s, 1, n)) \subseteq Range(s)
  BY DEF Range

LEMMA RangeEmpty == Range(<<>>) = {}
  BY DEF Range

LEMMA RangeType == ASSUME NEW S, NEW s \in Seq(S) PROVE Range(s) \subseteq S
  BY DEF Range

(* The flow at hand is not accepted before it is in the queue.             *)
LEMMA AcceptedFacts ==
    ASSUME Types
    PROVE  /\ Accepted \subseteq Flows
           /\ run # "queue" => Accepted = 1..arrived
           /\ run = "queue" => arrived \in Flows \ Accepted /\ 1..arrived = Accepted \cup {arrived}
  BY LumberjackAssumption DEF Types, Accepted, Flows

(* A step that neither moves a flow nor tells the server of one.           *)
LEMMA FlowsKept ==
    ASSUME FlowInv, Accepted' = Accepted,
           UNCHANGED <<parallelism, queue, got, failures>>,
           \A w \in Workers :
              /\ worker'[w].batch = worker[w].batch
              /\ worker'[w].pc # "send" => worker[w].pc # "send"
    PROVE  FlowInv'
<1>1. Workers' = Workers /\ Queued' = Queued
  BY DEF Workers, Queued
<1>2. \A w \in Workers : InBatch(w)' = InBatch(w)
  BY DEF InBatch
<1> QED
  BY <1>1, <1>2 DEF FlowInv

(* Run and the pipeline: only Enqueue moves a flow, into the queue.        *)
LEMMA FlowsOfPipelineStep ==
    ASSUME TypeOK, Types, FlowInv, RunNext \/ CloseIn \/ FollowingDone \/ CloseReturns
    PROVE  FlowInv'
<1>1. CASE Enqueue
  <2>1. /\ Accepted' = Accepted \cup {arrived} /\ arrived \in Flows \ Accepted
        /\ UNCHANGED <<parallelism, worker, got, failures>>
    BY <1>1, AcceptedFacts DEF Enqueue, Accepted, conf, server
  <2>2. Queued' = Queued \cup {arrived}
    BY <1>1, <2>1, RangeAppend DEF Enqueue, Queued, Types
  <2>3. Distinct(queue')
    BY <1>1, <2>1, DistinctAppend DEF Enqueue, Types, FlowInv, Queued
  <2>4. Workers' = Workers /\ \A w \in Workers : InBatch(w)' = InBatch(w)
    BY <2>1 DEF Workers, InBatch
  <2>5. got[arrived] = 0 /\ 0 <= failures
    BY <2>1, LumberjackAssumption DEF FlowInv, TypeOK
  <2> QED
    BY <2>1, <2>2, <2>3, <2>4, <2>5 DEF FlowInv
<1>2. CASE ~Enqueue
  <2>1. UNCHANGED <<parallelism, queue, worker, got, failures>>
    BY <1>2 DEF RunNext, Receive, Forward, CloseQueue, CloseOut, Return, CloseIn, FollowingDone,
                CloseReturns, conf, server
  <2>2. Accepted' = Accepted
    BY <1>2, LumberjackAssumption, SMTT(30)
    DEF RunNext, Receive, Forward, CloseQueue, CloseOut, Return, CloseIn, FollowingDone,
        CloseReturns, Accepted, Types
  <2> QED
    BY <2>1, <2>2, FlowsKept
<1> QED
  BY <1>1, <1>2

(* The writers have their batches for themselves.                          *)
LEMMA OthersKept ==
    ASSUME TypeOK, NEW w \in Goroutines,
           Take(w) \/ SendNext(w) \/ EndNext(w) \/ Tick(w) \/ SendFail(w)
    PROVE  /\ UNCHANGED <<parallelism, arrived, run>> /\ w \in Workers
           /\ \A v \in Goroutines \ {w} : worker'[v] = worker[v]
  BY Zenon DEF TypeOK, Take, SendNext, Expire, Connect, SendOk, EndNext, Final, Exit, Tick, SendFail,
         Step, conf

(* A writer takes the oldest flow of the queue.                            *)
LEMMA FlowsTaken ==
    ASSUME TypeOK, FlowInv, NEW w \in Goroutines, Take(w)
    PROVE  FlowInv'
<1> DEFINE h == Head(queue)
           batch == Append(worker[w].batch, h)
<1>1. /\ UNCHANGED <<parallelism, arrived, run>> /\ w \in Workers
      /\ \A v \in Goroutines \ {w} : worker'[v] = worker[v]
  BY OthersKept
<1>2. /\ UNCHANGED <<got, failures>> /\ queue' = Tail(queue) /\ queue # <<>>
      /\ worker[w].pc = "select"
      /\ worker'[w].batch = batch
      /\ worker'[w].pc # "send" => Len(batch) # BatchSize
  BY DEF Take, server, TypeOK
<1>3. queue \in Seq(Flows) /\ worker[w].batch \in Seq(Flows)
  BY DEF TypeOK
<1>4. Queued = {h} \cup Queued' /\ h \notin Queued' /\ h \in Flows /\ Distinct(queue')
  BY <1>2, <1>3, RangeHeadTail, DistinctTail DEF Queued, FlowInv
<1>5. InBatch(w)' = InBatch(w) \cup {h}
  BY <1>2, <1>3, <1>4, RangeAppend DEF InBatch
<1>6. Workers' = Workers /\ Accepted' = Accepted
      /\ \A v \in Workers \ {w} : InBatch(v)' = InBatch(v) /\ worker'[v] = worker[v]
  BY <1>1 DEF Workers, Accepted, InBatch
<1>7. worker'[w].pc # "send" => Len(worker'[w].batch) < BatchSize
  <2>1. Len(batch) = Len(worker[w].batch) + 1 /\ Len(worker[w].batch) < BatchSize
    BY <1>1, <1>2, <1>3 DEF FlowInv
  <2> QED
    BY <1>2, <1>3, <2>1, LumberjackAssumption
<1> HIDE DEF h, batch
<1> QED
  BY <1>1, <1>2, <1>4, <1>5, <1>6, <1>7 DEF FlowInv

(* All that is accepted, queued or in a batch is a flow.                   *)
LEMMA FlowsAreFlows ==
    ASSUME TypeOK
    PROVE  /\ Accepted \subseteq Flows /\ Queued \subseteq Flows
           /\ \A w \in Workers : InBatch(w) \subseteq Flows
           /\ \A f \in Flows : got[f] \in Nat
           /\ failures \in Nat
<1>1. Accepted \subseteq Flows
  BY LumberjackAssumption DEF TypeOK, Accepted, Flows
<1>2. Queued \subseteq Flows
  BY RangeType DEF TypeOK, Queued
<1>3. ASSUME NEW w \in Workers PROVE InBatch(w) \subseteq Flows
  <2>1. worker[w].batch \in Seq(Flows)
    BY ZenonT(30) DEF TypeOK, Workers
  <2> QED
    BY <2>1, RangeType DEF InBatch
<1> QED
  BY <1>1, <1>2, <1>3, LumberjackAssumption DEF TypeOK

(* A writer is rid of its batch, which the server has received.            *)
LEMMA FlowsDelivered ==
    ASSUME TypeOK, FlowInv, NEW w \in Workers,
           UNCHANGED <<parallelism, arrived, run, queue, failures>>,
           \A v \in Workers \ {w} : worker'[v] = worker[v],
           worker'[w].batch = <<>>, Deliver(worker[w].batch)
    PROVE  FlowInv'
<1>1. Workers' = Workers /\ Accepted' = Accepted /\ Queued' = Queued
      /\ \A v \in Workers \ {w} : InBatch(v)' = InBatch(v)
  BY SMTT(30) DEF Workers, Accepted, InBatch, Queued
<1>2. InBatch(w)' = {} /\ Len(worker'[w].batch) < BatchSize
  BY LumberjackAssumption, RangeEmpty DEF InBatch
<1>3. \A f \in Flows : got'[f] = IF f \in InBatch(w) THEN got[f] + 1 ELSE got[f]
  BY Zenon DEF Deliver, InBatch
<1> QED
  BY <1>1, <1>2, <1>3, FlowsAreFlows, SMTT(30) DEF FlowInv

(* A call of Send has failed: the server may have received some of it.     *)
LEMMA FlowsRepeated ==
    ASSUME TypeOK, FlowInv, NEW w \in Workers,
           UNCHANGED <<parallelism, arrived, run, queue>>,
           failures' = failures + 1,
           \A v \in Workers \ {w} : worker'[v] = worker[v],
           worker'[w].batch = worker[w].batch, worker'[w].pc # "send" => worker[w].pc # "send",
           NEW n \in 0..Len(worker[w].batch), Deliver(SubSeq(worker[w].batch, 1, n))
    PROVE  FlowInv'
<1>1. Workers' = Workers /\ Accepted' = Accepted /\ Queued' = Queued
      /\ \A v \in Workers : InBatch(v)' = InBatch(v)
  BY DEF Workers, Accepted, InBatch, Queued
<1>2. PICK sent \in SUBSET InBatch(w) : \A f \in Flows : got'[f] = IF f \in sent THEN got[f] + 1 ELSE got[f]
  <2>1. worker[w].batch \in Seq(Flows)
    BY DEF TypeOK, Workers
  <2>2. Range(SubSeq(worker[w].batch, 1, n)) \subseteq InBatch(w)
    BY <2>1, RangePrefix DEF InBatch
  <2> QED
    BY <2>2, Zenon DEF Deliver
<1> QED
  BY <1>1, <1>2, FlowsAreFlows DEF FlowInv

(* A writer moves a flow from the queue to its batch, or delivers it.      *)
LEMMA FlowsOfWriter ==
    ASSUME TypeOK, FlowInv, NEW w \in Goroutines,
           Take(w) \/ SendNext(w) \/ EndNext(w) \/ Tick(w) \/ SendFail(w)
    PROVE  FlowInv'
<1>1. /\ UNCHANGED <<parallelism, arrived, run>> /\ w \in Workers
      /\ \A v \in Workers \ {w} : worker'[v] = worker[v]
  BY OthersKept DEF Workers
<1>2. worker[w] \in Writer /\ worker \in [Goroutines -> Writer]
  BY Zenon DEF TypeOK, Writer
<1>3. CASE Tick(w) \/ Expire(w) \/ Connect(w) \/ Exit(w)
  <2>1. UNCHANGED <<queue, got, failures>>
    BY <1>3 DEF Tick, Expire, Connect, Exit, server
  <2>2. worker'[w].batch = worker[w].batch /\ (worker'[w].pc # "send" => worker[w].pc # "send")
    BY <1>2, <1>3 DEF Tick, Expire, Connect, Exit, Writer
  <2>3. Accepted' = Accepted
    BY <1>1, Zenon DEF Accepted
  <2> QED
    BY <1>1, <2>1, <2>2, <2>3, FlowsKept
<1>4. CASE SendOk(w)
  <2>1. UNCHANGED <<queue, failures>> /\ Deliver(worker[w].batch) /\ worker'[w].batch = <<>>
    BY <1>2, <1>4, Zenon DEF SendOk, Writer
  <2> QED
    BY <1>1, <2>1, FlowsDelivered
<1>5. CASE SendFail(w)
  <2>1. /\ queue' = queue /\ failures' = failures + 1
        /\ worker'[w].batch = worker[w].batch /\ worker'[w].pc = worker[w].pc
    BY <1>2, <1>5 DEF SendFail, Writer
  <2>2. \E n \in 0..Len(worker[w].batch) : Deliver(SubSeq(worker[w].batch, 1, n))
    BY <1>5 DEF SendFail
  <2> QED
    BY <1>1, <2>1, <2>2, FlowsRepeated
<1>6. CASE Final(w)
  <2>1. queue' = queue /\ worker[w].pc = "select"
    BY <1>6, Zenon DEF Final
  <2>2. CASE UNCHANGED <<worker, got, failures>>
    BY <1>1, <2>1, <2>2, FlowsKept DEF Accepted
  <2>3. CASE /\ Deliver(worker[w].batch) /\ failures' = failures
             /\ worker' = [worker EXCEPT ![w].pc = "exit", ![w].batch = <<>>]
    <3>1. worker'[w].batch = <<>>
      BY <1>2, <2>3 DEF Writer
    <3> QED
      BY <1>1, <2>1, <2>3, <3>1, FlowsDelivered, Zenon
  <2>4. CASE /\ failures' = failures + 1 /\ worker' = [worker EXCEPT ![w].pc = "exit"]
             /\ \E n \in 0..Len(worker[w].batch) : Deliver(SubSeq(worker[w].batch, 1, n))
    <3>1. worker'[w].batch = worker[w].batch
      BY <1>2, <2>4 DEF Writer
    <3> QED
      BY <1>1, <2>1, <2>4, <3>1, FlowsRepeated
  <2> QED
    BY <1>6, <2>2, <2>3, <2>4 DEF Final, server
<1> QED
  BY <1>3, <1>4, <1>5, <1>6, FlowsTaken DEF SendNext, EndNext

(* TypeOK, without what Types says already.                                *)
Rest ==
    /\ parallelism \in [Servers -> 0..MaxWorkers] /\ debug \in {"set", "nil"} /\ inClosed \in BOOLEAN
    /\ run \in {"recv", "queue", "out", "closed", "wait", "done"}
    /\ Len(queue) <= QueueSize /\ following \in 0..Following
    /\ got \in [Flows -> Nat] /\ failures \in 0..MaxFailures

(* No step of the program leaves the types.                                *)
LEMMA NextType ==
    ASSUME TypeOK, Types', [Next]_vars
    PROVE  TypeOK'
<1>0. Rest /\ queue \in Seq(Flows)
  BY DEF TypeOK, Rest
<1> SUFFICES Rest'
  BY DEF TypeOK, Types, Rest, Writer
<1>1. CASE RunNext
  <2>1. UNCHANGED <<parallelism, debug, inClosed, following, got, failures>>
    BY <1>1 DEF RunNext, Receive, Enqueue, Forward, CloseQueue, CloseOut, Return, conf, counts, server
  <2>2. run' \in {"recv", "queue", "out", "closed", "wait", "done"}
    BY <1>1 DEF RunNext, Receive, Enqueue, Forward, CloseQueue, CloseOut, Return
  <2>3. Len(queue') <= QueueSize
    <3>1. CASE Enqueue
      <4>1. Len(queue) < QueueSize /\ queue' = Append(queue, arrived) /\ QueueSize \in Nat
        BY <3>1, LumberjackAssumption DEF Enqueue
      <4> QED
        BY <1>0, <4>1
    <3>2. CASE queue' = queue
      BY <1>0, <3>2 DEF Rest
    <3> QED
      BY <1>1, <3>1, <3>2 DEF RunNext, Receive, Forward, CloseQueue, CloseOut, Return
  <2> QED
    BY <1>0, <2>1, <2>2, <2>3 DEF Rest
<1>2. CASE CloseIn \/ FollowingDone \/ CloseReturns \/ UNCHANGED vars
  <2>1. UNCHANGED <<parallelism, debug, run, queue, got, failures>>
    BY <1>2 DEF CloseIn, FollowingDone, CloseReturns, vars, conf, counts, server
  <2>2. inClosed' = inClosed \/ inClosed' = TRUE
    BY <1>2 DEF CloseIn, FollowingDone, CloseReturns, vars
  <2>3. following' = following \/ (following > 0 /\ following' = following - 1)
    <3>1. CASE FollowingDone
      BY <3>1 DEF FollowingDone
    <3>2. CASE CloseIn \/ CloseReturns \/ UNCHANGED vars
      BY <3>2 DEF CloseIn, CloseReturns, vars, counts
    <3> QED
      BY <1>2, <3>1, <3>2
  <2>4. inClosed' \in BOOLEAN
    BY <1>0, <2>2, Zenon DEF Rest
  <2>5. following' \in 0..Following
    BY <1>0, <2>3, LumberjackAssumption DEF Rest
  <2> QED
    BY <1>0, <2>1, <2>4, <2>5 DEF Rest
<1>3. ASSUME NEW w \in Goroutines,
             Take(w) \/ SendNext(w) \/ EndNext(w) \/ Tick(w) \/ SendFail(w)
      PROVE  Rest'
  <2>1. UNCHANGED <<parallelism, debug, inClosed, run, following>>
    BY <1>3 DEF Take, SendNext, Expire, Connect, SendOk, EndNext, Final, Exit, Tick, SendFail, conf, counts
  <2>2. queue' = queue \/ (queue # <<>> /\ queue' = Tail(queue))
    <3>1. CASE Take(w)
      BY <3>1, Zenon DEF Take
    <3>2. SendNext(w) \/ EndNext(w) \/ Tick(w) \/ SendFail(w) => queue' = queue
      BY DEF SendNext, Expire, Connect, SendOk, EndNext, Final, Exit, Tick, SendFail
    <3> QED
      BY <1>3, <3>1, <3>2
  <2>3. Len(queue') <= QueueSize
    BY <1>0, <2>2, LumberjackAssumption, SMTT(30) DEF Rest
  <2>4. got' = got \/ \E s : Deliver(s)
    BY <1>3 DEF Take, SendNext, Expire, Connect, SendOk, EndNext, Final, Exit, Tick, SendFail, server
  <2>5. got' \in [Flows -> Nat]
    BY <1>0, <2>4, SMTT(30) DEF Rest, Deliver
  <2>6. failures' = failures \/ (failures < MaxFailures /\ failures' = failures + 1)
    <3>1. Take(w) \/ SendNext(w) \/ Tick(w) \/ Exit(w) => failures' = failures
      BY DEF Take, SendNext, Expire, Connect, SendOk, Exit, Tick, server
    <3>2. CASE SendFail(w)
      BY <3>2 DEF SendFail
    <3>3. CASE Final(w)
      <4>1. UNCHANGED server \/ UNCHANGED failures \/ (failures < MaxFailures /\ failures' = failures + 1)
        BY <3>3 DEF Final
      <4> QED
        BY <4>1 DEF server
    <3> QED
      BY <1>3, <3>1, <3>2, <3>3 DEF EndNext
  <2>7. failures' \in 0..MaxFailures
    BY <1>0, <2>6, LumberjackAssumption, SMTT(30) DEF Rest
  <2> QED
    BY <1>0, <2>1, <2>3, <2>5, <2>7, SMTT(30) DEF Rest
<1> QED
  BY <1>1, <1>2, <1>3 DEF Next

(* At the start no flow is anywhere.                                       *)
LEMMA InitFlows == Init => TypeOK /\ FlowInv
<1> SUFFICES ASSUME Init PROVE TypeOK /\ FlowInv
  OBVIOUS
<1>0. Len(<<>>) = 0 /\ [f \in Flows |-> 0] \in [Flows -> Nat]
  OBVIOUS
<1>1. Rest /\ Types
  <2>1. Types
    BY InitInv DEF IInv
  <2>2. parallelism \in [Servers -> 0..MaxWorkers] /\ debug \in {"set", "nil"}
    BY DEF Init
  <2>3. inClosed \in BOOLEAN /\ run = "recv"
    BY Zenon DEF Init
  <2>4. Len(queue) <= QueueSize /\ following \in 0..Following /\ failures \in 0..MaxFailures
    BY LumberjackAssumption DEF Init
  <2>5. got \in [Flows -> Nat]
    BY <1>0 DEF Init
  <2> QED
    BY <2>1, <2>2, <2>3, <2>4, <2>5 DEF Rest
<1>2. Queued = {} /\ Accepted = {}
  BY RangeEmpty DEF Init, Queued, Accepted
<1>3. \A w \in Workers : InBatch(w) = {} /\ Len(worker[w].batch) = 0
  BY RangeEmpty DEF Init, InBatch, Workers, NewWorker
<1>4. Distinct(queue)
  BY DEF Init, Distinct
<1> QED
  BY <1>1, <1>2, <1>3, <1>4, LumberjackAssumption DEF Init, FlowInv, TypeOK, Types, Rest, Writer

(* At every moment each flow that Run has put into the queue is in the     *)
(* queue, in one batch or at a server, whatever the writers, the failures  *)
(* of the servers and the end of the pipeline do.                          *)
THEOREM NothingLost == Spec => []AtLeastOnce
<1> DEFINE Inv == IInv /\ TypeOK /\ FlowInv
<1>1. Inv /\ [Next]_vars => Inv'
  <2> SUFFICES ASSUME Inv, [Next]_vars PROVE Inv'
    OBVIOUS
  <2>1. IInv'
    BY InvStep
  <2>2. TypeOK'
    BY <2>1, NextType, Zenon DEF IInv
  <2>3. UNCHANGED vars => FlowInv'
    BY FlowsKept DEF Accepted, vars, conf, server
  <2>4. RunNext \/ CloseIn \/ FollowingDone \/ CloseReturns => FlowInv'
    BY FlowsOfPipelineStep DEF IInv
  <2>5. ASSUME NEW w \in Goroutines, Take(w) \/ SendNext(w) \/ EndNext(w) \/ Tick(w) \/ SendFail(w)
        PROVE  FlowInv'
    BY <2>5, FlowsOfWriter
  <2>6. FlowInv'
    BY <2>3, <2>4, <2>5 DEF Next
  <2> QED
    BY <2>1, <2>2, <2>6
<1>2. Inv => AtLeastOnce
  <2> SUFFICES ASSUME Inv PROVE AtLeastOnce
    OBVIOUS
  <2>1. \A f \in Flows : got[f] \in Nat
    BY DEF TypeOK
  <2>2. Accepted \subseteq Queued \cup {f \in Flows : got[f] > 0} \cup UNION {InBatch(w) : w \in Workers}
    BY FlowsAreFlows, Zenon DEF FlowInv
  <2>3. failures = 0 => \A w \in Workers : \A f \in InBatch(w) \cup Queued : got[f] = 0
    BY <2>1, FlowsAreFlows DEF FlowInv
  <2> QED
    BY <2>2, <2>3 DEF AtLeastOnce, FlowInv
<1>3. Init => Inv
  BY InitInv, InitFlows
<1> HIDE DEF Inv
<1> QED
  BY <1>1, <1>2, <1>3, PTL DEF Spec
=============================================================================

------------------------- MODULE ParallelizedSegment -------------------------
(***************************************************************************)
(* The wrapper that SegmentsFromRepr puts around a segment with jobs > 1   *)
(* (segments/parallelized_segment.go): some copies of one filter segment   *)
(* whose In and Out are the same two channels.  The segment before and the *)
(* reader of Out are the environment.                                      *)
(***************************************************************************)
EXTENDS Integers, Sequences, FiniteSets

CONSTANTS
    Jobs,       \* the segments AddSegment may have put into the wrapper
    MaxFlows    \* bound: flows the segment before sends

ASSUME JobsAssumption == IsFiniteSet(Jobs) /\ Jobs # {} /\ MaxFlows \in Nat

VARIABLES
    run,        \* the wrapper's Run: "start", "wait" or "exited"
    pc, held,   \* the goroutines of the contained segments, and their messages
    wg,         \* segmentWg
    fed, inClosed,
    out,        \* the flows received from Out, in order
    discarded,  \* the flows dropped with Drops nil
    outClosed, crashed

vars == <<run, pc, held, wg, fed, inClosed, out, discarded, outClosed, crashed>>

NoFlow == 0

(* The segments AddSegment was called with.  SegmentsFromRepr adds at      *)
(* least two; a wrapper with one is its boundary case.                     *)
jobs == {j \in Jobs : pc[j] # "none"}

TypeOK ==
    /\ run \in {"start", "wait", "exited"}
    /\ pc \in [Jobs -> {"none", "new", "recv", "work", "send", "done", "exited"}]
    /\ held \in [Jobs -> 0..MaxFlows]
    /\ wg \in 0..Cardinality(Jobs)
    /\ fed \in 0..MaxFlows /\ out \in Seq(1..MaxFlows)
    /\ discarded \subseteq 1..MaxFlows
    /\ inClosed \in BOOLEAN /\ outClosed \in BOOLEAN /\ crashed \in BOOLEAN

Init ==
    /\ run = "start" /\ held = [j \in Jobs |-> NoFlow]
    /\ pc \in [Jobs -> {"none", "new"}] /\ jobs # {}
    /\ wg = 0 /\ fed = 0 /\ inClosed = FALSE /\ out = << >> /\ discarded = {}
    /\ outClosed = FALSE /\ crashed = FALSE

-----------------------------------------------------------------------------
(* Run of the wrapper.                                                     *)

(* segmentWg.Add(1) and go segment.Run(&segmentWg).                        *)
StartJob(j) ==
    /\ ~crashed /\ run = "start" /\ pc[j] = "new"
    /\ pc' = [pc EXCEPT ![j] = "recv"] /\ wg' = wg + 1
    /\ run' = IF \A k \in Jobs \ {j} : pc[k] # "new" THEN "wait" ELSE "start"
    /\ UNCHANGED <<held, fed, inClosed, out, discarded, outClosed, crashed>>

(* segmentWg.Wait(), then wg.Done() of the pipeline.                       *)
WaitReturns ==
    /\ ~crashed /\ run = "wait" /\ wg = 0
    /\ run' = "exited"
    /\ UNCHANGED <<pc, held, wg, fed, inClosed, out, discarded, outClosed, crashed>>

-----------------------------------------------------------------------------
(* Run of a contained segment.                                             *)

Receive(j) ==
    /\ ~crashed /\ pc[j] = "recv" /\ ~inClosed /\ fed < MaxFlows
    /\ fed' = fed + 1
    /\ pc' = [pc EXCEPT ![j] = "work"] /\ held' = [held EXCEPT ![j] = fed + 1]
    /\ UNCHANGED <<run, wg, inClosed, out, discarded, outClosed, crashed>>

Accept(j) ==
    /\ ~crashed /\ pc[j] = "work"
    /\ pc' = [pc EXCEPT ![j] = "send"]
    /\ UNCHANGED <<run, held, wg, fed, inClosed, out, discarded, outClosed, crashed>>

(* Drops is nil, also after GetDrop of the pipeline: it asks each segment  *)
(* whether it is a FilterSegment, and the wrapper, whose SubscribeDrops    *)
(* takes a chan and not a chan<-, is none.                                 *)
Discard(j) ==
    /\ ~crashed /\ pc[j] = "work"
    /\ pc' = [pc EXCEPT ![j] = "recv"] /\ held' = [held EXCEPT ![j] = NoFlow]
    /\ discarded' = discarded \cup {held[j]}
    /\ UNCHANGED <<run, wg, fed, inClosed, out, outClosed, crashed>>

(* Faulty: Rewire gives Out to one of the segments only; a send on the nil *)
(* channel of another one blocks.                                          *)
Send_OneWired(j) ==
    /\ ~crashed /\ pc[j] = "send" /\ ~outClosed /\ j = CHOOSE k \in jobs : TRUE
    /\ out' = Append(out, held[j])
    /\ pc' = [pc EXCEPT ![j] = "recv"] /\ held' = [held EXCEPT ![j] = NoFlow]
    /\ UNCHANGED <<run, wg, fed, inClosed, discarded, outClosed, crashed>>

Send(j) ==
    /\ ~crashed /\ pc[j] = "send" /\ ~outClosed
    /\ out' = Append(out, held[j])
    /\ pc' = [pc EXCEPT ![j] = "recv"] /\ held' = [held EXCEPT ![j] = NoFlow]
    /\ UNCHANGED <<run, wg, fed, inClosed, discarded, outClosed, crashed>>

(* A send on a closed channel panics.                                      *)
SendPanics(j) ==
    /\ ~crashed /\ pc[j] = "send" /\ outClosed
    /\ crashed' = TRUE
    /\ UNCHANGED <<run, pc, held, wg, fed, inClosed, out, discarded, outClosed>>

(* Faulty: the loop is left when In is closed, with a message in hand.     *)
CloseOut_Early(j) ==
    /\ ~crashed /\ pc[j] \in {"recv", "work", "send"} /\ inClosed
    /\ IF outClosed THEN crashed' = TRUE /\ UNCHANGED <<pc, outClosed>>
       ELSE outClosed' = TRUE /\ pc' = [pc EXCEPT ![j] = "done"] /\ UNCHANGED crashed
    /\ UNCHANGED <<run, held, wg, fed, inClosed, out, discarded>>

(* The deferred function of every contained segment closes Out: the first  *)
(* close succeeds, another one panics.                                     *)
CloseOut(j) ==
    /\ ~crashed /\ pc[j] = "recv" /\ inClosed
    /\ IF outClosed THEN crashed' = TRUE /\ UNCHANGED <<pc, outClosed>>
       ELSE outClosed' = TRUE /\ pc' = [pc EXCEPT ![j] = "done"] /\ UNCHANGED crashed
    /\ UNCHANGED <<run, held, wg, fed, inClosed, out, discarded>>

JobDone(j) ==
    /\ ~crashed /\ pc[j] = "done"
    /\ pc' = [pc EXCEPT ![j] = "exited"] /\ wg' = wg - 1
    /\ UNCHANGED <<run, held, fed, inClosed, out, discarded, outClosed, crashed>>

-----------------------------------------------------------------------------
(* The environment.                                                        *)

CloseInput ==
    /\ ~crashed /\ ~inClosed
    /\ inClosed' = TRUE
    /\ UNCHANGED <<run, pc, held, wg, fed, out, discarded, outClosed, crashed>>

JobStep(j) == Accept(j) \/ Discard(j) \/ Send(j) \/ SendPanics(j) \/ CloseOut(j) \/ JobDone(j)

Next ==
    \/ \E j \in Jobs : StartJob(j) \/ Receive(j) \/ JobStep(j)
    \/ WaitReturns \/ CloseInput

Fairness ==
    /\ WF_vars(\E j \in Jobs : StartJob(j)) /\ WF_vars(WaitReturns)
    /\ \A j \in Jobs : WF_vars(JobStep(j))

Spec == Init /\ [][Next]_vars
FairSpec == Spec /\ Fairness

-----------------------------------------------------------------------------
(* Properties.                                                             *)

Worked == {held[j] : j \in Jobs} \ {NoFlow}
Received == {out[i] : i \in DOMAIN out}

(* Every flow received is with exactly one job, came out once, or was      *)
(* dropped: jobs that share a channel never process a flow twice.          *)
OnePlace ==
    /\ 1..fed = Worked \cup Received \cup discarded
    /\ Worked \cap Received = {} /\ Worked \cap discarded = {} /\ Received \cap discarded = {}
    /\ \A j, k \in Jobs : held[j] = held[k] => j = k \/ held[j] = NoFlow
    /\ \A i, k \in DOMAIN out : out[i] = out[k] => i = k

(* No flow is in two places.  A wrapper with several jobs panics at        *)
(* teardown and never while In is open; that costs at most one flow for    *)
(* every job but the one that closed Out, so a wrapper with one job never  *)
(* panics with a flow in hand.                                             *)
LossIsBounded ==
    /\ TypeOK /\ OnePlace
    /\ crashed => inClosed /\ Cardinality({j \in Jobs : held[j] # NoFlow}) < Cardinality(jobs)

(* While In is open every flow comes out or is dropped: no job keeps the   *)
(* others from working.                                                    *)
FlowsComeThrough ==
    \A f \in 1..MaxFlows : fed >= f ~> inClosed \/ f \in discarded \cup Received
=============================================================================

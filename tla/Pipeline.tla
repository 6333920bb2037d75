------------------------------ MODULE Pipeline ------------------------------
(***************************************************************************)
(* A Pipeline object (pipeline/pipeline.go): a list of N segments, each a  *)
(* goroutine, chained by the unbuffered channels 0..N.  Segment i reads    *)
(* channel i-1 (its In) and writes channel i (its Out); channel 0 is       *)
(* pipeline.In and channel N is pipeline.Out.  A send on an unbuffered     *)
(* channel is one step with the matching receive.                          *)
(*                                                                         *)
(* The module has the steps of the segments and of the methods of the      *)
(* Pipeline, and no environment: who feeds In, reads Out and Drop, starts  *)
(* and closes the pipeline is left to the modules that use this one        *)
(* (FlowPipeline for main and the tests, Branch for the embedded ones).    *)
(***************************************************************************)
EXTENDS Integers

CONSTANTS
    N,          \* number of segments in SegmentList
    Kinds       \* the kinds of segment that SegmentList may hold

(* The shapes of Run in the repository, by what they do with In and Out:   *)
(*   pass    one message out for each one in (pass, modify, print, ...)    *)
(*   filter  passes a message on or drops it (the filter directory)        *)
(*   input   selects between In and a source of its own (input directory)  *)
(*   replay  an input that returns at once when its source cannot be read  *)
ASSUME KindsAssumption == Kinds \subseteq {"pass", "filter", "input", "replay"}

(* pipeline.New replaces an empty segment list by a single pass segment.   *)
ASSUME NAssumption == N \in Nat \ {0}

VARIABLES
    kind,       \* SegmentList: what the Run method of each segment does
    pc,         \* where the goroutine of each segment is
    held,       \* the message each segment has received and not passed on
    closed,     \* the closed channels
    subs,       \* the segments whose Drops channel is set
    wg          \* the counter of pipeline.wg

pipeVars == <<kind, pc, held, closed, subs, wg>>

Segs == 1..N
Chans == 0..N

(* A flow message is known by who put it into the pipeline (0: whoever     *)
(* feeds In, i: input segment i) and by its number among those.            *)
Flow == [src : Nat, n : Nat \ {0}]
NoFlow == [src |-> 0, n |-> 0]

(* new: not started    recv: at the receive on In    work: has a message   *)
(* send, drop: at the send on Out or on Drops                              *)
(* quit: returning though In is open   done: Out closed   exited: returned *)
Places == {"new", "recv", "work", "send", "drop", "quit", "done", "exited"}

PipeTypeOK ==
    /\ kind \in [Segs -> Kinds]
    /\ pc \in [Segs -> Places]
    /\ held \in [Segs -> Flow \cup {NoFlow}]
    /\ closed \in SUBSET Chans
    /\ subs \in SUBSET Segs
    /\ wg \in Int

(* pipeline.New: channels made and wired, nothing started.                 *)
PipeInit ==
    /\ kind \in [Segs -> Kinds]
    /\ pc = [i \in Segs |-> "new"]
    /\ held = [i \in Segs |-> NoFlow]
    /\ closed = {}
    /\ subs = {}
    /\ wg = 0

-----------------------------------------------------------------------------
(* Methods of the Pipeline.                                                *)

(* One round of the loop in Start.  A replay segment may find that its     *)
(* database cannot be read: it then returns without reading In.            *)
StartSegment(i) ==
    /\ pc[i] = "new"
    /\ \E first \in {"recv"} \cup (IF kind[i] = "replay" THEN {"quit"} ELSE {}) :
          pc' = [pc EXCEPT ![i] = first]
    /\ wg' = wg + 1
    /\ UNCHANGED <<kind, held, closed, subs>>

(* The end of Close: close(In).  Closing it again panics, is recovered,    *)
(* and changes nothing.                                                    *)
CloseIn ==
    /\ closed' = closed \cup {0}
    /\ UNCHANGED <<kind, pc, held, subs, wg>>

(* Faulty: the loop leaves out the last segment.                           *)
SubscribeSegment_NotLast(i) ==
    /\ subs' = IF kind[i] = "filter" /\ i < N THEN subs \cup {i} ELSE subs
    /\ UNCHANGED <<kind, pc, held, closed, wg>>

(* One round of the loop in GetDrop: only filter segments are subscribed.  *)
SubscribeSegment(i) ==
    /\ subs' = IF kind[i] = "filter" THEN subs \cup {i} ELSE subs
    /\ UNCHANGED <<kind, pc, held, closed, wg>>

-----------------------------------------------------------------------------
(* Messages that enter and leave the pipeline: the other party of the      *)
(* rendezvous belongs to the module that uses this one.                    *)

(* Somebody's In <- f meets the first segment.                             *)
Push(f) ==
    /\ pc[1] = "recv"
    /\ 0 \notin closed
    /\ pc' = [pc EXCEPT ![1] = "work"]
    /\ held' = [held EXCEPT ![1] = f]
    /\ UNCHANGED <<kind, closed, subs, wg>>

(* Faulty: the message is sent again in the next round.                    *)
Pull_Twice ==
    /\ pc[N] = "send"
    /\ UNCHANGED pipeVars

(* The last segment's Out <- msg meets somebody's <-Out.                   *)
Pull ==
    /\ pc[N] = "send"
    /\ pc' = [pc EXCEPT ![N] = "recv"]
    /\ held' = [held EXCEPT ![N] = NoFlow]
    /\ UNCHANGED <<kind, closed, subs, wg>>

(* Segment i's Drops <- msg meets somebody's <-Drop.                       *)
PullDrop(i) ==
    /\ pc[i] = "drop"
    /\ pc' = [pc EXCEPT ![i] = "recv"]
    /\ held' = [held EXCEPT ![i] = NoFlow]
    /\ UNCHANGED <<kind, closed, subs, wg>>

(* An input segment's select takes a message from its own source.          *)
Generate(i, f) ==
    /\ kind[i] \in {"input", "replay"}
    /\ pc[i] = "recv"
    /\ pc' = [pc EXCEPT ![i] = "send"]
    /\ held' = [held EXCEPT ![i] = f]
    /\ UNCHANGED <<kind, closed, subs, wg>>

-----------------------------------------------------------------------------
(* Steps of the segment goroutines among themselves.                       *)

(* Faulty: the message is sent again in the next round.                    *)
Handoff_Twice(i) ==
    /\ i < N
    /\ pc[i] = "send"
    /\ pc[i + 1] = "recv"
    /\ pc' = [pc EXCEPT ![i + 1] = "work"]
    /\ held' = [held EXCEPT ![i + 1] = held[i]]
    /\ UNCHANGED <<kind, closed, subs, wg>>

(* Segment i's Out <- msg meets segment i+1's receive on In.               *)
Handoff(i) ==
    /\ i < N
    /\ pc[i] = "send"
    /\ pc[i + 1] = "recv"
    /\ pc' = [pc EXCEPT ![i] = "recv", ![i + 1] = "work"]
    /\ held' = [held EXCEPT ![i] = NoFlow, ![i + 1] = held[i]]
    /\ UNCHANGED <<kind, closed, subs, wg>>

(* Faulty: the last message stays with the segment once In is closed.      *)
Accept_WhileOpen(i) ==
    /\ pc[i] = "work" /\ i - 1 \notin closed
    /\ pc' = [pc EXCEPT ![i] = "send"]
    /\ UNCHANGED <<kind, held, closed, subs, wg>>

(* The body of the loop decides to pass the message on.                    *)
Accept(i) ==
    /\ pc[i] = "work"
    /\ pc' = [pc EXCEPT ![i] = "send"]
    /\ UNCHANGED <<kind, held, closed, subs, wg>>

(* A filter decides against the message and finds Drops set...             *)
OfferDrop(i) ==
    /\ pc[i] = "work"
    /\ kind[i] = "filter"
    /\ i \in subs
    /\ pc' = [pc EXCEPT ![i] = "drop"]
    /\ UNCHANGED <<kind, held, closed, subs, wg>>

(* ... or nil, and goes on with the next message.                          *)
Discard(i) ==
    /\ pc[i] = "work"
    /\ kind[i] = "filter"
    /\ i \notin subs
    /\ pc' = [pc EXCEPT ![i] = "recv"]
    /\ held' = [held EXCEPT ![i] = NoFlow]
    /\ UNCHANGED <<kind, closed, subs, wg>>

(* Faulty: the loop is left as soon as In is closed, message or not.       *)
CloseOut_Early(i) ==
    /\ pc[i] \in {"recv", "work"} /\ i - 1 \in closed
    /\ pc' = [pc EXCEPT ![i] = "done"]
    /\ closed' = closed \cup {i}
    /\ UNCHANGED <<kind, held, subs, wg>>

(* Faulty: Run returns without closing Out.                                *)
CloseOut_Forgotten(i) ==
    /\ pc[i] = "recv" /\ i - 1 \in closed
    /\ pc' = [pc EXCEPT ![i] = "done"]
    /\ UNCHANGED <<kind, held, closed, subs, wg>>

(* Run leaves its loop because In is closed, or gives up; the deferred     *)
(* function closes Out ...                                                 *)
CloseOut(i) ==
    /\ \/ pc[i] = "recv" /\ i - 1 \in closed
       \/ pc[i] = "quit"
    /\ pc' = [pc EXCEPT ![i] = "done"]
    /\ closed' = closed \cup {i}
    /\ UNCHANGED <<kind, held, subs, wg>>

(* ... and then calls wg.Done().                                           *)
Done(i) ==
    /\ pc[i] = "done"
    /\ pc' = [pc EXCEPT ![i] = "exited"]
    /\ wg' = wg - 1
    /\ UNCHANGED <<kind, held, closed, subs>>

(* What a segment does that no party outside the pipeline sees.            *)
SegStep(i) ==
    Handoff(i) \/ Accept(i) \/ OfferDrop(i) \/ CloseOut(i) \/ Done(i)
=============================================================================

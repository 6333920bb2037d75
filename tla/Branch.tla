------------------------------- MODULE Branch -------------------------------
(***************************************************************************)
(* The branch segment (segments/controlflow/branch/branch.go): three       *)
(* embedded pipelines, `if` (condition), `then` and `else`, each an        *)
(* instance of Pipeline, and the goroutines that join them:                *)
(*   - Run: moves flows from In into `if` and, when In is closed, closes   *)
(*     the three pipelines one after the other, then Out and Drops;        *)
(*   - three goroutines that call Start() of the pipelines;                *)
(*   - forwardBasedOnCondition: from the end of `if` to `then`, from the   *)
(*     drops of `if` to `else`;                                            *)
(*   - drainOutput: from the ends of `then` and `else` to Out, from their  *)
(*     drops to Drops, to Out (bypass-messages) or to nowhere.             *)
(* The segments before and after, and the reader of Drops, are the         *)
(* environment.                                                            *)
(***************************************************************************)
EXTENDS Integers

CONSTANTS
    N,          \* segments in each of the three pipelines
    Kinds,      \* the kinds of segment they may have
    MaxFlows    \* bound: flows the segment before sends

(* pipeline.New replaces an empty segment list by a single pass segment.   *)
ASSUME BranchAssumption == N \in Nat \ {0} /\ MaxFlows \in Nat

VARIABLES
    cKind, cPc, cHeld, cClosed, cSubs, cWg,     \* the pipeline `if`
    tKind, tPc, tHeld, tClosed, tSubs, tWg,     \* the pipeline `then`
    eKind, ePc, eHeld, eClosed, eSubs, eWg,     \* the pipeline `else`
    bypass,     \* the bypass-messages option
    wired,      \* segment.Drops is not nil
    fed,        \* how many flows have been received from In
    inClosed, outClosed, dropsClosed,
    run, runMsg,    \* Run and the flow it is sending to `if`
    fwd, fwdMsg,    \* forwardBasedOnCondition and the flow in its hands
    fwdOut,         \* "open", or "nil" after the end of `if` was closed
    drn, drnMsg,    \* drainOutput and the flow in its hands
    out, dropped,   \* the flows sent to Out and to Drops
    missed,         \* the flows dropped in `if` before Forward subscribed
    lost,           \* the flows dropped in `then` or `else` that went nowhere
    judged,         \* the flows some segment of `if` decided to drop
    crashed         \* a goroutine has sent on a closed channel

cVars == <<cKind, cPc, cHeld, cClosed, cSubs, cWg>>
tVars == <<tKind, tPc, tHeld, tClosed, tSubs, tWg>>
eVars == <<eKind, ePc, eHeld, eClosed, eSubs, eWg>>
pipes == <<cVars, tVars, eVars>>
inVars == <<fed, inClosed>>
runVars == <<run, runMsg>>
fwdVars == <<fwd, fwdMsg, fwdOut>>
drnVars == <<drn, drnMsg>>
goroutines == <<runVars, fwdVars, drnVars>>
outVars == <<outClosed, dropsClosed>>
flowVars == <<out, dropped, missed, lost, judged>>
rest == <<bypass, wired, crashed>>      \* changed by Panic only
vars == <<pipes, inVars, goroutines, outVars, flowVars, rest>>

Cond == INSTANCE Pipeline WITH
    kind <- cKind, pc <- cPc, held <- cHeld, closed <- cClosed, subs <- cSubs, wg <- cWg
Then == INSTANCE Pipeline WITH
    kind <- tKind, pc <- tPc, held <- tHeld, closed <- tClosed, subs <- tSubs, wg <- tWg
Else == INSTANCE Pipeline WITH
    kind <- eKind, pc <- ePc, held <- eHeld, closed <- eClosed, subs <- eSubs, wg <- eWg

Segs == 1..N
NoFlow == Cond!NoFlow
FlowNr(k) == [src |-> 0, n |-> k]
Received == {FlowNr(k) : k \in 1..fed}

RunPlaces == {"recv", "send", "waitIf", "waitThen", "waitElse", "closeDrops", "exited"}
FwdPlaces == {<<"subscribe", i>> : i \in Segs} \cup
             {<<"select">>, <<"toThen">>, <<"toElse">>, <<"exited">>}
DrnPlaces == {<<"subThen", i>> : i \in Segs} \cup {<<"subElse", i>> : i \in Segs} \cup
             {<<"select">>, <<"toOut">>, <<"toDrops">>, <<"exited">>}

TypeOK ==
    /\ Cond!PipeTypeOK /\ Then!PipeTypeOK /\ Else!PipeTypeOK
    /\ bypass \in BOOLEAN /\ wired \in BOOLEAN
    /\ fed \in 0..MaxFlows
    /\ inClosed \in BOOLEAN /\ outClosed \in BOOLEAN /\ dropsClosed \in BOOLEAN
    /\ run \in RunPlaces /\ runMsg \in Received \cup {NoFlow}
    /\ fwd \in FwdPlaces /\ fwdMsg \in Received \cup {NoFlow} /\ fwdOut \in {"open", "nil"}
    /\ drn \in DrnPlaces /\ drnMsg \in Received \cup {NoFlow}
    /\ out \subseteq Received /\ dropped \subseteq Received
    /\ missed \subseteq Received /\ lost \subseteq Received /\ judged \subseteq Received
    /\ crashed \in BOOLEAN

(* AddCustomConfig builds the three pipelines; Run launches the goroutines *)
(* before it receives anything.                                            *)
Init ==
    /\ Cond!PipeInit /\ Then!PipeInit /\ Else!PipeInit
    /\ bypass \in BOOLEAN /\ wired \in BOOLEAN
    /\ fed = 0 /\ inClosed = FALSE /\ outClosed = FALSE /\ dropsClosed = FALSE
    /\ run = "recv" /\ runMsg = NoFlow
    /\ fwd = <<"subscribe", 1>> /\ fwdMsg = NoFlow /\ fwdOut = "open"
    /\ drn = <<"subThen", 1>> /\ drnMsg = NoFlow
    /\ out = {} /\ dropped = {} /\ missed = {} /\ lost = {} /\ judged = {}
    /\ crashed = FALSE

-----------------------------------------------------------------------------
(* Run, and the segment before this one.                                   *)

ReceiveIn ==
    /\ ~crashed /\ run = "recv" /\ ~inClosed /\ fed < MaxFlows
    /\ fed' = fed + 1
    /\ run' = "send" /\ runMsg' = FlowNr(fed + 1)
    /\ UNCHANGED <<pipes, inClosed, fwdVars, drnVars, outVars, flowVars, rest>>

CloseInput ==
    /\ ~crashed /\ ~inClosed
    /\ inClosed' = TRUE
    /\ UNCHANGED <<pipes, fed, goroutines, outVars, flowVars, rest>>

SendToCondition ==
    /\ ~crashed /\ run = "send"
    /\ Cond!Push(runMsg)
    /\ run' = "recv" /\ runMsg' = NoFlow
    /\ UNCHANGED <<tVars, eVars, inVars, fwdVars, drnVars, outVars, flowVars, rest>>

(* The loop is over: condition.Close(), then_branch.Close() and            *)
(* else_branch.Close(), each of which closes the pipeline's In and waits   *)
(* for its wait group.                                                     *)
CloseCondition ==
    /\ ~crashed /\ run = "recv" /\ inClosed
    /\ Cond!CloseIn
    /\ run' = "waitIf"
    /\ UNCHANGED <<tVars, eVars, inVars, runMsg, fwdVars, drnVars, outVars, flowVars, rest>>

CloseThen ==
    /\ ~crashed /\ run = "waitIf" /\ cWg = 0
    /\ Then!CloseIn
    /\ run' = "waitThen"
    /\ UNCHANGED <<cVars, eVars, inVars, runMsg, fwdVars, drnVars, outVars, flowVars, rest>>

(* Faulty: else_branch.Close() is forgotten.                               *)
CloseElse_Forgotten ==
    /\ ~crashed /\ run = "waitThen" /\ tWg = 0
    /\ run' = "waitElse"
    /\ UNCHANGED <<pipes, inVars, runMsg, fwdVars, drnVars, outVars, flowVars, rest>>

CloseElse ==
    /\ ~crashed /\ run = "waitThen" /\ tWg = 0
    /\ Else!CloseIn
    /\ run' = "waitElse"
    /\ UNCHANGED <<cVars, tVars, inVars, runMsg, fwdVars, drnVars, outVars, flowVars, rest>>

CloseOut ==
    /\ ~crashed /\ run = "waitElse" /\ eWg = 0
    /\ outClosed' = TRUE
    /\ run' = "closeDrops"
    /\ UNCHANGED <<pipes, inVars, runMsg, fwdVars, drnVars, dropsClosed, flowVars, rest>>

(* close(Drops), if somebody subscribed to it, and wg.Done().              *)
CloseDrops ==
    /\ ~crashed /\ run = "closeDrops"
    /\ dropsClosed' = wired
    /\ run' = "exited"
    /\ UNCHANGED <<pipes, inVars, runMsg, fwdVars, drnVars, outClosed, flowVars, rest>>

Defer == CloseCondition \/ CloseThen \/ CloseElse \/ CloseOut \/ CloseDrops

-----------------------------------------------------------------------------
(* go condition.Start(), go then_branch.Start(), go else_branch.Start().   *)

StartCondition ==
    /\ ~crashed
    /\ \E i \in Segs : (\A j \in 1..(i - 1) : cPc[j] # "new") /\ Cond!StartSegment(i)
    /\ UNCHANGED <<tVars, eVars, inVars, goroutines, outVars, flowVars, rest>>

StartThen ==
    /\ ~crashed
    /\ \E i \in Segs : (\A j \in 1..(i - 1) : tPc[j] # "new") /\ Then!StartSegment(i)
    /\ UNCHANGED <<cVars, eVars, inVars, goroutines, outVars, flowVars, rest>>

StartElse ==
    /\ ~crashed
    /\ \E i \in Segs : (\A j \in 1..(i - 1) : ePc[j] # "new") /\ Else!StartSegment(i)
    /\ UNCHANGED <<cVars, tVars, inVars, goroutines, outVars, flowVars, rest>>

-----------------------------------------------------------------------------
(* The segments inside the three pipelines.                                *)

CondSegment(i) ==
    /\ ~crashed
    /\ \/ Cond!SegStep(i) /\ UNCHANGED missed
       \/ Cond!Discard(i) /\ missed' = missed \cup {cHeld[i]}
    /\ judged' = judged \cup {f \in {cHeld[i]} : cPc[i] = "work" /\ cPc'[i] # "send"}
    /\ UNCHANGED <<tVars, eVars, inVars, goroutines, outVars, out, dropped, lost, rest>>

ThenSegment(i) ==
    /\ ~crashed
    /\ \/ Then!SegStep(i) /\ UNCHANGED lost
       \/ Then!Discard(i) /\ lost' = lost \cup {tHeld[i]}
    /\ UNCHANGED <<cVars, eVars, inVars, goroutines, outVars, out, dropped, missed,
                   judged, rest>>

ElseSegment(i) ==
    /\ ~crashed
    /\ \/ Else!SegStep(i) /\ UNCHANGED lost
       \/ Else!Discard(i) /\ lost' = lost \cup {eHeld[i]}
    /\ UNCHANGED <<cVars, tVars, inVars, goroutines, outVars, out, dropped, missed,
                   judged, rest>>

-----------------------------------------------------------------------------
(* forwardBasedOnCondition.                                                *)

(* GetDrop() of `if`: one subscription after the other.                    *)
FwdSubscribe ==
    /\ ~crashed
    /\ \E i \in Segs :
          /\ fwd = <<"subscribe", i>>
          /\ Cond!SubscribeSegment(i)
          /\ fwd' = IF i = N THEN <<"select">> ELSE <<"subscribe", i + 1>>
    /\ UNCHANGED <<tVars, eVars, inVars, runVars, fwdMsg, fwdOut, drnVars, outVars,
                   flowVars, rest>>

(* A flow reached the end of `if`: it goes to `then`.                      *)
FwdFromOut ==
    /\ ~crashed /\ fwd = <<"select">> /\ fwdOut = "open"
    /\ Cond!Pull
    /\ fwd' = <<"toThen">> /\ fwdMsg' = cHeld[N]
    /\ UNCHANGED <<tVars, eVars, inVars, runVars, fwdOut, drnVars, outVars, flowVars,
                   rest>>

(* The end of `if` is closed.  The goroutine would return if the drops of  *)
(* `if` were closed as well, which no segment in `if` ever does.           *)
FwdOutClosed ==
    /\ ~crashed /\ fwd = <<"select">> /\ fwdOut = "open"
    /\ N \in cClosed
    /\ fwdOut' = "nil"
    /\ UNCHANGED <<pipes, inVars, runVars, fwd, fwdMsg, drnVars, outVars, flowVars,
                   rest>>

(* Faulty: no select, the drops are read when the end of `if` is closed.   *)
FwdFromDrop_Later ==
    /\ ~crashed /\ fwd = <<"select">> /\ fwdOut = "nil"
    /\ \E i \in Segs : Cond!PullDrop(i) /\ fwdMsg' = cHeld[i]
    /\ fwd' = <<"toElse">>
    /\ UNCHANGED <<tVars, eVars, inVars, runVars, fwdOut, drnVars, outVars, flowVars,
                   rest>>

(* A flow was dropped in `if`: it goes to `else`.                          *)
FwdFromDrop ==
    /\ ~crashed /\ fwd = <<"select">>
    /\ \E i \in Segs : Cond!PullDrop(i) /\ fwdMsg' = cHeld[i]
    /\ fwd' = <<"toElse">>
    /\ UNCHANGED <<tVars, eVars, inVars, runVars, fwdOut, drnVars, outVars, flowVars,
                   rest>>

(* Faulty: the two branches are mixed up.                                  *)
FwdSend_Swapped ==
    /\ ~crashed
    /\ \/ fwd = <<"toElse">> /\ Then!Push(fwdMsg) /\ UNCHANGED eVars
       \/ fwd = <<"toThen">> /\ Else!Push(fwdMsg) /\ UNCHANGED tVars
    /\ fwd' = <<"select">> /\ fwdMsg' = NoFlow
    /\ UNCHANGED <<cVars, inVars, runVars, fwdOut, drnVars, outVars, flowVars, rest>>

FwdSend ==
    /\ ~crashed
    /\ \/ fwd = <<"toThen">> /\ Then!Push(fwdMsg) /\ UNCHANGED eVars
       \/ fwd = <<"toElse">> /\ Else!Push(fwdMsg) /\ UNCHANGED tVars
    /\ fwd' = <<"select">> /\ fwdMsg' = NoFlow
    /\ UNCHANGED <<cVars, inVars, runVars, fwdOut, drnVars, outVars, flowVars, rest>>

Forward == FwdSubscribe \/ FwdFromOut \/ FwdOutClosed \/ FwdFromDrop \/ FwdSend

DrnSubscribe ==
    /\ ~crashed
    /\ \E i \in Segs :
          \/ /\ drn = <<"subThen", i>> /\ Then!SubscribeSegment(i) /\ UNCHANGED eVars
             /\ drn' = IF i = N THEN <<"subElse", 1>> ELSE <<"subThen", i + 1>>
          \/ /\ drn = <<"subElse", i>> /\ Else!SubscribeSegment(i) /\ UNCHANGED tVars
             /\ drn' = IF i = N THEN <<"select">> ELSE <<"subElse", i + 1>>
    /\ UNCHANGED <<cVars, inVars, runVars, fwdVars, drnMsg, outVars, flowVars, rest>>

DrnFromOut ==
    /\ ~crashed /\ drn = <<"select">>
    /\ \/ Then!Pull /\ drnMsg' = tHeld[N] /\ UNCHANGED eVars
       \/ Else!Pull /\ drnMsg' = eHeld[N] /\ UNCHANGED tVars
    /\ drn' = <<"toOut">>
    /\ UNCHANGED <<cVars, inVars, runVars, fwdVars, outVars, flowVars, rest>>

(* A dropped flow: where it goes depends on bypassMessages and Drops.      *)
DrnFromDrop ==
    /\ ~crashed /\ drn = <<"select">>
    /\ \E i \in Segs, f \in {tHeld[i] : i \in Segs} \cup {eHeld[i] : i \in Segs} :
          /\ \/ Then!PullDrop(i) /\ f = tHeld[i] /\ UNCHANGED eVars
             \/ Else!PullDrop(i) /\ f = eHeld[i] /\ UNCHANGED tVars
          /\ drn' = IF bypass THEN <<"toOut">>
                    ELSE IF wired THEN <<"toDrops">> ELSE <<"select">>
          /\ drnMsg' = IF bypass \/ wired THEN f ELSE NoFlow
          /\ lost' = IF bypass \/ wired THEN lost ELSE lost \cup {f}
    /\ UNCHANGED <<cVars, inVars, runVars, fwdVars, outVars, out, dropped, missed,
                   judged, rest>>

(* One of the two ends is closed: the loop is left at once.                *)
DrnEndClosed ==
    /\ ~crashed /\ drn = <<"select">>
    /\ N \in tClosed \/ N \in eClosed
    /\ drn' = <<"exited">>
    /\ UNCHANGED <<pipes, inVars, runVars, fwdVars, drnMsg, outVars, flowVars, rest>>

(* The send meets the next segment, or the reader of Drops.                *)
DrnSend ==
    /\ ~crashed
    /\ \/ drn = <<"toOut">> /\ ~outClosed /\ out' = out \cup {drnMsg} /\ UNCHANGED dropped
       \/ drn = <<"toDrops">> /\ ~dropsClosed /\ dropped' = dropped \cup {drnMsg}
          /\ UNCHANGED out
    /\ drn' = <<"select">> /\ drnMsg' = NoFlow
    /\ UNCHANGED <<pipes, inVars, runVars, fwdVars, outVars, missed, lost, judged,
                   rest>>

Drain == DrnSubscribe \/ DrnFromOut \/ DrnFromDrop \/ DrnEndClosed \/ DrnSend

-----------------------------------------------------------------------------
(* A goroutine blocked in a send when the channel is closed panics, which  *)
(* ends the process.                                                       *)
SendsOnClosed ==
    \/ fwd = <<"toThen">> /\ 0 \in tClosed
    \/ fwd = <<"toElse">> /\ 0 \in eClosed
    \/ drn = <<"toOut">> /\ outClosed
    \/ drn = <<"toDrops">> /\ dropsClosed

Panic ==
    /\ ~crashed
    /\ SendsOnClosed
    /\ crashed' = TRUE
    /\ UNCHANGED <<pipes, inVars, runVars, fwdVars, drnVars, outVars, flowVars, bypass,
                   wired>>

Next ==
    \/ ReceiveIn \/ CloseInput \/ SendToCondition \/ Defer
    \/ Forward \/ Drain \/ Panic
    \/ StartCondition \/ StartThen \/ StartElse
    \/ \E i \in Segs : CondSegment(i) \/ ThenSegment(i) \/ ElseSegment(i)

(* Every goroutine that can run does run, and so do the reader of Out and  *)
(* the reader of Drops.  Nobody has to send flows or to close In.          *)
Fairness ==
    /\ WF_vars(SendToCondition \/ Defer)
    /\ WF_vars(Forward) /\ WF_vars(Drain) /\ WF_vars(Panic)
    /\ WF_vars(StartCondition) /\ WF_vars(StartThen) /\ WF_vars(StartElse)
    /\ \A i \in Segs :
          WF_vars(CondSegment(i)) /\ WF_vars(ThenSegment(i)) /\ WF_vars(ElseSegment(i))

Spec == Init /\ [][Next]_vars
FairSpec == Spec /\ Fairness

-----------------------------------------------------------------------------
(* Properties.                                                             *)

Inside(h) == {h[i] : i \in Segs} \ {NoFlow}

(* Where a flow is: in the hands of a goroutine, in a segment of one of    *)
(* the three pipelines, or gone.                                           *)
Where(f) ==
    {<<"run">> : x \in {runMsg} \cap {f}} \cup {<<"forward">> : x \in {fwdMsg} \cap {f}}
    \cup {<<"drain">> : x \in {drnMsg} \cap {f}}
    \cup {<<"if", i>> : i \in {j \in Segs : cHeld[j] = f}}
    \cup {<<"then", i>> : i \in {j \in Segs : tHeld[j] = f}}
    \cup {<<"else", i>> : i \in {j \in Segs : eHeld[j] = f}}
    \cup {<<"out">> : x \in out \cap {f}} \cup {<<"dropped">> : x \in dropped \cap {f}}
    \cup {<<"missed">> : x \in missed \cap {f}} \cup {<<"lost">> : x \in lost \cap {f}}

(* Every flow received from In is at exactly one place, at any moment, in  *)
(* a shutdown and after a crash too: the five goroutines and the three     *)
(* pipelines never copy a flow and never lose track of one.  And it is the *)
(* right place: only flows that all segments of `if` accepted are in       *)
(* `then`, only flows that one of them dropped are in `else`.              *)
RoutedByCondition ==
    /\ TypeOK
    /\ \A f \in Received : \E place \in Where(f) : Where(f) = {place}
    /\ Inside(tHeld) \cap judged = {}
    /\ Inside(eHeld) \subseteq judged
    /\ fwd = <<"toThen">> => fwdMsg \notin judged
    /\ fwd = <<"toElse">> => fwdMsg \in judged

(* Out is closed only when the three pipelines are empty and In of each is *)
(* closed, although Close() may have found a wait group at zero because    *)
(* the pipeline's Start() had not run yet.                                 *)
EmptyWhenOutClosed ==
    outClosed =>
        /\ Inside(cHeld) \cup Inside(tHeld) \cup Inside(eHeld) = {}
        /\ 0 \in cClosed \cap tClosed \cap eClosed

(* Segment i of a pipeline is not waiting for anybody: it has yet to be    *)
(* started, it works, or the other party of its send is at the receive,    *)
(* which for the ends of the pipeline is a goroutine of the branch.        *)
CanStep(pc, i, readsOut, readsDrop) ==
    \/ pc[i] \in {"new", "work"}
    \/ pc[i] = "send" /\ (IF i = N THEN readsOut ELSE pc[i + 1] = "recv")
    \/ pc[i] = "drop" /\ readsDrop

SomeFlowInside ==
    \/ {runMsg, fwdMsg, drnMsg} # {NoFlow}
    \/ Inside(cHeld) \cup Inside(tHeld) \cup Inside(eHeld) # {}

(* As long as Run has not begun to close the pipelines, nobody panics, and *)
(* the goroutines of the branch never wait for each other in a circle: if  *)
(* a flow is inside, a subscription goes on, a goroutine of the branch     *)
(* finds the other party of its send at the receive, or a segment of one   *)
(* of the three pipelines can step.  That is what                          *)
(* Test_Branch_DeadlockFreeGeneration_If, _Then and _Else are about: one   *)
(* goroutine serves both branches and one reads both of them, so that a    *)
(* full `else` holds back `then` and the condition.                        *)
NeverStuck ==
    run \in {"recv", "send"} =>
        /\ ~crashed
        /\ SomeFlowInside =>
              \/ run = "send" /\ cPc[1] = "recv" /\ 0 \notin cClosed
              \/ fwd \in {<<"subscribe", i>> : i \in Segs}
              \/ fwd = <<"toThen">> /\ tPc[1] = "recv" /\ 0 \notin tClosed
              \/ fwd = <<"toElse">> /\ ePc[1] = "recv" /\ 0 \notin eClosed
              \/ drn \in {<<"subThen", i>> : i \in Segs} \cup {<<"subElse", i>> : i \in Segs}
              \/ drn = <<"toOut">> /\ ~outClosed
              \/ drn = <<"toDrops">> /\ wired /\ ~dropsClosed
              \/ \E i \in Segs :
                    \/ CanStep(cPc, i, fwd = <<"select">> /\ fwdOut = "open", fwd = <<"select">>)
                    \/ CanStep(tPc, i, drn = <<"select">>, drn = <<"select">>)
                    \/ CanStep(ePc, i, drn = <<"select">>, drn = <<"select">>)

(* While In is open, every flow received comes out, is handed to Drops or  *)
(* is dropped: the goroutines of the branch never wait for each other in a *)
(* circle (Test_Branch_DeadlockFreeGeneration_If, _Then and _Else).  When  *)
(* In is closed, Out is too, but for two cases: a goroutine sends on a     *)
(* closed channel, or drainOutput has ended and `else` still holds a flow. *)
FlowsComeThrough ==
    /\ []NeverStuck
    /\ \A k \in 1..MaxFlows :
          fed >= k ~> inClosed \/ FlowNr(k) \in out \cup dropped \cup missed \cup lost
    /\ inClosed ~> \/ outClosed \/ crashed
                   \/ drn = <<"exited">> /\ Inside(eHeld) # {}

(* "If flows are dropped at any point within the `if` segments, they will  *)
(* be moved on to the `else` branch immediately", and bypass-messages      *)
(* forwards flows "regardles of them being droped" (branch.go).  That      *)
(* holds from the moment GetDrop() has returned: the only flows missed are *)
(* those dropped while the goroutines were still subscribing.              *)
DropsAreSeen ==
    [][/\ fwd \notin {<<"subscribe", i>> : i \in Segs} => missed' = missed
       /\ bypass /\ drn \notin {<<"subThen", i>> : i \in Segs} \cup {<<"subElse", i>> : i \in Segs}
             => lost' = lost]_vars
=============================================================================

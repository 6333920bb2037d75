---------------------------- MODULE Branch_proof ----------------------------
(***************************************************************************)
(* Proofs for the branch segment, for any number of segments of any kinds  *)
(* in the three pipelines and any number of flows: every flow is at        *)
(* exactly one place, in the branch it belongs to; the pipelines are empty *)
(* when Out is closed; no dropped flow is missed after the subscriptions;  *)
(* the goroutines never wait for each other in a circle.                   *)
(***************************************************************************)
EXTENDS Branch, TLAPS

Flow == Cond!Flow
Busy == {"work", "send", "drop"}

(* The segments that have been started and have not returned.              *)
Running(pc) == {i \in Segs : pc[i] \notin {"new", "exited"}}

(* A counter that counts all elements of a set: they can be given numbers  *)
(* up to its value.                                                        *)
Counts(wg, S) ==
    /\ wg \in Nat
    /\ \E nr \in [1..wg -> Segs] : \A i \in S : \E k \in 1..wg : nr[k] = i

(* One pipeline: a segment holds a flow exactly between its receive and    *)
(* its send, and the wait group counts the running segments.               *)
PipeInv(kind, pc, held, closed, subs, wg) ==
    /\ kind \in [Segs -> Kinds] /\ pc \in [Segs -> Cond!Places]
    /\ held \in [Segs -> Flow \cup {NoFlow}]
    /\ closed \in SUBSET (0..N) /\ subs \in SUBSET Segs
    /\ \A i \in Segs : held[i] # NoFlow <=> pc[i] \in Busy
    /\ Counts(wg, Running(pc))

PipesInv ==
    /\ PipeInv(cKind, cPc, cHeld, cClosed, cSubs, cWg)
    /\ PipeInv(tKind, tPc, tHeld, tClosed, tSubs, tWg)
    /\ PipeInv(eKind, ePc, eHeld, eClosed, eSubs, eWg)

(* The goroutines, and what they hold at which place of their code.        *)
HandsInv ==
    /\ bypass \in BOOLEAN /\ wired \in BOOLEAN /\ crashed \in BOOLEAN
    /\ fed \in 0..MaxFlows
    /\ inClosed \in BOOLEAN /\ outClosed \in BOOLEAN /\ dropsClosed \in BOOLEAN
    /\ run \in RunPlaces /\ fwd \in FwdPlaces /\ fwdOut \in {"open", "nil"} /\ drn \in DrnPlaces
    /\ run = "send" <=> runMsg # NoFlow
    /\ fwd \in {<<"toThen">>, <<"toElse">>} <=> fwdMsg # NoFlow
    /\ drn \in {<<"toOut">>, <<"toDrops">>} <=> drnMsg # NoFlow

(* Run closes the pipelines one after the other, and each of them is empty *)
(* from the moment its wait group was found at zero.                       *)
CloseInv ==
    /\ run \notin {"recv", "send"} => 0 \in cClosed
    /\ run \notin {"recv", "send", "waitIf"} => Inside(cHeld) = {} /\ 0 \in tClosed
    /\ run \in {"waitElse", "closeDrops", "exited"} => Inside(tHeld) = {} /\ 0 \in eClosed
    /\ run \in {"closeDrops", "exited"} => Inside(eHeld) = {}
    /\ outClosed => run \in {"closeDrops", "exited"}

(* The subscriptions of GetDrop, one segment after the other.              *)
SubsInv ==
    /\ \A j \in Segs : j \in cSubs \/ cKind[j] # "filter" \/ \E i \in 1..j : fwd = <<"subscribe", i>>
    /\ \A j \in Segs : j \in tSubs \/ tKind[j] # "filter" \/ \E i \in 1..j : drn = <<"subThen", i>>
    /\ \A j \in Segs : \/ j \in eSubs \/ eKind[j] # "filter"
                       \/ \E i \in 1..j : drn = <<"subElse", i>>
                       \/ \E i \in Segs : drn = <<"subThen", i>>

(* Where the flows are that `if` has, or has not, decided against.         *)
JudgedInv ==
    /\ judged \subseteq Received /\ runMsg \notin judged
    /\ \A i \in Segs : cPc[i] \in {"work", "send"} => cHeld[i] \notin judged
    /\ \A i \in Segs : cPc[i] = "drop" => cHeld[i] \in judged
    /\ fwd = <<"toThen">> => fwdMsg \notin judged
    /\ fwd = <<"toElse">> => fwdMsg \in judged
    /\ \A i \in Segs : tHeld[i] \notin judged
    /\ \A i \in Segs : eHeld[i] # NoFlow => eHeld[i] \in judged

(* The places a flow can be at, and the flows that are there.              *)
Spots == {"run", "forward", "drain", "out", "dropped", "missed", "lost"}
At(s) == <<s, 0>>
Seg(b, i) == <<b, i>>
Branches == {"if", "then", "else"}
Spaces == {At(s) : s \in Spots} \cup {Seg(b, i) : b \in Branches, i \in Segs}

Held == [p \in Spaces |->
    CASE p[1] = "run" -> {runMsg} \ {NoFlow}
      [] p[1] = "forward" -> {fwdMsg} \ {NoFlow}
      [] p[1] = "drain" -> {drnMsg} \ {NoFlow}
      [] p[1] = "out" -> out
      [] p[1] = "dropped" -> dropped
      [] p[1] = "missed" -> missed
      [] p[1] = "lost" -> lost
      [] p[1] = "if" -> {cHeld[p[2]]} \ {NoFlow}
      [] p[1] = "then" -> {tHeld[p[2]]} \ {NoFlow}
      [] p[1] = "else" -> {eHeld[p[2]]} \ {NoFlow}]

(* The sets Held[p] are disjoint and make up S.                            *)
Partition(h, S) ==
    /\ \A p, q \in Spaces : p # q => h[p] \cap h[q] = {}
    /\ UNION {h[p] : p \in Spaces} = S

IInv ==
    /\ PipesInv /\ HandsInv /\ CloseInv /\ SubsInv /\ JudgedInv
    /\ Partition(Held, Received)

-----------------------------------------------------------------------------
(* What a step does to one pipeline: nothing but close In or subscribe,    *)
(* or let one of the flows of In enter, or leave it to segment i.          *)
Rests(pc, held, closed, subs, wg, pc2, held2, closed2, subs2, wg2) ==
    /\ pc2 = pc /\ held2 = held /\ wg2 = wg
    /\ closed2 \in {closed, closed \cup {0}} /\ subs \subseteq subs2 /\ subs2 \subseteq Segs

Enters(In, pc, held, closed, pc2, held2, closed2) ==
    /\ pc[1] = "recv" /\ 0 \notin closed /\ closed2 = closed /\ pc2 = [pc EXCEPT ![1] = "work"]
    /\ \E f \in In : held2 = [held EXCEPT ![1] = f]

Moves(i, pc, held, closed, wg, pc2, held2, closed2, wg2) ==
    \/ /\ pc[i] = "new" /\ held2 = held /\ closed2 = closed /\ wg2 = wg + 1
       /\ \E place \in {"recv", "quit"} : pc2 = [pc EXCEPT ![i] = place]
    \/ /\ pc[i] = "work" /\ held2 = held /\ closed2 = closed /\ wg2 = wg
       /\ \E place \in {"send", "drop"} : pc2 = [pc EXCEPT ![i] = place]
    \/ /\ pc[i] \in Busy /\ closed2 = closed /\ wg2 = wg
       /\ pc2 = [pc EXCEPT ![i] = "recv"] /\ held2 = [held EXCEPT ![i] = NoFlow]
    \/ /\ i < N /\ pc[i] = "send" /\ pc[i + 1] = "recv" /\ closed2 = closed /\ wg2 = wg
       /\ pc2 = [pc EXCEPT ![i] = "recv", ![i + 1] = "work"]
       /\ held2 = [held EXCEPT ![i] = NoFlow, ![i + 1] = held[i]]
    \/ /\ pc[i] \in {"recv", "quit"} /\ closed2 = closed \cup {i} /\ wg2 = wg
       /\ pc2 = [pc EXCEPT ![i] = "done"] /\ held2 = held
    \/ /\ pc[i] = "done" /\ closed2 = closed /\ wg2 = wg - 1
       /\ pc2 = [pc EXCEPT ![i] = "exited"] /\ held2 = held

PipeStep(In, pc, held, closed, subs, wg, pc2, held2, closed2, subs2, wg2) ==
    \/ Rests(pc, held, closed, subs, wg, pc2, held2, closed2, subs2, wg2)
    \/ Enters(In, pc, held, closed, pc2, held2, closed2) /\ subs2 = subs /\ wg2 = wg
    \/ \E i \in Segs : Moves(i, pc, held, closed, wg, pc2, held2, closed2, wg2) /\ subs2 = subs

(* The wait group counts the segments that start and return.               *)
LEMMA WgCounts ==
    ASSUME NEW pc, NEW pc2, NEW wg, NEW wg2, Counts(wg, Running(pc)),
           \/ Running(pc2) = Running(pc) /\ wg2 = wg
           \/ \E i \in Segs : i \notin Running(pc) /\ Running(pc2) = Running(pc) \cup {i} /\ wg2 = wg + 1
           \/ \E i \in Segs : i \in Running(pc) /\ Running(pc2) = Running(pc) \ {i} /\ wg2 = wg - 1
    PROVE  Counts(wg2, Running(pc2))
<1>0. wg \in Nat
  BY Zenon DEF Counts
<1>1. PICK nr \in [1..wg -> Segs] : \A i \in Running(pc) : \E k \in 1..wg : nr[k] = i
  BY Zenon DEF Counts
<1>2. CASE Running(pc2) = Running(pc) /\ wg2 = wg
  BY <1>2, Zenon
<1>3. ASSUME NEW i \in Segs, Running(pc2) = Running(pc) \cup {i}, wg2 = wg + 1
      PROVE  Counts(wg2, Running(pc2))
  <2> DEFINE nr2 == [k \in 1..(wg + 1) |-> IF k = wg + 1 THEN i ELSE nr[k]]
  <2>1. /\ wg + 1 \in Nat /\ wg + 1 \in 1..(wg + 1)
        /\ \A k \in 1..wg : k \in 1..(wg + 1) /\ k # wg + 1
        /\ \A k \in 1..(wg + 1) : k # wg + 1 => k \in 1..wg
    BY <1>0
  <2>2. nr2 \in [1..(wg + 1) -> Segs]
    BY <2>1
  <2>3. nr2[wg + 1] = i /\ \A k \in 1..wg : nr2[k] = nr[k]
    BY <2>1
  <2> HIDE DEF nr2
  <2>4. \A j \in Running(pc2) : \E k \in 1..(wg + 1) : nr2[k] = j
    BY <1>1, <1>3, <2>1, <2>3, Zenon
  <2> QED
    BY <1>3, <2>1, <2>2, <2>4, Zenon DEF Counts
<1>4. ASSUME NEW i \in Segs, i \in Running(pc), Running(pc2) = Running(pc) \ {i}, wg2 = wg - 1
      PROVE  Counts(wg2, Running(pc2))
  <2>0. PICK h \in 1..wg : nr[h] = i
    BY <1>1, <1>4, Zenon
  <2> DEFINE nr2 == [k \in 1..(wg - 1) |-> IF k = h THEN nr[wg] ELSE nr[k]]
  <2>1. /\ wg - 1 \in Nat /\ wg \in 1..wg
        /\ \A k \in 1..(wg - 1) : k \in 1..wg
        /\ \A k \in 1..wg : k # wg => k \in 1..(wg - 1)
    BY <1>0, <2>0
  <2>2. nr2 \in [1..(wg - 1) -> Segs]
    BY <2>1
  <2>3. \A k \in 1..(wg - 1) : nr2[k] = IF k = h THEN nr[wg] ELSE nr[k]
    BY <2>1
  <2> HIDE DEF nr2
  <2>4. ASSUME NEW j \in Running(pc2) PROVE \E k \in 1..(wg - 1) : nr2[k] = j
    <3>1. PICK k \in 1..wg : nr[k] = j /\ j # i
      BY <1>1, <1>4, <2>4, Zenon
    <3>2. CASE k = wg
      <4>1. h # wg
        BY <2>0, <3>1, <3>2, Zenon
      <4> QED
        BY <2>1, <2>3, <3>1, <3>2, <4>1, Zenon
    <3>3. CASE k # wg
      BY <2>0, <2>1, <2>3, <3>1, <3>3, Zenon
    <3> QED
      BY <3>2, <3>3, Zenon
  <2> QED
    BY <1>4, <2>1, <2>2, <2>4, Zenon DEF Counts
<1> QED
  BY <1>2, <1>3, <1>4, Zenon

(* A pipeline whose wait group is at zero holds no flow.                   *)
LEMMA EmptyAtZero ==
    ASSUME NEW kind, NEW pc, NEW held, NEW closed, NEW subs, NEW wg,
           PipeInv(kind, pc, held, closed, subs, wg), wg = 0
    PROVE  Inside(held) = {}
<1>1. \A k : k \notin 1..0
  OBVIOUS
<1>2. Running(pc) = {}
  BY <1>1, Zenon DEF PipeInv, Counts
<1>3. \A i \in Segs : held[i] = NoFlow
  BY <1>2, Zenon DEF PipeInv, Running, Busy
<1> QED
  BY <1>3, Zenon DEF Inside

(* A step keeps the invariant of a pipeline, and an empty pipeline whose   *)
(* In is closed stays so.                                                  *)
LEMMA PipeKeeps ==
    ASSUME NEW kind, NEW pc, NEW held, NEW closed, NEW subs, NEW wg,
           NEW pc2, NEW held2, NEW closed2, NEW subs2, NEW wg2, NEW In, In \subseteq Flow,
           PipeInv(kind, pc, held, closed, subs, wg),
           PipeStep(In, pc, held, closed, subs, wg, pc2, held2, closed2, subs2, wg2)
    PROVE  /\ PipeInv(kind, pc2, held2, closed2, subs2, wg2)
           /\ closed \subseteq closed2 /\ subs \subseteq subs2
           /\ 0 \in closed /\ Inside(held) = {} => Inside(held2) = {}
           /\ \A i \in Segs : \/ held2[i] = NoFlow \/ (\E j \in Segs : held2[i] = held[j])
                              \/ held2[i] \in In
<1> DEFINE T == /\ pc2 \in [Segs -> Cond!Places] /\ held2 \in [Segs -> Flow \cup {NoFlow}]
                /\ closed2 \in SUBSET (0..N) /\ subs2 \in SUBSET Segs
                /\ \A i \in Segs : held2[i] # NoFlow <=> pc2[i] \in Busy
                /\ closed \subseteq closed2 /\ subs \subseteq subs2
           Wg == \/ Running(pc2) = Running(pc) /\ wg2 = wg
                 \/ \E i \in Segs : i \notin Running(pc) /\ Running(pc2) = Running(pc) \cup {i} /\ wg2 = wg + 1
                 \/ \E i \in Segs : i \in Running(pc) /\ Running(pc2) = Running(pc) \ {i} /\ wg2 = wg - 1
           F == \A i \in Segs : \/ held2[i] = NoFlow \/ (\E j \in Segs : held2[i] = held[j])
                                \/ held2[i] \in In
           E == 0 \in closed /\ Inside(held) = {} => Inside(held2) = {}
<1>0. /\ pc \in [Segs -> Cond!Places] /\ held \in [Segs -> Flow \cup {NoFlow}]
      /\ closed \in SUBSET (0..N) /\ subs \in SUBSET Segs
      /\ \A i \in Segs : held[i] # NoFlow <=> pc[i] \in Busy
      /\ NoFlow \notin Flow /\ 1 \in Segs /\ Segs \subseteq 0..N /\ 0 \in 0..N
      /\ Segs \subseteq Nat /\ \A i \in Segs : i < N => i + 1 \in Segs /\ i + 1 # i
  BY BranchAssumption DEF PipeInv, Segs, Flow, Cond!Flow, NoFlow, Cond!NoFlow
<1>1. ASSUME Rests(pc, held, closed, subs, wg, pc2, held2, closed2, subs2, wg2) PROVE T /\ Wg /\ F /\ E
  BY <1>0, <1>1, Zenon DEF Rests
<1>2. ASSUME Enters(In, pc, held, closed, pc2, held2, closed2), subs2 = subs, wg2 = wg PROVE T /\ Wg /\ F /\ E
  <2>1. T
    BY <1>0, <1>2 DEF Enters, Busy, Cond!Places
  <2>2. Running(pc2) = Running(pc) /\ wg2 = wg
    BY <1>0, <1>2, Zenon DEF Enters, Running
  <2>3. F
    BY <1>0, <1>2, Zenon DEF Enters
  <2> QED
    BY <1>2, <2>1, <2>2, <2>3, Zenon DEF Enters
<1>3. ASSUME NEW i \in Segs, Moves(i, pc, held, closed, wg, pc2, held2, closed2, wg2), subs2 = subs
      PROVE  T /\ Wg /\ F /\ E
  <2>1. CASE /\ pc[i] = "new" /\ held2 = held /\ closed2 = closed /\ wg2 = wg + 1
             /\ \E place \in {"recv", "quit"} : pc2 = [pc EXCEPT ![i] = place]
    <3>1. T
      BY <1>0, <1>3, <2>1, Zenon DEF Busy, Cond!Places
    <3>2. i \notin Running(pc) /\ Running(pc2) = Running(pc) \cup {i}
      BY <1>0, <1>3, <2>1 DEF Running
    <3> QED
      BY <2>1, <3>1, <3>2, Zenon
  <2>2. CASE /\ pc[i] = "work" /\ held2 = held /\ closed2 = closed /\ wg2 = wg
             /\ \E place \in {"send", "drop"} : pc2 = [pc EXCEPT ![i] = place]
    <3>1. T
      BY <1>0, <1>3, <2>2 DEF Busy, Cond!Places
    <3>2. Running(pc2) = Running(pc)
      BY <1>0, <1>3, <2>2, Zenon DEF Running
    <3> QED
      BY <2>2, <3>1, <3>2, Zenon
  <2>3. CASE /\ pc[i] \in Busy /\ closed2 = closed /\ wg2 = wg
             /\ pc2 = [pc EXCEPT ![i] = "recv"] /\ held2 = [held EXCEPT ![i] = NoFlow]
    <3>1. T
      BY <1>0, <1>3, <2>3, Zenon DEF Busy, Cond!Places
    <3>2. Running(pc2) = Running(pc)
      BY <1>0, <1>3, <2>3, Zenon DEF Running, Busy
    <3>3. \A j \in Segs : held2[j] = NoFlow \/ held2[j] = held[j]
      BY <1>0, <1>3, <2>3, Zenon
    <3>4. E
      BY <3>3, Zenon DEF Inside
    <3> QED
      BY <2>3, <3>1, <3>2, <3>3, <3>4, Zenon
  <2>4. CASE /\ i < N /\ pc[i] = "send" /\ pc[i + 1] = "recv" /\ closed2 = closed /\ wg2 = wg
             /\ pc2 = [pc EXCEPT ![i] = "recv", ![i + 1] = "work"]
             /\ held2 = [held EXCEPT ![i] = NoFlow, ![i + 1] = held[i]]
    <3>0. i + 1 \in Segs /\ i + 1 # i
      BY <1>0, <1>3, <2>4, Zenon
    <3>1. T
      BY <1>0, <1>3, <2>4, <3>0, Zenon DEF Busy, Cond!Places
    <3>2. Running(pc2) = Running(pc)
      BY <1>0, <1>3, <2>4, <3>0, Zenon DEF Running
    <3>3. \A j \in Segs : held2[j] = NoFlow \/ held2[j] = held[j] \/ held2[j] = held[i]
      BY <1>0, <1>3, <2>4, <3>0, Zenon
    <3>4. E
      BY <1>3, <3>3, Zenon DEF Inside
    <3> QED
      BY <1>3, <2>4, <3>1, <3>2, <3>3, <3>4, Zenon
  <2>5. CASE /\ pc[i] \in {"recv", "quit"} /\ closed2 = closed \cup {i} /\ wg2 = wg
             /\ pc2 = [pc EXCEPT ![i] = "done"] /\ held2 = held
    <3>1. T
      BY <1>0, <1>3, <2>5, Zenon DEF Busy, Cond!Places
    <3>2. Running(pc2) = Running(pc)
      BY <1>0, <1>3, <2>5, Zenon DEF Running
    <3> QED
      BY <2>5, <3>1, <3>2, Zenon
  <2>6. CASE /\ pc[i] = "done" /\ closed2 = closed /\ wg2 = wg - 1
             /\ pc2 = [pc EXCEPT ![i] = "exited"] /\ held2 = held
    <3>1. T
      BY <1>0, <1>3, <2>6, Zenon DEF Busy, Cond!Places
    <3>2. i \in Running(pc) /\ Running(pc2) = Running(pc) \ {i}
      BY <1>0, <1>3, <2>6, Zenon DEF Running
    <3> QED
      BY <2>6, <3>1, <3>2, Zenon
  <2> QED
    BY <1>3, <2>1, <2>2, <2>3, <2>4, <2>5, <2>6, Zenon DEF Moves
<1>4. T /\ Wg /\ F /\ E
  <2> HIDE DEF T, Wg, F, E
  <2> QED
    BY <1>1, <1>2, <1>3, Zenon DEF PipeStep
<1>5. Counts(wg2, Running(pc2))
  BY <1>4, WgCounts, Zenon DEF PipeInv
<1>6. kind \in [Segs -> Kinds]
  BY Zenon DEF PipeInv
<1> QED
  BY <1>4, <1>5, <1>6, Zenon DEF PipeInv

-----------------------------------------------------------------------------
CondSteps == \E i \in Segs : CondSegment(i)
ThenSteps == \E i \in Segs : ThenSegment(i)
ElseSteps == \E i \in Segs : ElseSegment(i)

(* Which steps may change which variables.                                 *)
LEMMA Frames ==
    ASSUME [Next]_vars
    PROVE  /\ \/ UNCHANGED cVars \/ SendToCondition \/ CloseCondition \/ StartCondition \/ CondSteps
              \/ FwdSubscribe \/ FwdFromOut \/ FwdFromDrop
           /\ \/ UNCHANGED tVars \/ CloseThen \/ StartThen \/ ThenSteps \/ FwdSend
              \/ DrnSubscribe \/ DrnFromOut \/ DrnFromDrop
           /\ \/ UNCHANGED eVars \/ CloseElse \/ StartElse \/ ElseSteps \/ FwdSend
              \/ DrnSubscribe \/ DrnFromOut \/ DrnFromDrop
           /\ UNCHANGED inVars \/ ReceiveIn \/ CloseInput
           /\ UNCHANGED runVars \/ ReceiveIn \/ SendToCondition \/ Defer
           /\ UNCHANGED fwdVars \/ Forward
           /\ UNCHANGED drnVars \/ Drain
           /\ UNCHANGED outVars \/ CloseOut \/ CloseDrops
           /\ UNCHANGED <<out, dropped>> \/ DrnSend
           /\ UNCHANGED <<missed, judged>> \/ CondSteps
           /\ UNCHANGED lost \/ ThenSteps \/ ElseSteps \/ DrnFromDrop
           /\ UNCHANGED rest \/ Panic
<1> USE DEF pipes, goroutines
<1>1. CASE ReceiveIn \/ CloseInput \/ SendToCondition \/ UNCHANGED vars
  BY <1>1, Zenon DEF ReceiveIn, CloseInput, SendToCondition, flowVars, vars
<1>2. CASE Defer
  BY <1>2, Zenon DEF Defer, CloseCondition, CloseThen, CloseElse, CloseOut, CloseDrops, flowVars
<1>3. CASE Forward
  BY <1>3, Zenon DEF Forward, FwdSubscribe, FwdFromOut, FwdOutClosed, FwdFromDrop, FwdSend, flowVars
<1>4. CASE Drain
  BY <1>4, Zenon DEF Drain, DrnSubscribe, DrnFromOut, DrnFromDrop, DrnEndClosed, DrnSend, flowVars
<1>5. CASE Panic \/ StartCondition \/ StartThen \/ StartElse
  BY <1>5, Zenon DEF Panic, StartCondition, StartThen, StartElse, flowVars
<1>6. CASE CondSteps
  BY <1>6, Zenon DEF CondSteps, CondSegment
<1>7. CASE ThenSteps
  BY <1>7, Zenon DEF ThenSteps, ThenSegment
<1>8. CASE ElseSteps
  BY <1>8, Zenon DEF ElseSteps, ElseSegment
<1> QED
  BY <1>1, <1>2, <1>3, <1>4, <1>5, <1>6, <1>7, <1>8, Zenon DEF Next, CondSteps, ThenSteps, ElseSteps

(* The flows that may enter the three pipelines.                           *)
CIn == {f \in {runMsg} : run = "send"}
TIn == {f \in {fwdMsg} : fwd = <<"toThen">>}
EIn == {f \in {fwdMsg} : fwd = <<"toElse">>}

CStep == /\ cKind' = cKind
         /\ PipeStep(CIn, cPc, cHeld, cClosed, cSubs, cWg, cPc', cHeld', cClosed', cSubs', cWg')
TStep == /\ tKind' = tKind
         /\ PipeStep(TIn, tPc, tHeld, tClosed, tSubs, tWg, tPc', tHeld', tClosed', tSubs', tWg')
EStep == /\ eKind' = eKind
         /\ PipeStep(EIn, ePc, eHeld, eClosed, eSubs, eWg, ePc', eHeld', eClosed', eSubs', eWg')

(* Every step of the branch is a step of each of the three pipelines.      *)
LEMMA CondStep ==
    ASSUME cSubs \subseteq Segs, [Next]_vars
    PROVE  CStep
<1>0. N \in Segs
  BY BranchAssumption DEF Segs
<1>1. CASE UNCHANGED cVars
  BY <1>1, Zenon DEF CStep, PipeStep, Rests, cVars
<1>2. CASE SendToCondition
  BY <1>2, Zenon DEF CStep, PipeStep, Enters, SendToCondition, Cond!Push, CIn
<1>3. CASE CloseCondition
  BY <1>3, Zenon DEF CStep, PipeStep, Rests, CloseCondition, Cond!CloseIn
<1>4. CASE StartCondition
  BY <1>4, Zenon DEF CStep, PipeStep, Moves, StartCondition, Cond!StartSegment
<1>5. CASE CondSteps
  <2>1. PICK i \in Segs : CondSegment(i)
    BY <1>5, Zenon DEF CondSteps
  <2>2. Cond!SegStep(i) \/ Cond!Discard(i)
    BY <2>1, Zenon DEF CondSegment
  <2>3. Moves(i, cPc, cHeld, cClosed, cWg, cPc', cHeld', cClosed', cWg') /\ UNCHANGED <<cKind, cSubs>>
    BY <2>2, Zenon DEF Cond!SegStep, Cond!Handoff, Cond!Accept, Cond!OfferDrop, Cond!CloseOut, Cond!Done,
                Cond!Discard, Moves, Busy, Cond!NoFlow, NoFlow
  <2> QED
    BY <2>3, Zenon DEF CStep, PipeStep
<1>6. CASE FwdSubscribe
  BY <1>6, Zenon DEF CStep, PipeStep, Rests, FwdSubscribe, Cond!SubscribeSegment
<1>7. CASE FwdFromOut
  BY <1>0, <1>7, Zenon DEF CStep, PipeStep, Moves, FwdFromOut, Cond!Pull, Busy, NoFlow
<1>8. CASE FwdFromDrop
  BY <1>8, Zenon DEF CStep, PipeStep, Moves, FwdFromDrop, Cond!PullDrop, Busy, NoFlow
<1> QED
  BY <1>1, <1>2, <1>3, <1>4, <1>5, <1>6, <1>7, <1>8, Frames, Zenon

(* The same for `then`.                                                    *)
LEMMA ThenStep ==
    ASSUME tSubs \subseteq Segs, [Next]_vars
    PROVE  TStep
<1>0. N \in Segs
  BY BranchAssumption DEF Segs
<1>n. NoFlow = Then!NoFlow
  BY Zenon DEF NoFlow, Cond!NoFlow, Then!NoFlow
<1>1. CASE UNCHANGED tVars
  BY <1>1, Zenon DEF TStep, PipeStep, Rests, tVars
<1>2. CASE FwdSend
  <2>1. CASE fwd = <<"toThen">> /\ Then!Push(fwdMsg)
    BY <2>1, Zenon DEF TStep, PipeStep, Enters, Then!Push, TIn
  <2> QED
    BY <1>1, <1>2, <2>1, Zenon DEF FwdSend
<1>3. CASE CloseThen
  BY <1>3, Zenon DEF TStep, PipeStep, Rests, CloseThen, Then!CloseIn
<1>4. CASE StartThen
  BY <1>4, Zenon DEF TStep, PipeStep, Moves, StartThen, Then!StartSegment
<1>5. CASE ThenSteps
  <2>1. PICK i \in Segs : ThenSegment(i)
    BY <1>5, Zenon DEF ThenSteps
  <2>2. Then!SegStep(i) \/ Then!Discard(i)
    BY <2>1, Zenon DEF ThenSegment
  <2>3. Moves(i, tPc, tHeld, tClosed, tWg, tPc', tHeld', tClosed', tWg') /\ UNCHANGED <<tKind, tSubs>>
    BY <1>n, <2>2, Zenon DEF Then!SegStep, Then!Handoff, Then!Accept, Then!OfferDrop, Then!CloseOut, Then!Done,
                Then!Discard, Moves, Busy
  <2> QED
    BY <2>3, Zenon DEF TStep, PipeStep
<1>6. CASE DrnSubscribe
  <2>1. ASSUME NEW i \in Segs, Then!SubscribeSegment(i) PROVE TStep
    BY <2>1, Zenon DEF TStep, PipeStep, Rests, Then!SubscribeSegment
  <2> QED
    BY <1>1, <1>6, <2>1, Zenon DEF DrnSubscribe
<1>7. CASE DrnFromOut
  <2>1. CASE Then!Pull
    BY <1>0, <1>n, <2>1, Zenon DEF TStep, PipeStep, Moves, Then!Pull, Busy
  <2> QED
    BY <1>1, <1>7, <2>1, Zenon DEF DrnFromOut
<1>8. CASE DrnFromDrop
  <2>1. ASSUME NEW i \in Segs, Then!PullDrop(i) PROVE TStep
    BY <1>n, <2>1, Zenon DEF TStep, PipeStep, Moves, Then!PullDrop, Busy
  <2> QED
    BY <1>1, <1>8, <2>1, Zenon DEF DrnFromDrop
<1> QED
  BY <1>1, <1>2, <1>3, <1>4, <1>5, <1>6, <1>7, <1>8, Frames, Zenon

(* The same for `else`.                                                    *)
LEMMA ElseStep ==
    ASSUME eSubs \subseteq Segs, [Next]_vars
    PROVE  EStep
<1>0. N \in Segs
  BY BranchAssumption DEF Segs
<1>n. NoFlow = Else!NoFlow
  BY Zenon DEF NoFlow, Cond!NoFlow, Else!NoFlow
<1>1. CASE UNCHANGED eVars
  BY <1>1, Zenon DEF EStep, PipeStep, Rests, eVars
<1>2. CASE FwdSend
  <2>1. CASE fwd = <<"toElse">> /\ Else!Push(fwdMsg)
    BY <2>1, Zenon DEF EStep, PipeStep, Enters, Else!Push, EIn
  <2> QED
    BY <1>1, <1>2, <2>1, Zenon DEF FwdSend
<1>3. CASE CloseElse
  BY <1>3, Zenon DEF EStep, PipeStep, Rests, CloseElse, Else!CloseIn
<1>4. CASE StartElse
  BY <1>4, Zenon DEF EStep, PipeStep, Moves, StartElse, Else!StartSegment
<1>5. CASE ElseSteps
  <2>1. PICK i \in Segs : ElseSegment(i)
    BY <1>5, Zenon DEF ElseSteps
  <2>2. Else!SegStep(i) \/ Else!Discard(i)
    BY <2>1, Zenon DEF ElseSegment
  <2>3. Moves(i, ePc, eHeld, eClosed, eWg, ePc', eHeld', eClosed', eWg') /\ UNCHANGED <<eKind, eSubs>>
    BY <1>n, <2>2, Zenon DEF Else!SegStep, Else!Handoff, Else!Accept, Else!OfferDrop, Else!CloseOut, Else!Done,
                Else!Discard, Moves, Busy
  <2> QED
    BY <2>3, Zenon DEF EStep, PipeStep
<1>6. CASE DrnSubscribe
  <2>1. ASSUME NEW i \in Segs, Else!SubscribeSegment(i) PROVE EStep
    BY <2>1, Zenon DEF EStep, PipeStep, Rests, Else!SubscribeSegment
  <2> QED
    BY <1>1, <1>6, <2>1, Zenon DEF DrnSubscribe
<1>7. CASE DrnFromOut
  <2>1. CASE Else!Pull
    BY <1>0, <1>n, <2>1, Zenon DEF EStep, PipeStep, Moves, Else!Pull, Busy
  <2> QED
    BY <1>1, <1>7, <2>1, Zenon DEF DrnFromOut
<1>8. CASE DrnFromDrop
  <2>1. ASSUME NEW i \in Segs, Else!PullDrop(i) PROVE EStep
    BY <1>n, <2>1, Zenon DEF EStep, PipeStep, Moves, Else!PullDrop, Busy
  <2> QED
    BY <1>1, <1>8, <2>1, Zenon DEF DrnFromDrop
<1> QED
  BY <1>1, <1>2, <1>3, <1>4, <1>5, <1>6, <1>7, <1>8, Frames, Zenon

-----------------------------------------------------------------------------
(* The places are different ones.                                          *)
LEMMA PlacesAre ==
    /\ \A s \in Spots : At(s) \in Spaces
    /\ \A b \in Branches, i \in Segs : Seg(b, i) \in Spaces
    /\ \A s, t \in Spots : At(s) = At(t) => s = t
    /\ \A s \in Spots, b \in Branches, i \in Segs : At(s) # Seg(b, i)
    /\ \A a, b \in Branches, i, j \in Segs : Seg(a, i) = Seg(b, j) => a = b /\ i = j
    /\ \A p \in Spaces : \/ \E s \in Spots : p = At(s)
                         \/ \E b \in Branches, i \in Segs : p = Seg(b, i)
<1>1. \A s \in Spots, b \in Branches : s # b
  BY Zenon DEF Spots, Branches
<1>2. /\ \A s \in Spots : At(s) \in Spaces
      /\ \A b \in Branches, i \in Segs : Seg(b, i) \in Spaces
      /\ \A p \in Spaces : \/ \E s \in Spots : p = At(s)
                           \/ \E b \in Branches, i \in Segs : p = Seg(b, i)
  BY DEF Spaces
<1>3. \A s, t \in Spots : At(s) = At(t) => s = t
  BY Zenon DEF At
<1>4. \A s \in Spots, b \in Branches, i \in Segs : At(s) # Seg(b, i)
  BY <1>1, Zenon DEF At, Seg
<1>5. \A a, b \in Branches, i, j \in Segs : Seg(a, i) = Seg(b, j) => a = b /\ i = j
  BY Zenon DEF Seg
<1> QED
  BY <1>2, <1>3, <1>4, <1>5, Zenon

(* The names of the places.                                                *)
LEMMA Names ==
    /\ "run" \in Spots /\ "forward" \in Spots /\ "drain" \in Spots /\ "out" \in Spots
    /\ "dropped" \in Spots /\ "missed" \in Spots /\ "lost" \in Spots
    /\ \A s \in Spots : \/ s = "run" \/ s = "forward" \/ s = "drain" \/ s = "out"
                        \/ s = "dropped" \/ s = "missed" \/ s = "lost"
    /\ "if" \in Branches /\ "then" \in Branches /\ "else" \in Branches
    /\ \A b \in Branches : b = "if" \/ b = "then" \/ b = "else"
  BY Zenon DEF Spots, Branches

(* What is where.                                                          *)
HeldFacts ==
    /\ Held[At("run")] = {runMsg} \ {NoFlow} /\ Held[At("forward")] = {fwdMsg} \ {NoFlow}
    /\ Held[At("drain")] = {drnMsg} \ {NoFlow} /\ Held[At("out")] = out
    /\ Held[At("dropped")] = dropped /\ Held[At("missed")] = missed /\ Held[At("lost")] = lost
    /\ \A i \in Segs : /\ Held[Seg("if", i)] = {cHeld[i]} \ {NoFlow}
                       /\ Held[Seg("then", i)] = {tHeld[i]} \ {NoFlow}
                       /\ Held[Seg("else", i)] = {eHeld[i]} \ {NoFlow}

(* Held is what it is meant to be.                                         *)
LEMMA HeldIs == HeldFacts
<1>1. \A s \in Spots : At(s) \in Spaces /\ At(s)[1] = s
  BY PlacesAre, Zenon DEF At
<1>2. \A b \in Branches, i \in Segs : Seg(b, i) \in Spaces /\ Seg(b, i)[1] = b /\ Seg(b, i)[2] = i
  BY PlacesAre, Zenon DEF Seg
<1>3. \A i \in Segs : /\ Held[Seg("if", i)] = {cHeld[i]} \ {NoFlow}
                       /\ Held[Seg("then", i)] = {tHeld[i]} \ {NoFlow}
                       /\ Held[Seg("else", i)] = {eHeld[i]} \ {NoFlow}
  BY <1>2, Names DEF Held
<1>4. /\ Held[At("run")] = {runMsg} \ {NoFlow} /\ Held[At("forward")] = {fwdMsg} \ {NoFlow}
      /\ Held[At("drain")] = {drnMsg} \ {NoFlow} /\ Held[At("out")] = out
      /\ Held[At("dropped")] = dropped /\ Held[At("missed")] = missed /\ Held[At("lost")] = lost
  BY <1>1, Names, ZenonT(30) DEF Held
<1> QED
  BY <1>3, <1>4, Zenon DEF HeldFacts

(* So it is after a step.                                                  *)
LEMMA HeldIsNext == HeldFacts'
  BY HeldIs, PTL

(* A place stays as it is when its variable does.                          *)
LEMMA HeldStays ==
    /\ runMsg' = runMsg => Held'[At("run")] = Held[At("run")]
    /\ fwdMsg' = fwdMsg => Held'[At("forward")] = Held[At("forward")]
    /\ drnMsg' = drnMsg => Held'[At("drain")] = Held[At("drain")]
    /\ out' = out => Held'[At("out")] = Held[At("out")]
    /\ dropped' = dropped => Held'[At("dropped")] = Held[At("dropped")]
    /\ missed' = missed => Held'[At("missed")] = Held[At("missed")]
    /\ lost' = lost => Held'[At("lost")] = Held[At("lost")]
    /\ \A i \in Segs : cHeld'[i] = cHeld[i] => Held'[Seg("if", i)] = Held[Seg("if", i)]
    /\ \A i \in Segs : tHeld'[i] = tHeld[i] => Held'[Seg("then", i)] = Held[Seg("then", i)]
    /\ \A i \in Segs : eHeld'[i] = eHeld[i] => Held'[Seg("else", i)] = Held[Seg("else", i)]
<1>1. \A i \in Segs : /\ Held[Seg("if", i)] = {cHeld[i]} \ {NoFlow}
                       /\ Held[Seg("then", i)] = {tHeld[i]} \ {NoFlow}
                       /\ Held[Seg("else", i)] = {eHeld[i]} \ {NoFlow}
                       /\ Held'[Seg("if", i)] = {cHeld'[i]} \ {NoFlow}
                       /\ Held'[Seg("then", i)] = {tHeld'[i]} \ {NoFlow}
                       /\ Held'[Seg("else", i)] = {eHeld'[i]} \ {NoFlow}
  BY HeldIs, HeldIsNext, Zenon DEF HeldFacts
<1>2. /\ runMsg' = runMsg => Held'[At("run")] = Held[At("run")]
      /\ fwdMsg' = fwdMsg => Held'[At("forward")] = Held[At("forward")]
      /\ drnMsg' = drnMsg => Held'[At("drain")] = Held[At("drain")]
      /\ out' = out => Held'[At("out")] = Held[At("out")]
      /\ dropped' = dropped => Held'[At("dropped")] = Held[At("dropped")]
      /\ missed' = missed => Held'[At("missed")] = Held[At("missed")]
      /\ lost' = lost => Held'[At("lost")] = Held[At("lost")]
  BY HeldIs, HeldIsNext, Zenon DEF HeldFacts
<1>3. \A i \in Segs : cHeld'[i] = cHeld[i] => Held'[Seg("if", i)] = Held[Seg("if", i)]
  BY <1>1, Zenon
<1>4. \A i \in Segs : tHeld'[i] = tHeld[i] => Held'[Seg("then", i)] = Held[Seg("then", i)]
  BY <1>1, Zenon
<1>5. \A i \in Segs : eHeld'[i] = eHeld[i] => Held'[Seg("else", i)] = Held[Seg("else", i)]
  BY <1>1, Zenon
<1> QED
  BY <1>2, <1>3, <1>4, <1>5, Zenon

(* Every message in a hand or in a segment has been received from In.      *)
LEMMA InHand ==
    ASSUME Partition(Held, Received)
    PROVE  /\ Received \subseteq Flow /\ NoFlow \notin Flow
           /\ runMsg \in Received \cup {NoFlow} /\ fwdMsg \in Received \cup {NoFlow}
           /\ drnMsg \in Received \cup {NoFlow}
           /\ out \subseteq Received /\ dropped \subseteq Received
           /\ missed \subseteq Received /\ lost \subseteq Received
           /\ \A i \in Segs : /\ cHeld[i] \in Received \cup {NoFlow}
                              /\ tHeld[i] \in Received \cup {NoFlow}
                              /\ eHeld[i] \in Received \cup {NoFlow}
<1>1. \A p \in Spaces : Held[p] \subseteq Received
  BY Zenon DEF Partition
<1>2. \A s \in Spots : Held[At(s)] \subseteq Received
  BY <1>1, PlacesAre, Zenon
<1>3. \A b \in Branches, i \in Segs : Held[Seg(b, i)] \subseteq Received
  BY <1>1, PlacesAre, Zenon
<1>4. Received \subseteq Flow /\ NoFlow \notin Flow
  BY DEF Received, FlowNr, Flow, Cond!Flow, NoFlow, Cond!NoFlow
<1>5. /\ runMsg \in Received \cup {NoFlow} /\ fwdMsg \in Received \cup {NoFlow}
      /\ drnMsg \in Received \cup {NoFlow}
      /\ out \subseteq Received /\ dropped \subseteq Received
      /\ missed \subseteq Received /\ lost \subseteq Received
  BY <1>2, HeldIs, Names, Zenon DEF HeldFacts
<1>6. ASSUME NEW i \in Segs
      PROVE  /\ cHeld[i] \in Received \cup {NoFlow}
             /\ tHeld[i] \in Received \cup {NoFlow}
             /\ eHeld[i] \in Received \cup {NoFlow}
  BY <1>3, HeldIs, Names DEF HeldFacts
<1> QED
  BY <1>4, <1>5, <1>6, Zenon

(* The pipelines keep their invariants.                                    *)
LEMMA NextPipes ==
    ASSUME IInv, [Next]_vars
    PROVE  PipesInv'
<1>1. /\ PipeInv(cKind, cPc, cHeld, cClosed, cSubs, cWg)
      /\ PipeInv(tKind, tPc, tHeld, tClosed, tSubs, tWg)
      /\ PipeInv(eKind, ePc, eHeld, eClosed, eSubs, eWg)
  BY Zenon DEF IInv, PipesInv
<1>2. cSubs \subseteq Segs /\ tSubs \subseteq Segs /\ eSubs \subseteq Segs
  BY <1>1, Zenon DEF PipeInv
<1>3. CIn \subseteq Flow /\ TIn \subseteq Flow /\ EIn \subseteq Flow
  BY InHand, Zenon DEF IInv, HandsInv, CIn, TIn, EIn
<1>4. CStep /\ TStep /\ EStep
  BY <1>2, CondStep, ThenStep, ElseStep, Zenon
<1>5. /\ PipeInv(cKind, cPc', cHeld', cClosed', cSubs', cWg') /\ cKind' = cKind
      /\ PipeInv(tKind, tPc', tHeld', tClosed', tSubs', tWg') /\ tKind' = tKind
      /\ PipeInv(eKind, ePc', eHeld', eClosed', eSubs', eWg') /\ eKind' = eKind
  BY <1>1, <1>3, <1>4, PipeKeeps DEF CStep, TStep, EStep
<1> QED
  BY <1>5, Zenon DEF PipesInv, PipeInv, Running

(* A segment that passes a flow on holds one.                              *)
LEMMA Holds ==
    ASSUME PipesInv, NEW i \in Segs
    PROVE  /\ cPc[i] \in {"work", "send", "drop"} <=> cHeld[i] # NoFlow
           /\ tPc[i] \in {"work", "send", "drop"} <=> tHeld[i] # NoFlow
           /\ ePc[i] \in {"work", "send", "drop"} <=> eHeld[i] # NoFlow
  BY Zenon DEF PipesInv, PipeInv, Busy

(* The places of the goroutines are different ones.                        *)
LEMMA Labels ==
    /\ \A i : /\ <<"subscribe", i>> \notin {<<"select">>, <<"toThen">>, <<"toElse">>, <<"exited">>}
              /\ <<"subThen", i>> \notin {<<"select">>, <<"toOut">>, <<"toDrops">>, <<"exited">>}
              /\ <<"subElse", i>> \notin {<<"select">>, <<"toOut">>, <<"toDrops">>, <<"exited">>}
    /\ \A i, j : /\ <<"subThen", i>> # <<"subElse", j>>
                 /\ <<"subscribe", i>> = <<"subscribe", j>> => i = j
                 /\ <<"subThen", i>> = <<"subThen", j>> => i = j
                 /\ <<"subElse", i>> = <<"subElse", j>> => i = j
    /\ <<"select">> \notin {<<"toThen">>, <<"toElse">>, <<"toOut">>, <<"toDrops">>, <<"exited">>}
    /\ <<"exited">> \notin {<<"toThen">>, <<"toElse">>, <<"toOut">>, <<"toDrops">>}
    /\ <<"toThen">> # <<"toElse">> /\ <<"toOut">> # <<"toDrops">>
  BY Zenon

(* The goroutines.                                                         *)
LEMMA NextHands ==
    ASSUME IInv, [Next]_vars
    PROVE  HandsInv'
<1>0. HandsInv /\ PipesInv /\ Received \subseteq Flow /\ NoFlow \notin Flow /\ N \in Segs
  BY InHand, BranchAssumption DEF IInv, Segs
<1>1. (fed \in 0..MaxFlows /\ inClosed \in BOOLEAN)'
  <2>1. CASE ReceiveIn
    BY <1>0, <2>1, BranchAssumption DEF HandsInv, ReceiveIn
  <2>2. CASE CloseInput
    BY <1>0, <2>2, Zenon DEF HandsInv, CloseInput
  <2>3. CASE UNCHANGED inVars
    BY <1>0, <2>3, Zenon DEF HandsInv, inVars
  <2> QED
    BY <2>1, <2>2, <2>3, Frames, Zenon
<1>2. (run \in RunPlaces /\ (run = "send" <=> runMsg # NoFlow))'
  <2>0. FlowNr(fed + 1) # NoFlow
    <3>1. FlowNr(fed + 1).n = fed + 1 /\ NoFlow.n = 0 /\ fed \in Nat
      BY <1>0, BranchAssumption DEF FlowNr, NoFlow, Cond!NoFlow, HandsInv
    <3> QED
      BY <3>1
  <2>1. CASE ReceiveIn
    BY <2>0, <2>1, Zenon DEF ReceiveIn, RunPlaces
  <2>2. CASE SendToCondition
    BY <2>2, Zenon DEF SendToCondition, RunPlaces
  <2>3. CASE Defer
    BY <1>0, <2>3, Zenon DEF HandsInv, Defer, CloseCondition, CloseThen, CloseElse, CloseOut, CloseDrops, RunPlaces
  <2>4. CASE UNCHANGED runVars
    BY <1>0, <2>4, Zenon DEF HandsInv, runVars
  <2> QED
    BY <2>1, <2>2, <2>3, <2>4, Frames, Zenon
<1>3. /\ (fwd \in FwdPlaces /\ fwdOut \in {"open", "nil"})'
      /\ (fwd \in {<<"toThen">>, <<"toElse">>} <=> fwdMsg # NoFlow)'
  <2>1. CASE FwdSubscribe
    <3>1. PICK i \in Segs : /\ fwd = <<"subscribe", i>> /\ fwdMsg' = fwdMsg /\ fwdOut' = fwdOut
                            /\ fwd' = IF i = N THEN <<"select">> ELSE <<"subscribe", i + 1>>
      BY <2>1, Zenon DEF FwdSubscribe
    <3>2. i # N => i + 1 \in Segs
      BY BranchAssumption DEF Segs
    <3>3. fwd' \in FwdPlaces
      BY <3>1, <3>2, Zenon DEF FwdPlaces
    <3>4. fwdMsg = NoFlow
      BY <1>0, <3>1, Labels, Zenon DEF HandsInv
    <3>5. fwd' \notin {<<"toThen">>, <<"toElse">>}
      BY <3>1, Labels, Zenon
    <3>6. fwdOut \in {"open", "nil"}
      BY <1>0, Zenon DEF HandsInv
    <3> QED
      BY <3>1, <3>3, <3>4, <3>5, <3>6, Zenon
  <2>2. CASE FwdFromOut
    <3>1. cHeld[N] # NoFlow
      BY <1>0, <2>2, Holds, Zenon DEF FwdFromOut, Cond!Pull
    <3> QED
      BY <1>0, <2>2, <3>1, Zenon DEF HandsInv, FwdFromOut, FwdPlaces
  <2>3. CASE FwdOutClosed
    BY <1>0, <2>3, Zenon DEF HandsInv, FwdOutClosed
  <2>4. CASE FwdFromDrop
    <3>1. PICK i \in Segs : cPc[i] = "drop" /\ fwdMsg' = cHeld[i]
      BY <2>4, Zenon DEF FwdFromDrop, Cond!PullDrop
    <3>2. cHeld[i] # NoFlow
      BY <1>0, <3>1, Holds, Zenon
    <3> QED
      BY <1>0, <2>4, <3>1, <3>2, Zenon DEF HandsInv, FwdFromDrop, FwdPlaces
  <2>5. CASE FwdSend
    <3>1. fwd' = <<"select">> /\ fwdMsg' = NoFlow /\ fwdOut' = fwdOut
      BY <2>5, Zenon DEF FwdSend
    <3> QED
      BY <1>0, <3>1, Labels, Zenon DEF HandsInv, FwdPlaces
  <2>6. CASE UNCHANGED fwdVars
    BY <1>0, <2>6, Zenon DEF HandsInv, fwdVars
  <2> QED
    BY <2>1, <2>2, <2>3, <2>4, <2>5, <2>6, Frames, Zenon DEF Forward
<1>4. /\ (drn \in DrnPlaces)'
      /\ (drn \in {<<"toOut">>, <<"toDrops">>} <=> drnMsg # NoFlow)'
  <2>1. CASE DrnSubscribe
    <3>1. PICK i \in Segs :
             /\ drnMsg' = drnMsg
             /\ \/ /\ drn = <<"subThen", i>>
                   /\ drn' = IF i = N THEN <<"subElse", 1>> ELSE <<"subThen", i + 1>>
                \/ /\ drn = <<"subElse", i>>
                   /\ drn' = IF i = N THEN <<"select">> ELSE <<"subElse", i + 1>>
      BY <2>1, Zenon DEF DrnSubscribe
    <3>2. 1 \in Segs /\ (i # N => i + 1 \in Segs)
      BY BranchAssumption DEF Segs
    <3>3. drn' \in DrnPlaces
      BY <3>1, <3>2, Zenon DEF DrnPlaces
    <3>4. drnMsg = NoFlow
      BY <1>0, <3>1, Labels, Zenon DEF HandsInv
    <3>5. drn' \notin {<<"toOut">>, <<"toDrops">>}
      BY <3>1, Labels, Zenon
    <3> QED
      BY <3>1, <3>3, <3>4, <3>5, Zenon
  <2>2. CASE DrnFromOut
    <3>1. (tPc[N] = "send" /\ drnMsg' = tHeld[N]) \/ (ePc[N] = "send" /\ drnMsg' = eHeld[N])
      BY <2>2, Zenon DEF DrnFromOut, Then!Pull, Else!Pull
    <3>2. drnMsg' # NoFlow
      BY <1>0, <3>1, Holds, Zenon
    <3> QED
      BY <2>2, <3>2, Zenon DEF DrnFromOut, DrnPlaces
  <2>3. CASE DrnFromDrop
    <3>1. PICK f : /\ \E i \in Segs : (tPc[i] = "drop" /\ f = tHeld[i]) \/ (ePc[i] = "drop" /\ f = eHeld[i])
                   /\ drn' = IF bypass THEN <<"toOut">>
                             ELSE IF wired THEN <<"toDrops">> ELSE <<"select">>
                   /\ drnMsg' = IF bypass \/ wired THEN f ELSE NoFlow
      BY <2>3, Zenon DEF DrnFromDrop, Then!PullDrop, Else!PullDrop
    <3>2. f # NoFlow
      BY <1>0, <3>1, Holds, Zenon
    <3>3. CASE bypass \/ wired
      BY <3>1, <3>2, <3>3, Zenon DEF DrnPlaces
    <3>4. CASE ~bypass /\ ~wired
      BY <3>1, <3>2, <3>4, Labels, Zenon DEF DrnPlaces
    <3> QED
      BY <3>3, <3>4, Zenon
  <2>4. CASE DrnEndClosed
    BY <1>0, <2>4, Labels, Zenon DEF HandsInv, DrnEndClosed, DrnPlaces
  <2>5. CASE DrnSend
    BY <2>5, Labels, Zenon DEF DrnSend, DrnPlaces
  <2>6. CASE UNCHANGED drnVars
    BY <1>0, <2>6, Zenon DEF HandsInv, drnVars
  <2> QED
    BY <2>1, <2>2, <2>3, <2>4, <2>5, <2>6, Frames, Zenon DEF Drain
<1>5. (bypass \in BOOLEAN /\ wired \in BOOLEAN /\ crashed \in BOOLEAN)'
  <2>1. CASE Panic
    BY <1>0, <2>1, Zenon DEF HandsInv, Panic
  <2>2. CASE UNCHANGED rest
    BY <1>0, <2>2, Zenon DEF HandsInv, rest
  <2> QED
    BY <2>1, <2>2, Frames, Zenon
<1>6. (outClosed \in BOOLEAN /\ dropsClosed \in BOOLEAN)'
  <2>1. CASE CloseOut
    BY <1>0, <2>1, Zenon DEF HandsInv, CloseOut
  <2>2. CASE CloseDrops
    BY <1>0, <2>2, Zenon DEF HandsInv, CloseDrops
  <2>3. CASE UNCHANGED outVars
    BY <1>0, <2>3, Zenon DEF HandsInv, outVars
  <2> QED
    BY <2>1, <2>2, <2>3, Frames, Zenon
<1> QED
  BY <1>1, <1>2, <1>3, <1>4, <1>5, <1>6, Zenon DEF HandsInv

(* What a step leaves of the three pipelines.                              *)
LEMMA NextInside ==
    ASSUME IInv, [Next]_vars
    PROVE  /\ UNCHANGED <<cKind, tKind, eKind>>
           /\ cClosed \subseteq cClosed' /\ tClosed \subseteq tClosed' /\ eClosed \subseteq eClosed'
           /\ cSubs \subseteq cSubs' /\ tSubs \subseteq tSubs' /\ eSubs \subseteq eSubs'
           /\ 0 \in cClosed /\ Inside(cHeld) = {} => Inside(cHeld') = {}
           /\ 0 \in tClosed /\ Inside(tHeld) = {} => Inside(tHeld') = {}
           /\ 0 \in eClosed /\ Inside(eHeld) = {} => Inside(eHeld') = {}
           /\ \A i \in Segs : \/ tHeld'[i] = NoFlow \/ (\E j \in Segs : tHeld'[i] = tHeld[j])
                              \/ tHeld'[i] \in TIn
           /\ \A i \in Segs : \/ eHeld'[i] = NoFlow \/ (\E j \in Segs : eHeld'[i] = eHeld[j])
                              \/ eHeld'[i] \in EIn
<1>1. /\ PipeInv(cKind, cPc, cHeld, cClosed, cSubs, cWg)
      /\ PipeInv(tKind, tPc, tHeld, tClosed, tSubs, tWg)
      /\ PipeInv(eKind, ePc, eHeld, eClosed, eSubs, eWg)
  BY Zenon DEF IInv, PipesInv
<1>2. cSubs \subseteq Segs /\ tSubs \subseteq Segs /\ eSubs \subseteq Segs
  BY <1>1, Zenon DEF PipeInv
<1>3. CIn \subseteq Flow /\ TIn \subseteq Flow /\ EIn \subseteq Flow
  BY InHand, Zenon DEF IInv, HandsInv, CIn, TIn, EIn
<1>4. CStep /\ TStep /\ EStep
  BY <1>2, CondStep, ThenStep, ElseStep, Zenon
<1>5. /\ UNCHANGED <<cKind, tKind, eKind>>
      /\ PipeStep(CIn, cPc, cHeld, cClosed, cSubs, cWg, cPc', cHeld', cClosed', cSubs', cWg')
      /\ PipeStep(TIn, tPc, tHeld, tClosed, tSubs, tWg, tPc', tHeld', tClosed', tSubs', tWg')
      /\ PipeStep(EIn, ePc, eHeld, eClosed, eSubs, eWg, ePc', eHeld', eClosed', eSubs', eWg')
  BY <1>4, ZenonT(30) DEF CStep, TStep, EStep
<1>6. /\ cClosed \subseteq cClosed' /\ cSubs \subseteq cSubs'
      /\ 0 \in cClosed /\ Inside(cHeld) = {} => Inside(cHeld') = {}
  BY <1>1, <1>3, <1>5, PipeKeeps, SMTT(30)
<1>7. /\ tClosed \subseteq tClosed' /\ tSubs \subseteq tSubs'
      /\ 0 \in tClosed /\ Inside(tHeld) = {} => Inside(tHeld') = {}
      /\ \A i \in Segs : \/ tHeld'[i] = NoFlow \/ (\E j \in Segs : tHeld'[i] = tHeld[j])
                         \/ tHeld'[i] \in TIn
  BY <1>1, <1>3, <1>5, PipeKeeps, SMTT(30)
<1>8. /\ eClosed \subseteq eClosed' /\ eSubs \subseteq eSubs'
      /\ 0 \in eClosed /\ Inside(eHeld) = {} => Inside(eHeld') = {}
      /\ \A i \in Segs : \/ eHeld'[i] = NoFlow \/ (\E j \in Segs : eHeld'[i] = eHeld[j])
                         \/ eHeld'[i] \in EIn
  BY <1>1, <1>3, <1>5, PipeKeeps
<1> QED
  BY <1>5, <1>6, <1>7, <1>8, Zenon

(* The pipelines are closed one after the other.                           *)
LEMMA NextClose ==
    ASSUME IInv, [Next]_vars
    PROVE  CloseInv'
<1>0. CloseInv /\ HandsInv
  BY Zenon DEF IInv
<1>1. /\ cWg = 0 => Inside(cHeld) = {}
      /\ tWg = 0 => Inside(tHeld) = {}
      /\ eWg = 0 => Inside(eHeld) = {}
  BY EmptyAtZero, Zenon DEF IInv, PipesInv
<1> DEFINE CE == Inside(cHeld) = {}
           TE == Inside(tHeld) = {}
           EE == Inside(eHeld) = {}
           C0 == 0 \in cClosed
           T0 == 0 \in tClosed
           E0 == 0 \in eClosed
<1>2. /\ C0 => (C0' /\ (CE => CE'))
      /\ T0 => (T0' /\ (TE => TE'))
      /\ E0 => (E0' /\ (EE => EE'))
  BY NextInside, Zenon DEF Inside
<1>3. SUFFICES /\ run' \notin {"recv", "send"} => C0'
               /\ run' \notin {"recv", "send", "waitIf"} => CE' /\ T0'
               /\ run' \in {"waitElse", "closeDrops", "exited"} => TE' /\ E0'
               /\ run' \in {"closeDrops", "exited"} => EE'
               /\ outClosed' => run' \in {"closeDrops", "exited"}
  BY <1>3, Zenon DEF CloseInv, Inside
<1>4. /\ run \notin {"recv", "send"} => C0
      /\ run \notin {"recv", "send", "waitIf"} => CE /\ T0
      /\ run \in {"waitElse", "closeDrops", "exited"} => TE /\ E0
      /\ run \in {"closeDrops", "exited"} => EE
      /\ outClosed => run \in {"closeDrops", "exited"}
      /\ run \in RunPlaces
  BY <1>0, Zenon DEF CloseInv, HandsInv
<1>5. CASE CloseCondition
  <2>1. C0' /\ run = "recv" /\ run' = "waitIf" /\ outClosed' = outClosed
    BY <1>5, Zenon DEF CloseCondition, Cond!CloseIn, outVars
  <2> HIDE DEF C0, CE, T0, TE, E0, EE
  <2> QED
    BY <1>4, <2>1, Zenon
<1>6. CASE CloseThen
  <2>1. T0' /\ CE /\ run = "waitIf" /\ run' = "waitThen" /\ outClosed' = outClosed
    BY <1>1, <1>6, Zenon DEF CloseThen, Then!CloseIn, outVars
  <2> HIDE DEF C0, CE, T0, TE, E0, EE
  <2> QED
    BY <1>2, <1>4, <2>1, Zenon
<1>7. CASE CloseElse
  <2>1. E0' /\ TE /\ run = "waitThen" /\ run' = "waitElse" /\ outClosed' = outClosed
    BY <1>1, <1>7, Zenon DEF CloseElse, Else!CloseIn, outVars
  <2> HIDE DEF C0, CE, T0, TE, E0, EE
  <2> QED
    BY <1>2, <1>4, <2>1, Zenon
<1>8. CASE CloseOut
  <2>1. EE /\ run = "waitElse" /\ run' = "closeDrops"
    BY <1>1, <1>8, Zenon DEF CloseOut
  <2> HIDE DEF C0, CE, T0, TE, E0, EE
  <2> QED
    BY <1>2, <1>4, <2>1, Zenon
<1>9. CASE CloseDrops
  <2>1. run = "closeDrops" /\ run' = "exited"
    BY <1>9, Zenon DEF CloseDrops
  <2> HIDE DEF C0, CE, T0, TE, E0, EE
  <2> QED
    BY <1>2, <1>4, <2>1, Zenon
<1>10. CASE ~Defer
  <2>1. (run' \in {"recv", "send"} /\ run \in {"recv", "send"}) \/ run' = run
    BY <1>10, Frames, Zenon DEF ReceiveIn, SendToCondition, runVars
  <2>2. outClosed' = outClosed
    BY <1>10, Frames, Zenon DEF Defer, outVars
  <2> HIDE DEF C0, CE, T0, TE, E0, EE
  <2> QED
    BY <1>2, <1>4, <2>1, <2>2, Zenon
<1> QED
  BY <1>5, <1>6, <1>7, <1>8, <1>9, <1>10, Zenon DEF Defer

(* The subscriptions go on in order and are never undone.                  *)
LEMMA NextSubs ==
    ASSUME IInv, [Next]_vars
    PROVE  SubsInv'
<1>0. /\ SubsInv /\ UNCHANGED <<cKind, tKind, eKind>>
      /\ cSubs \subseteq cSubs' /\ tSubs \subseteq tSubs' /\ eSubs \subseteq eSubs'
  BY NextInside, Zenon DEF IInv
<1>1. ASSUME NEW j \in Segs
      PROVE  j \in cSubs' \/ cKind'[j] # "filter" \/ \E i \in 1..j : fwd' = <<"subscribe", i>>
  <2>1. j \in cSubs \/ cKind[j] # "filter" \/ \E i \in 1..j : fwd = <<"subscribe", i>>
    BY <1>0, Zenon DEF SubsInv
  <2>2. CASE FwdSubscribe
    <3>1. PICK i \in Segs : /\ fwd = <<"subscribe", i>>
                            /\ cSubs' = IF cKind[i] = "filter" THEN cSubs \cup {i} ELSE cSubs
                            /\ fwd' = IF i = N THEN <<"select">> ELSE <<"subscribe", i + 1>>
      BY <2>2, Zenon DEF FwdSubscribe, Cond!SubscribeSegment
    <3>2. CASE i = j
      BY <1>0, <3>1, <3>2, Zenon
    <3>3. CASE i < j
      <4>1. i # N /\ i + 1 \in 1..j
        BY <3>3, BranchAssumption DEF Segs
      <4> QED
        BY <3>1, <4>1, Zenon
    <3>4. CASE i > j
      <4>1. \A k \in 1..j : k # i
        BY <3>4 DEF Segs
      <4>2. j \in cSubs \/ cKind[j] # "filter"
        BY <2>1, <3>1, <4>1, Labels, Zenon
      <4> QED
        BY <1>0, <4>2, Zenon
    <3> QED
      BY <3>2, <3>3, <3>4, BranchAssumption DEF Segs
  <2>3. CASE FwdFromOut \/ FwdOutClosed \/ FwdFromDrop \/ FwdSend
    <3>1. \A i : fwd # <<"subscribe", i>>
      BY <2>3, Labels, Zenon DEF FwdFromOut, FwdOutClosed, FwdFromDrop, FwdSend
    <3> QED
      BY <1>0, <2>1, <3>1, Zenon
  <2>4. CASE UNCHANGED fwdVars
    BY <1>0, <2>1, <2>4, Zenon DEF fwdVars
  <2> QED
    BY <2>2, <2>3, <2>4, Frames, Zenon DEF Forward
<1>2. ASSUME NEW j \in Segs
      PROVE  /\ j \in tSubs' \/ tKind'[j] # "filter" \/ \E i \in 1..j : drn' = <<"subThen", i>>
             /\ \/ j \in eSubs' \/ eKind'[j] # "filter"
                \/ \E i \in 1..j : drn' = <<"subElse", i>>
                \/ \E i \in Segs : drn' = <<"subThen", i>>
  <2>1. /\ j \in tSubs \/ tKind[j] # "filter" \/ \E i \in 1..j : drn = <<"subThen", i>>
        /\ \/ j \in eSubs \/ eKind[j] # "filter"
           \/ \E i \in 1..j : drn = <<"subElse", i>>
           \/ \E i \in Segs : drn = <<"subThen", i>>
    BY <1>0, Zenon DEF SubsInv
  <2>2. ASSUME NEW i \in Segs, drn = <<"subThen", i>>, Then!SubscribeSegment(i),
               drn' = IF i = N THEN <<"subElse", 1>> ELSE <<"subThen", i + 1>>
        PROVE  /\ j \in tSubs' \/ tKind'[j] # "filter" \/ \E k \in 1..j : drn' = <<"subThen", k>>
               /\ \/ j \in eSubs' \/ eKind'[j] # "filter"
                  \/ \E k \in 1..j : drn' = <<"subElse", k>>
                  \/ \E k \in Segs : drn' = <<"subThen", k>>
    <3>1. tSubs' = IF tKind[i] = "filter" THEN tSubs \cup {i} ELSE tSubs
      BY <2>2, Zenon DEF Then!SubscribeSegment
    <3>2. j \in tSubs' \/ tKind'[j] # "filter" \/ \E k \in 1..j : drn' = <<"subThen", k>>
      <4>1. CASE i = j
        BY <1>0, <3>1, <4>1, Zenon
      <4>2. CASE i < j
        <5>1. i # N /\ i + 1 \in 1..j
          BY <4>2, BranchAssumption DEF Segs
        <5> QED
          BY <2>2, <5>1, Zenon
      <4>3. CASE i > j
        <5>1. \A k \in 1..j : k # i
          BY <4>3 DEF Segs
        <5>2. j \in tSubs \/ tKind[j] # "filter"
          BY <2>1, <2>2, <5>1, Labels, Zenon
        <5> QED
          BY <1>0, <5>2, Zenon
      <4> QED
        BY <4>1, <4>2, <4>3, BranchAssumption DEF Segs
    <3>3. (\E k \in 1..j : drn' = <<"subElse", k>>) \/ (\E k \in Segs : drn' = <<"subThen", k>>)
      <4>1. 1 \in 1..j /\ (i # N => i + 1 \in Segs)
        BY BranchAssumption DEF Segs
      <4> QED
        BY <2>2, <4>1, Zenon
    <3> QED
      BY <3>2, <3>3, Zenon
  <2>3. ASSUME NEW i \in Segs, drn = <<"subElse", i>>, Else!SubscribeSegment(i),
               drn' = IF i = N THEN <<"select">> ELSE <<"subElse", i + 1>>
        PROVE  /\ j \in tSubs' \/ tKind'[j] # "filter" \/ \E k \in 1..j : drn' = <<"subThen", k>>
               /\ \/ j \in eSubs' \/ eKind'[j] # "filter"
                  \/ \E k \in 1..j : drn' = <<"subElse", k>>
                  \/ \E k \in Segs : drn' = <<"subThen", k>>
    <3>1. eSubs' = IF eKind[i] = "filter" THEN eSubs \cup {i} ELSE eSubs
      BY <2>3, Zenon DEF Else!SubscribeSegment
    <3>2. j \in tSubs' \/ tKind'[j] # "filter"
      BY <1>0, <2>1, <2>3, Labels, Zenon
    <3>3. j \in eSubs' \/ eKind'[j] # "filter" \/ \E k \in 1..j : drn' = <<"subElse", k>>
      <4>1. CASE i = j
        BY <1>0, <3>1, <4>1, Zenon
      <4>2. CASE i < j
        <5>1. i # N /\ i + 1 \in 1..j
          BY <4>2, BranchAssumption DEF Segs
        <5> QED
          BY <2>3, <5>1, Zenon
      <4>3. CASE i > j
        <5>1. \A k \in 1..j : k # i
          BY <4>3 DEF Segs
        <5>2. j \in eSubs \/ eKind[j] # "filter"
          BY <2>1, <2>3, <5>1, Labels, Zenon
        <5> QED
          BY <1>0, <5>2, Zenon
      <4> QED
        BY <4>1, <4>2, <4>3, BranchAssumption DEF Segs
    <3> QED
      BY <3>2, <3>3, Zenon
  <2>4. CASE DrnSubscribe
    BY <2>2, <2>3, <2>4, Zenon DEF DrnSubscribe
  <2>5. CASE DrnFromOut \/ DrnFromDrop \/ DrnEndClosed \/ DrnSend
    <3>1. \A i : drn # <<"subThen", i>> /\ drn # <<"subElse", i>>
      BY <2>5, Labels, Zenon DEF DrnFromOut, DrnFromDrop, DrnEndClosed, DrnSend
    <3> QED
      BY <1>0, <2>1, <3>1, Zenon
  <2>6. CASE UNCHANGED drnVars
    BY <1>0, <2>1, <2>6, Zenon DEF drnVars
  <2> QED
    BY <2>4, <2>5, <2>6, Frames, Zenon DEF Drain
<1> QED
  BY <1>1, <1>2, Zenon DEF SubsInv

(* A flow at one place is not at another one.                              *)
LEMMA Apart ==
    ASSUME Partition(Held, Received), NEW i \in Segs, cHeld[i] # NoFlow
    PROVE  /\ \A j \in Segs : cHeld[j] = cHeld[i] => j = i
           /\ \A j \in Segs : tHeld[j] # cHeld[i] /\ eHeld[j] # cHeld[i]
           /\ runMsg # cHeld[i] /\ fwdMsg # cHeld[i]
<1>1. \A p, q \in Spaces : cHeld[i] \in Held[p] /\ cHeld[i] \in Held[q] => p = q
  BY Zenon DEF Partition
<1>2. cHeld[i] \in Held[Seg("if", i)]
  BY HeldIs DEF HeldFacts
<1>3. \A b \in Branches, j \in Segs : cHeld[i] \in Held[Seg(b, j)] => b = "if" /\ j = i
  BY <1>1, <1>2, PlacesAre, Names
<1>4. \A s \in Spots : cHeld[i] \notin Held[At(s)]
  BY <1>1, <1>2, PlacesAre, Names
<1>5. ASSUME NEW j \in Segs PROVE tHeld[j] # cHeld[i] /\ eHeld[j] # cHeld[i]
  BY <1>3, HeldIs, Names DEF HeldFacts
<1>6. ASSUME NEW j \in Segs, cHeld[j] = cHeld[i] PROVE j = i
  BY <1>3, <1>6, HeldIs, Names, Zenon DEF HeldFacts
<1>7. runMsg # cHeld[i] /\ fwdMsg # cHeld[i]
  BY <1>4, HeldIs, Names, Zenon DEF HeldFacts
<1> QED
  BY <1>5, <1>6, <1>7, Zenon

(* `then` and `else` get the flows they are meant to get.                  *)
LEMMA NextJudged ==
    ASSUME IInv, [Next]_vars
    PROVE  JudgedInv'
<1>0. /\ JudgedInv /\ PipesInv /\ HandsInv /\ Partition(Held, Received)
      /\ NoFlow \notin Received /\ NoFlow \notin judged
  BY InHand, Zenon DEF IInv, JudgedInv
<1>a. /\ cPc \in [Segs -> Cond!Places] /\ cHeld \in [Segs -> Flow \cup {NoFlow}]
      /\ N \in Segs /\ 1 \in Segs /\ Segs \subseteq Nat
      /\ \A i \in Segs : i < N => i + 1 \in Segs /\ i + 1 # i
  BY <1>0, BranchAssumption DEF PipesInv, PipeInv, Segs
<1>1. CASE CondSteps
  <2>1. PICK i \in Segs : /\ Cond!SegStep(i) \/ Cond!Discard(i)
                          /\ judged' = judged \cup {f \in {cHeld[i]} : cPc[i] = "work" /\ cPc'[i] # "send"}
    BY <1>1, Zenon DEF CondSteps, CondSegment
  <2>2. UNCHANGED <<fed, run, runMsg, fwd, fwdMsg, tHeld, eHeld>>
    BY <1>1, Zenon DEF CondSteps, CondSegment, tVars, eVars, inVars, goroutines, runVars, fwdVars
  <2>3. Received' = Received
    BY <2>2, Zenon DEF Received
  <2>4. CASE cPc[i] # "work" /\ judged' = judged
    <3>1. Cond!Handoff(i) \/ Cond!CloseOut(i) \/ Cond!Done(i)
      BY <2>1, <2>4, Zenon DEF Cond!SegStep, Cond!Discard, Cond!Accept, Cond!OfferDrop
    <3>2. \A j \in Segs : cPc'[j] \in {"work", "send"} => cHeld'[j] \notin judged
      <4>1. CASE Cond!Handoff(i)
        BY <1>0, <1>a, <4>1, Zenon DEF Cond!Handoff, JudgedInv
      <4>2. CASE Cond!CloseOut(i) \/ Cond!Done(i)
        BY <1>0, <1>a, <4>2, Zenon DEF Cond!CloseOut, Cond!Done, JudgedInv
      <4> QED
        BY <3>1, <4>1, <4>2, Zenon
    <3>3. \A j \in Segs : cPc'[j] = "drop" => cHeld'[j] \in judged
      <4>1. CASE Cond!Handoff(i)
        BY <1>0, <1>a, <4>1, Zenon DEF Cond!Handoff, JudgedInv
      <4>2. CASE Cond!CloseOut(i) \/ Cond!Done(i)
        BY <1>0, <1>a, <4>2, Zenon DEF Cond!CloseOut, Cond!Done, JudgedInv
      <4> QED
        BY <3>1, <4>1, <4>2, Zenon
    <3> QED
      BY <1>0, <2>2, <2>3, <2>4, <3>2, <3>3, Zenon DEF JudgedInv
  <2>5. CASE cPc[i] = "work"
    <3>1. cHeld[i] # NoFlow /\ cHeld[i] \in Received
      BY <1>0, <2>5, Holds, InHand, Zenon
    <3>2. Cond!Accept(i) \/ Cond!OfferDrop(i) \/ Cond!Discard(i)
      BY <2>1, <2>5, Zenon DEF Cond!SegStep, Cond!Handoff, Cond!CloseOut, Cond!Done
    <3>3. CASE Cond!Accept(i)
      <4>1. cPc' = [cPc EXCEPT ![i] = "send"] /\ cHeld' = cHeld /\ judged' = judged
        BY <1>a, <2>1, <3>3, Zenon DEF Cond!Accept
      <4> QED
        BY <1>0, <1>a, <2>2, <2>3, <2>5, <4>1, Zenon DEF JudgedInv
    <3>4. CASE Cond!OfferDrop(i) \/ Cond!Discard(i)
      <4>1. judged' = judged \cup {cHeld[i]}
        BY <1>a, <2>1, <2>5, <3>4, Zenon DEF Cond!OfferDrop, Cond!Discard
      <4>2. \A j \in Segs : cPc'[j] \in {"work", "send"} => j # i /\ cPc'[j] = cPc[j] /\ cHeld'[j] = cHeld[j]
        BY <1>a, <3>4, Zenon DEF Cond!OfferDrop, Cond!Discard
      <4>3. \A j \in Segs : cPc'[j] = "drop" => cHeld'[j] = cHeld[j] /\ (j = i \/ cPc[j] = "drop")
        BY <1>a, <3>4, Zenon DEF Cond!OfferDrop, Cond!Discard
      <4>4. /\ \A j \in Segs : cHeld[j] = cHeld[i] => j = i
            /\ \A j \in Segs : tHeld[j] # cHeld[i] /\ eHeld[j] # cHeld[i]
            /\ runMsg # cHeld[i] /\ fwdMsg # cHeld[i]
        BY <1>0, <3>1, Apart, Zenon
      <4>5. \A j \in Segs : cPc'[j] \in {"work", "send"} => cHeld'[j] \notin judged'
        BY <1>0, <4>1, <4>2, <4>4, Zenon DEF JudgedInv
      <4>6. \A j \in Segs : cPc'[j] = "drop" => cHeld'[j] \in judged'
        BY <1>0, <4>1, <4>3, Zenon DEF JudgedInv
      <4>7. judged' \subseteq Received' /\ runMsg' \notin judged'
        BY <1>0, <2>2, <2>3, <3>1, <4>1, <4>4, Zenon DEF JudgedInv
      <4>8. /\ fwd' = <<"toThen">> => fwdMsg' \notin judged'
            /\ fwd' = <<"toElse">> => fwdMsg' \in judged'
        BY <1>0, <2>2, <4>1, <4>4, Zenon DEF JudgedInv
      <4>9. /\ \A j \in Segs : tHeld'[j] \notin judged'
            /\ \A j \in Segs : eHeld'[j] # NoFlow => eHeld'[j] \in judged'
        BY <1>0, <2>2, <4>1, <4>4, Zenon DEF JudgedInv
      <4> QED
        BY <4>5, <4>6, <4>7, <4>8, <4>9, Zenon DEF JudgedInv
    <3> QED
      BY <3>2, <3>3, <3>4, Zenon
  <2> QED
    BY <2>1, <2>4, <2>5, Zenon
<1>2. CASE ~CondSteps
  <2>0. judged' = judged
    BY <1>2, Frames, Zenon
  <2>1. judged' \subseteq Received' /\ runMsg' \notin judged'
    <3>1. CASE ReceiveIn
      <4>1. fed \in Nat /\ fed' = fed + 1 /\ runMsg' = FlowNr(fed + 1)
        BY <1>0, <3>1, BranchAssumption DEF HandsInv, ReceiveIn
      <4>2. Received \subseteq Received'
        BY <4>1 DEF Received
      <4>3. FlowNr(fed + 1) \notin Received
        <5>1. \A k \in 1..fed : FlowNr(k).n = k /\ k # fed + 1
          BY <4>1 DEF FlowNr
        <5>2. FlowNr(fed + 1).n = fed + 1
          BY Zenon DEF FlowNr
        <5> QED
          BY <5>1, <5>2, Zenon DEF Received
      <4> QED
        BY <1>0, <2>0, <4>1, <4>2, <4>3, Zenon DEF JudgedInv
    <3>2. CASE ~ReceiveIn
      <4>1. fed' = fed /\ (runMsg' = runMsg \/ runMsg' = NoFlow)
        BY <3>2, Frames, Zenon DEF CloseInput, SendToCondition, Defer, CloseCondition, CloseThen, CloseElse,
                            CloseOut, CloseDrops, inVars, runVars
      <4> QED
        BY <1>0, <2>0, <4>1, Zenon DEF JudgedInv, Received
    <3> QED
      BY <3>1, <3>2, Zenon
  <2>2. /\ \A i \in Segs : cPc'[i] \in {"work", "send"} => cHeld'[i] \notin judged
        /\ \A i \in Segs : cPc'[i] = "drop" => cHeld'[i] \in judged
    <3>1. CASE SendToCondition
      BY <1>0, <1>a, <3>1, Zenon DEF JudgedInv, SendToCondition, Cond!Push
    <3>2. CASE StartCondition
      <4>1. cHeld' = cHeld /\ \E i \in Segs, place \in {"recv", "quit"} : cPc' = [cPc EXCEPT ![i] = place]
        BY <3>2, Zenon DEF StartCondition, Cond!StartSegment
      <4> QED
        BY <1>0, <1>a, <4>1, Zenon DEF JudgedInv
    <3>3. CASE FwdFromOut
      BY <1>0, <1>a, <3>3, Zenon DEF JudgedInv, FwdFromOut, Cond!Pull
    <3>4. CASE FwdFromDrop
      BY <1>0, <1>a, <3>4 DEF JudgedInv, FwdFromDrop, Cond!PullDrop
    <3>5. CASE UNCHANGED cVars \/ CloseCondition \/ FwdSubscribe
      <4>1. UNCHANGED <<cPc, cHeld>>
        BY <3>5, Zenon DEF cVars, CloseCondition, FwdSubscribe, Cond!CloseIn, Cond!SubscribeSegment
      <4> QED
        BY <1>0, <4>1, Zenon DEF JudgedInv
    <3> QED
      BY <1>2, <3>1, <3>2, <3>3, <3>4, <3>5, Frames, Zenon
  <2>3. /\ fwd' = <<"toThen">> => fwdMsg' \notin judged
        /\ fwd' = <<"toElse">> => fwdMsg' \in judged
    <3>1. CASE FwdFromOut
      BY <1>0, <1>a, <3>1, Labels, Zenon DEF JudgedInv, FwdFromOut, Cond!Pull
    <3>2. CASE FwdFromDrop
      BY <1>0, <3>2, Labels, Zenon DEF JudgedInv, FwdFromDrop, Cond!PullDrop
    <3>3. CASE FwdSubscribe \/ FwdSend
      BY <3>3, Labels, Zenon DEF FwdSubscribe, FwdSend
    <3>4. CASE FwdOutClosed \/ UNCHANGED fwdVars
      BY <1>0, <3>4, Zenon DEF JudgedInv, FwdOutClosed, fwdVars
    <3> QED
      BY <3>1, <3>2, <3>3, <3>4, Frames, Zenon DEF Forward
  <2>4. /\ \A i \in Segs : tHeld'[i] \notin judged
        /\ \A i \in Segs : eHeld'[i] # NoFlow => eHeld'[i] \in judged
    <3>1. \A f \in TIn : f \notin judged
      BY <1>0, Zenon DEF TIn, JudgedInv
    <3>2. \A f \in EIn : f \in judged
      BY <1>0, Zenon DEF EIn, JudgedInv
    <3> QED
      BY <1>0, <3>1, <3>2, NextInside, Zenon DEF JudgedInv
  <2> QED
    BY <2>0, <2>1, <2>2, <2>3, <2>4, Zenon DEF JudgedInv
<1> QED
  BY <1>1, <1>2, Zenon

-----------------------------------------------------------------------------
(* A flow that moves from one place to another is at one place still.      *)
LEMMA Moved ==
    ASSUME NEW S, Partition(Held, S), NEW p \in Spaces, NEW q \in Spaces, p # q,
           NEW f, f \in Held[p], Held'[p] = Held[p] \ {f}, Held'[q] = Held[q] \cup {f},
           \A r \in Spaces : r # p /\ r # q => Held'[r] = Held[r]
    PROVE  Partition(Held', S)
<1>1. ASSUME NEW a \in Spaces, NEW b \in Spaces, a # b, NEW x, x \in Held'[a], x \in Held'[b] PROVE FALSE
  <2>1. CASE x = f
    <3>1. \A r \in Spaces : x \in Held[r] => r = p
      BY <2>1, Zenon DEF Partition
    <3>2. \A r \in Spaces : x \in Held'[r] => r = q
      BY <2>1, <3>1, Zenon
    <3> QED
      BY <1>1, <3>2, Zenon
  <2>2. CASE x # f
    <3>1. \A r \in Spaces : x \in Held'[r] => x \in Held[r]
      BY <2>2, Zenon
    <3> QED
      BY <1>1, <3>1, Zenon DEF Partition
  <2> QED
    BY <2>1, <2>2, Zenon
<1>2. ASSUME NEW x PROVE (\E r \in Spaces : x \in Held'[r]) <=> (\E r \in Spaces : x \in Held[r])
  <2>1. ASSUME NEW r \in Spaces, x \in Held'[r] PROVE \E t \in Spaces : x \in Held[t]
    BY <2>1, Zenon
  <2>2. ASSUME NEW r \in Spaces, x \in Held[r] PROVE \E t \in Spaces : x \in Held'[t]
    <3>1. CASE x = f
      BY <3>1, Zenon
    <3>2. CASE x # f
      BY <2>2, <3>2, Zenon
    <3> QED
      BY <3>1, <3>2, Zenon
  <2> QED
    BY <2>1, <2>2, Zenon
<1>3. \A a, b \in Spaces : a # b => Held'[a] \cap Held'[b] = {}
  BY <1>1, Zenon
<1>4. UNION {Held'[r] : r \in Spaces} = UNION {Held[r] : r \in Spaces}
  BY <1>2, Zenon
<1> QED
  BY <1>3, <1>4, Zenon DEF Partition

(* A flow that comes in is at one place.                                   *)
LEMMA Arrived ==
    ASSUME NEW S, Partition(Held, S), NEW q \in Spaces, NEW x, x \notin S,
           Held'[q] = Held[q] \cup {x}, \A r \in Spaces : r # q => Held'[r] = Held[r]
    PROVE  Partition(Held', S \cup {x})
<1>1. \A r \in Spaces : Held[r] \subseteq S
  BY Zenon DEF Partition
<1>2. \A a, b \in Spaces : a # b => Held'[a] \cap Held'[b] = {}
  BY <1>1 DEF Partition
<1>3. UNION {Held'[r] : r \in Spaces} = (UNION {Held[r] : r \in Spaces}) \cup {x}
  <2>1. ASSUME NEW y PROVE (\E r \in Spaces : y \in Held'[r]) <=> (y = x \/ \E r \in Spaces : y \in Held[r])
    BY Zenon
  <2> QED
    BY <2>1, Zenon
<1> QED
  BY <1>2, <1>3, Zenon DEF Partition

(* The flows in the segments of a pipeline.                                *)
HeldOf(b) == CASE b = "if" -> cHeld [] b = "then" -> tHeld [] b = "else" -> eHeld

(* They are what Held says of the places in it.                            *)
LEMMA SegHolds ==
    /\ HeldOf("if") = cHeld /\ HeldOf("then") = tHeld /\ HeldOf("else") = eHeld
    /\ HeldOf("if")' = cHeld' /\ HeldOf("then")' = tHeld' /\ HeldOf("else")' = eHeld'
    /\ \A b \in Branches, i \in Segs : /\ Held[Seg(b, i)] = {HeldOf(b)[i]} \ {NoFlow}
                                       /\ Held'[Seg(b, i)] = {HeldOf(b)'[i]} \ {NoFlow}
<1>1. /\ HeldOf("if") = cHeld /\ HeldOf("then") = tHeld /\ HeldOf("else") = eHeld
      /\ HeldOf("if")' = cHeld' /\ HeldOf("then")' = tHeld' /\ HeldOf("else")' = eHeld'
  BY Zenon DEF HeldOf
<1>2. ASSUME NEW b \in Branches, NEW i \in Segs
      PROVE  Held[Seg(b, i)] = {HeldOf(b)[i]} \ {NoFlow} /\ Held'[Seg(b, i)] = {HeldOf(b)'[i]} \ {NoFlow}
  BY <1>1, HeldIs, HeldIsNext, Names, Zenon DEF HeldFacts
<1> QED
  BY <1>1, <1>2, Zenon

SpotStays(s) == Held'[At(s)] = Held[At(s)]
PipeStays(b) == HeldOf(b)' = HeldOf(b)

(* A flow leaves a pipeline.                                               *)
LEMMA FlowLeaves ==
    ASSUME NEW S, Partition(Held, S), NEW b \in Branches, NEW i \in Segs, NEW s \in Spots,
           HeldOf(b) \in [Segs -> Flow \cup {NoFlow}], HeldOf(b)[i] # NoFlow,
           HeldOf(b)' = [HeldOf(b) EXCEPT ![i] = NoFlow],
           \A a \in Branches : a # b => PipeStays(a),
           Held'[At(s)] = Held[At(s)] \cup {HeldOf(b)[i]},
           \A t \in Spots : t # s => SpotStays(t)
    PROVE  Partition(Held', S)
<1>1. Held[Seg(b, i)] = {HeldOf(b)[i]} /\ Held'[Seg(b, i)] = {}
  BY SegHolds
<1>2. \A a \in Branches, j \in Segs : a # b \/ j # i => HeldOf(a)'[j] = HeldOf(a)[j]
  BY Zenon DEF PipeStays
<1>3. \A a \in Branches, j \in Segs : a # b \/ j # i => Held'[Seg(a, j)] = Held[Seg(a, j)]
  <2>1. ASSUME NEW a \in Branches, NEW j \in Segs, a # b \/ j # i
        PROVE  Held'[Seg(a, j)] = Held[Seg(a, j)]
    <3>1. HeldOf(a)'[j] = HeldOf(a)[j]
      BY <1>2, <2>1, Zenon
    <3>2. Held[Seg(a, j)] = {HeldOf(a)[j]} \ {NoFlow} /\ Held'[Seg(a, j)] = {HeldOf(a)'[j]} \ {NoFlow}
      BY SegHolds, Zenon
    <3> QED
      BY <3>1, <3>2, Zenon
  <2> QED
    BY <2>1, Zenon
<1>4. \A r \in Spaces : r # Seg(b, i) /\ r # At(s) => Held'[r] = Held[r]
  BY <1>3, PlacesAre DEF SpotStays
<1> QED
  BY <1>1, <1>4, PlacesAre, Moved, SMTT(30), Zenon

(* A flow enters a pipeline.                                               *)
LEMMA FlowEnters ==
    ASSUME NEW S, Partition(Held, S), NEW b \in Branches, NEW s \in Spots, 1 \in Segs,
           HeldOf(b) \in [Segs -> Flow \cup {NoFlow}], HeldOf(b)[1] = NoFlow,
           NEW f, f # NoFlow, HeldOf(b)' = [HeldOf(b) EXCEPT ![1] = f],
           \A a \in Branches : a # b => PipeStays(a),
           Held[At(s)] = {f}, Held'[At(s)] = {},
           \A t \in Spots : t # s => SpotStays(t)
    PROVE  Partition(Held', S)
<1>1. Held[Seg(b, 1)] = {} /\ Held'[Seg(b, 1)] = {f}
  BY SegHolds
<1>2. \A a \in Branches, j \in Segs : a # b \/ j # 1 => HeldOf(a)'[j] = HeldOf(a)[j]
  BY Zenon DEF PipeStays
<1>3. \A a \in Branches, j \in Segs : a # b \/ j # 1 => Held'[Seg(a, j)] = Held[Seg(a, j)]
  <2>1. ASSUME NEW a \in Branches, NEW j \in Segs, a # b \/ j # 1
        PROVE  Held'[Seg(a, j)] = Held[Seg(a, j)]
    <3>1. HeldOf(a)'[j] = HeldOf(a)[j]
      BY <1>2, <2>1, Zenon
    <3>2. Held[Seg(a, j)] = {HeldOf(a)[j]} \ {NoFlow} /\ Held'[Seg(a, j)] = {HeldOf(a)'[j]} \ {NoFlow}
      BY SegHolds, Zenon
    <3> QED
      BY <3>1, <3>2, Zenon
  <2> QED
    BY <2>1, Zenon
<1>4. \A r \in Spaces : r # At(s) /\ r # Seg(b, 1) => Held'[r] = Held[r]
  BY <1>3, PlacesAre DEF SpotStays
<1>5. /\ At(s) \in Spaces /\ Seg(b, 1) \in Spaces /\ At(s) # Seg(b, 1)
      /\ f \in Held[At(s)] /\ Held'[At(s)] = Held[At(s)] \ {f}
      /\ Held'[Seg(b, 1)] = Held[Seg(b, 1)] \cup {f}
  BY <1>1, PlacesAre, Zenon
<1> QED
  BY <1>4, <1>5, Moved, SMTT(30), Zenon

(* A flow moves on to the next segment.                                    *)
LEMMA FlowMovesOn ==
    ASSUME NEW S, Partition(Held, S), NEW b \in Branches, NEW i \in Segs, i + 1 \in Segs, i + 1 # i,
           HeldOf(b) \in [Segs -> Flow \cup {NoFlow}], HeldOf(b)[i] # NoFlow, HeldOf(b)[i + 1] = NoFlow,
           HeldOf(b)' = [HeldOf(b) EXCEPT ![i] = NoFlow, ![i + 1] = HeldOf(b)[i]],
           \A a \in Branches : a # b => PipeStays(a),
           \A t \in Spots : SpotStays(t)
    PROVE  Partition(Held', S)
<1> DEFINE j == i + 1
<1>0. j \in Segs /\ j # i
  BY Zenon
<1>1. /\ Held[Seg(b, i)] = {HeldOf(b)[i]} /\ Held'[Seg(b, i)] = {}
      /\ Held[Seg(b, j)] = {} /\ Held'[Seg(b, j)] = {HeldOf(b)[i]}
  BY <1>0, SegHolds
<1>2. \A a \in Branches, k \in Segs : a # b \/ (k # i /\ k # j) => HeldOf(a)'[k] = HeldOf(a)[k]
  BY <1>0, Zenon DEF PipeStays
<1> HIDE DEF j
<1>3. \A a \in Branches, k \in Segs : a # b \/ (k # i /\ k # j) => Held'[Seg(a, k)] = Held[Seg(a, k)]
  <2>1. ASSUME NEW a \in Branches, NEW k \in Segs, a # b \/ (k # i /\ k # j)
        PROVE  Held'[Seg(a, k)] = Held[Seg(a, k)]
    <3>1. HeldOf(a)'[k] = HeldOf(a)[k]
      BY <1>2, <2>1, Zenon
    <3>2. Held[Seg(a, k)] = {HeldOf(a)[k]} \ {NoFlow} /\ Held'[Seg(a, k)] = {HeldOf(a)'[k]} \ {NoFlow}
      BY SegHolds, Zenon
    <3> QED
      BY <3>1, <3>2, Zenon
  <2> QED
    BY <2>1, Zenon
<1>4. \A r \in Spaces : r # Seg(b, i) /\ r # Seg(b, j) => Held'[r] = Held[r]
  BY <1>3, PlacesAre DEF SpotStays
<1> QED
  BY <1>0, <1>1, <1>4, PlacesAre, Moved, SMTT(30), Zenon

(* A flow moves from the hands of a goroutine to where it is sent.         *)
LEMMA FlowSent ==
    ASSUME NEW S, Partition(Held, S), NEW s \in Spots, NEW u \in Spots, s # u,
           NEW f, Held[At(s)] = {f}, Held'[At(s)] = {}, Held'[At(u)] = Held[At(u)] \cup {f},
           \A a \in Branches : PipeStays(a),
           \A t \in Spots : t # s /\ t # u => SpotStays(t)
    PROVE  Partition(Held', S)
<1>1. \A a \in Branches, j \in Segs : HeldOf(a)'[j] = HeldOf(a)[j]
  BY Zenon DEF PipeStays
<1>2. ASSUME NEW a \in Branches, NEW j \in Segs PROVE Held'[Seg(a, j)] = Held[Seg(a, j)]
  <2>1. HeldOf(a)'[j] = HeldOf(a)[j]
    BY <1>1, Zenon
  <2>2. Held[Seg(a, j)] = {HeldOf(a)[j]} \ {NoFlow} /\ Held'[Seg(a, j)] = {HeldOf(a)'[j]} \ {NoFlow}
    BY SegHolds, Zenon
  <2> QED
    BY <2>1, <2>2, Zenon
<1>3. \A r \in Spaces : r # At(s) /\ r # At(u) => Held'[r] = Held[r]
  BY <1>2, PlacesAre DEF SpotStays
<1> QED
  BY <1>3, PlacesAre, Moved, SMTT(30), Zenon

(* No flow moves.                                                          *)
LEMMA FlowsStay ==
    ASSUME NEW S, Partition(Held, S), \A a \in Branches : PipeStays(a), \A t \in Spots : SpotStays(t)
    PROVE  Partition(Held', S)
<1>1. \A a \in Branches, j \in Segs : HeldOf(a)'[j] = HeldOf(a)[j]
  BY Zenon DEF PipeStays
<1>2. ASSUME NEW a \in Branches, NEW j \in Segs PROVE Held'[Seg(a, j)] = Held[Seg(a, j)]
  <2>1. HeldOf(a)'[j] = HeldOf(a)[j]
    BY <1>1, Zenon
  <2>2. Held[Seg(a, j)] = {HeldOf(a)[j]} \ {NoFlow} /\ Held'[Seg(a, j)] = {HeldOf(a)'[j]} \ {NoFlow}
    BY SegHolds, Zenon
  <2> QED
    BY <2>1, <2>2, Zenon
<1>3. \A r \in Spaces : Held'[r] = Held[r]
  BY <1>2, PlacesAre DEF SpotStays
<1> QED
  BY <1>3, Zenon DEF Partition

(* The pipelines and the hands that a step leaves alone.                   *)
LEMMA Stays ==
    /\ cHeld' = cHeld => PipeStays("if")
    /\ tHeld' = tHeld => PipeStays("then")
    /\ eHeld' = eHeld => PipeStays("else")
    /\ runMsg' = runMsg => SpotStays("run")
    /\ fwdMsg' = fwdMsg => SpotStays("forward")
    /\ drnMsg' = drnMsg => SpotStays("drain")
    /\ out' = out => SpotStays("out")
    /\ dropped' = dropped => SpotStays("dropped")
    /\ missed' = missed => SpotStays("missed")
    /\ lost' = lost => SpotStays("lost")
<1>1. /\ cHeld' = cHeld => PipeStays("if")
      /\ tHeld' = tHeld => PipeStays("then")
      /\ eHeld' = eHeld => PipeStays("else")
  BY SegHolds, Zenon DEF PipeStays
<1> QED
  BY <1>1, HeldStays, Zenon DEF SpotStays

(* What the three goroutines have in their hands, and let go of.           *)
LEMMA Hands ==
    /\ runMsg # NoFlow => Held[At("run")] = {runMsg}
    /\ fwdMsg # NoFlow => Held[At("forward")] = {fwdMsg}
    /\ drnMsg # NoFlow => Held[At("drain")] = {drnMsg}
    /\ runMsg' = NoFlow => Held'[At("run")] = {}
    /\ fwdMsg' = NoFlow => Held'[At("forward")] = {}
    /\ drnMsg' = NoFlow => Held'[At("drain")] = {}
    /\ \A x : runMsg = NoFlow /\ runMsg' = x /\ x # NoFlow => Held'[At("run")] = Held[At("run")] \cup {x}
    /\ \A x : fwdMsg = NoFlow /\ fwdMsg' = x /\ x # NoFlow => Held'[At("forward")] = Held[At("forward")] \cup {x}
    /\ \A x : drnMsg = NoFlow /\ drnMsg' = x /\ x # NoFlow => Held'[At("drain")] = Held[At("drain")] \cup {x}
    /\ \A x : out' = out \cup {x} => Held'[At("out")] = Held[At("out")] \cup {x}
    /\ \A x : dropped' = dropped \cup {x} => Held'[At("dropped")] = Held[At("dropped")] \cup {x}
    /\ \A x : missed' = missed \cup {x} => Held'[At("missed")] = Held[At("missed")] \cup {x}
    /\ \A x : lost' = lost \cup {x} => Held'[At("lost")] = Held[At("lost")] \cup {x}
<1>1. /\ Held[At("run")] = {runMsg} \ {NoFlow} /\ Held[At("forward")] = {fwdMsg} \ {NoFlow}
      /\ Held[At("drain")] = {drnMsg} \ {NoFlow}
      /\ Held'[At("run")] = {runMsg'} \ {NoFlow} /\ Held'[At("forward")] = {fwdMsg'} \ {NoFlow}
      /\ Held'[At("drain")] = {drnMsg'} \ {NoFlow}
  BY HeldIs, HeldIsNext, Zenon DEF HeldFacts
<1>2. /\ Held[At("out")] = out /\ Held[At("dropped")] = dropped
      /\ Held[At("missed")] = missed /\ Held[At("lost")] = lost
      /\ Held'[At("out")] = out' /\ Held'[At("dropped")] = dropped'
      /\ Held'[At("missed")] = missed' /\ Held'[At("lost")] = lost'
  BY HeldIs, HeldIsNext, Zenon DEF HeldFacts
<1>3. /\ \A x : out' = out \cup {x} => Held'[At("out")] = Held[At("out")] \cup {x}
      /\ \A x : dropped' = dropped \cup {x} => Held'[At("dropped")] = Held[At("dropped")] \cup {x}
      /\ \A x : missed' = missed \cup {x} => Held'[At("missed")] = Held[At("missed")] \cup {x}
      /\ \A x : lost' = lost \cup {x} => Held'[At("lost")] = Held[At("lost")] \cup {x}
  BY <1>2, Zenon
<1>4. \A x : x # NoFlow => {x} \ {NoFlow} = {x}
  BY Zenon
<1>5. {NoFlow} \ {NoFlow} = {} /\ \A x : {} \cup {x} = {x}
  BY Zenon
<1> QED
  BY <1>1, <1>3, <1>4, <1>5, Zenon

(* The flows received are at one place each in the next state as well.     *)
LEMMA NextFlows ==
    ASSUME IInv, [Next]_vars
    PROVE  Partition(Held', Received')
<1>0. /\ PipesInv /\ HandsInv /\ Partition(Held, Received)
      /\ HeldOf("if") \in [Segs -> Flow \cup {NoFlow}]
      /\ HeldOf("then") \in [Segs -> Flow \cup {NoFlow}]
      /\ HeldOf("else") \in [Segs -> Flow \cup {NoFlow}]
  BY SegHolds, Zenon DEF IInv, PipesInv, PipeInv
<1>a. /\ N \in Segs /\ 1 \in Segs
      /\ \A i \in Segs : i < N => i + 1 \in Segs /\ i + 1 # i
  BY BranchAssumption DEF Segs
<1>1. CASE ReceiveIn
  <2> DEFINE f == FlowNr(fed + 1)
  <2>1. runMsg = NoFlow /\ runMsg' = f
    BY <1>0, <1>1, Zenon DEF ReceiveIn, HandsInv
  <2>a. fed \in Nat /\ fed' = fed + 1
    BY <1>0, <1>1, BranchAssumption DEF ReceiveIn, HandsInv
  <2>b. \A j, k : FlowNr(j) = FlowNr(k) => j = k
    BY Zenon DEF FlowNr
  <2>c. NoFlow = FlowNr(0)
    BY Zenon DEF FlowNr, NoFlow, Cond!NoFlow
  <2>d. 1..(fed + 1) = (1..fed) \cup {fed + 1} /\ fed + 1 # 0 /\ fed + 1 \notin 1..fed
    BY <2>a
  <2>2. f # NoFlow /\ f \notin Received /\ Received' = Received \cup {f}
    BY <2>a, <2>b, <2>c, <2>d, Zenon DEF Received
  <2>3. UNCHANGED <<fwdMsg, drnMsg, out, dropped, missed, lost, cHeld, tHeld, eHeld>>
    BY <1>1, Zenon DEF ReceiveIn, pipes, cVars, tVars, eVars, fwdVars, drnVars, flowVars
  <2> HIDE DEF f
  <2>4. /\ \A a \in Branches : PipeStays(a)
        /\ \A t \in Spots : t # "run" => SpotStays(t)
    BY <2>3, Stays, Names, Zenon
  <2>5. Held'[At("run")] = Held[At("run")] \cup {f}
    BY <2>1, <2>2, Hands, Zenon
  <2>6. ASSUME NEW a \in Branches, NEW j \in Segs PROVE Held'[Seg(a, j)] = Held[Seg(a, j)]
    <3>1. HeldOf(a)' = HeldOf(a)
      BY <2>4, Zenon DEF PipeStays
    <3>2. Held[Seg(a, j)] = {HeldOf(a)[j]} \ {NoFlow} /\ Held'[Seg(a, j)] = {HeldOf(a)'[j]} \ {NoFlow}
      BY SegHolds, Zenon
    <3> QED
      BY <3>1, <3>2, Zenon
  <2>7. \A r \in Spaces : r # At("run") => Held'[r] = Held[r]
    BY <2>4, <2>6, PlacesAre DEF SpotStays
  <2>8. At("run") \in Spaces
    BY Names, PlacesAre, Zenon
  <2> QED
    BY <1>0, <2>2, <2>5, <2>7, <2>8, Arrived, Zenon
<1>2. CASE SendToCondition
  <2>1. /\ runMsg # NoFlow /\ runMsg' = NoFlow /\ cHeld' = [cHeld EXCEPT ![1] = runMsg]
        /\ cPc[1] = "recv"
    BY <1>0, <1>2, Zenon DEF SendToCondition, HandsInv, Cond!Push
  <2>2. cHeld[1] = NoFlow
    BY <1>0, <1>a, <2>1, Holds, Zenon
  <2>3. UNCHANGED <<fed, fwdMsg, drnMsg, out, dropped, missed, lost, tHeld, eHeld>>
    BY <1>2, Zenon DEF SendToCondition, tVars, eVars, inVars, fwdVars, drnVars, flowVars
  <2>4. Received' = Received
    BY <2>3, Zenon DEF Received
  <2>5. /\ \A a \in Branches : a # "if" => PipeStays(a)
        /\ \A t \in Spots : t # "run" => SpotStays(t)
    BY <2>3, Stays, Names, Zenon
  <2>6. /\ HeldOf("if")[1] = NoFlow /\ HeldOf("if")' = [HeldOf("if") EXCEPT ![1] = runMsg]
        /\ Held[At("run")] = {runMsg} /\ Held'[At("run")] = {}
    BY <2>1, <2>2, SegHolds, Hands, Zenon
  <2> QED
    BY <1>0, <1>a, <2>1, <2>4, <2>5, <2>6, Names, FlowEnters, Zenon
<1>3. CASE CondSteps
  <2>0. PICK i \in Segs : CondSegment(i)
    BY <1>3, Zenon DEF CondSteps
  <2>1. \/ Cond!SegStep(i) /\ missed' = missed
        \/ Cond!Discard(i) /\ missed' = missed \cup {cHeld[i]}
    BY <2>0, Zenon DEF CondSegment
  <2>2. UNCHANGED <<fed, runMsg, fwdMsg, drnMsg, out, dropped, lost, tHeld, eHeld>>
    BY <1>3, Zenon DEF CondSteps, CondSegment, tVars, eVars, inVars, goroutines, runVars, fwdVars, drnVars
  <2>3. Received' = Received
    BY <2>2, Zenon DEF Received
  <2>4. /\ \A a \in Branches : a # "if" => PipeStays(a)
        /\ \A t \in Spots : t # "missed" => SpotStays(t)
    BY <2>2, Stays, Names, Zenon
  <2>5. CASE Cond!Discard(i) /\ missed' = missed \cup {cHeld[i]}
    <3>1. cHeld[i] # NoFlow /\ cHeld' = [cHeld EXCEPT ![i] = NoFlow]
      BY <1>0, <2>5, Holds, Zenon DEF Cond!Discard, Cond!NoFlow, NoFlow, Cond!NoFlow
    <3>2. Held'[At("missed")] = Held[At("missed")] \cup {HeldOf("if")[i]}
      BY <2>5, Hands, SegHolds, Zenon
    <3>3. HeldOf("if")[i] # NoFlow /\ HeldOf("if")' = [HeldOf("if") EXCEPT ![i] = NoFlow]
      BY <3>1, SegHolds, Zenon
    <3> QED
      BY <1>0, <1>a, <2>3, <2>4, <3>2, <3>3, Names, FlowLeaves, Zenon
  <2>6. CASE Cond!Handoff(i) /\ missed' = missed
    <3>1. i + 1 \in Segs /\ i + 1 # i
      BY <1>a, <2>6, Zenon DEF Cond!Handoff
    <3>2. cHeld[i] # NoFlow /\ cHeld[i + 1] = NoFlow
      <4>1. cPc[i] = "send" /\ cPc[i + 1] = "recv"
        BY <2>6, Zenon DEF Cond!Handoff
      <4> QED
        BY <1>0, <3>1, <4>1, Holds, Zenon
    <3>3. cHeld' = [cHeld EXCEPT ![i] = NoFlow, ![i + 1] = cHeld[i]]
      BY <2>6, Zenon DEF Cond!Handoff, Cond!NoFlow, NoFlow, Cond!NoFlow
    <3>4. /\ HeldOf("if")[i] # NoFlow /\ HeldOf("if")[i + 1] = NoFlow
          /\ HeldOf("if")' = [HeldOf("if") EXCEPT ![i] = NoFlow, ![i + 1] = HeldOf("if")[i]]
      BY <3>2, <3>3, SegHolds, Zenon
    <3>5. \A t \in Spots : SpotStays(t)
      BY <2>4, <2>6, Stays, Zenon
    <3> QED
      BY <1>0, <1>a, <2>3, <2>4, <3>1, <3>4, <3>5, Names, FlowMovesOn, Zenon
  <2>7. CASE cHeld' = cHeld /\ missed' = missed
    BY <1>0, <2>3, <2>4, <2>7, Stays, FlowsStay, Zenon
  <2> QED
    BY <2>1, <2>5, <2>6, <2>7, Zenon DEF Cond!SegStep, Cond!Accept, Cond!OfferDrop, Cond!CloseOut, Cond!Done
<1>4. CASE ThenSteps
  <2>0. PICK i \in Segs : ThenSegment(i)
    BY <1>4, Zenon DEF ThenSteps
  <2>1. \/ Then!SegStep(i) /\ lost' = lost
        \/ Then!Discard(i) /\ lost' = lost \cup {tHeld[i]}
    BY <2>0, Zenon DEF ThenSegment
  <2>2. UNCHANGED <<fed, runMsg, fwdMsg, drnMsg, out, dropped, missed, cHeld, eHeld>>
    BY <1>4, Zenon DEF ThenSteps, ThenSegment, cVars, eVars, inVars, goroutines, runVars, fwdVars, drnVars
  <2>3. Received' = Received
    BY <2>2, Zenon DEF Received
  <2>4. /\ \A a \in Branches : a # "then" => PipeStays(a)
        /\ \A t \in Spots : t # "lost" => SpotStays(t)
    BY <2>2, Stays, Names, Zenon
  <2>5. CASE Then!Discard(i) /\ lost' = lost \cup {tHeld[i]}
    <3>1. tHeld[i] # NoFlow /\ tHeld' = [tHeld EXCEPT ![i] = NoFlow]
      BY <1>0, <2>5, Holds, Zenon DEF Then!Discard, Then!NoFlow, NoFlow, Cond!NoFlow
    <3>2. Held'[At("lost")] = Held[At("lost")] \cup {HeldOf("then")[i]}
      BY <2>5, Hands, SegHolds, Zenon
    <3>3. HeldOf("then")[i] # NoFlow /\ HeldOf("then")' = [HeldOf("then") EXCEPT ![i] = NoFlow]
      BY <3>1, SegHolds, Zenon
    <3> QED
      BY <1>0, <1>a, <2>3, <2>4, <3>2, <3>3, Names, FlowLeaves, Zenon
  <2>6. CASE Then!Handoff(i) /\ lost' = lost
    <3>1. i + 1 \in Segs /\ i + 1 # i
      BY <1>a, <2>6, Zenon DEF Then!Handoff
    <3>2. tHeld[i] # NoFlow /\ tHeld[i + 1] = NoFlow
      <4>1. tPc[i] = "send" /\ tPc[i + 1] = "recv"
        BY <2>6, Zenon DEF Then!Handoff
      <4> QED
        BY <1>0, <3>1, <4>1, Holds, Zenon
    <3>3. tHeld' = [tHeld EXCEPT ![i] = NoFlow, ![i + 1] = tHeld[i]]
      BY <2>6, Zenon DEF Then!Handoff, Then!NoFlow, NoFlow, Cond!NoFlow
    <3>4. /\ HeldOf("then")[i] # NoFlow /\ HeldOf("then")[i + 1] = NoFlow
          /\ HeldOf("then")' = [HeldOf("then") EXCEPT ![i] = NoFlow, ![i + 1] = HeldOf("then")[i]]
      BY <3>2, <3>3, SegHolds, Zenon
    <3>5. \A t \in Spots : SpotStays(t)
      BY <2>4, <2>6, Stays, Zenon
    <3> QED
      BY <1>0, <1>a, <2>3, <2>4, <3>1, <3>4, <3>5, Names, FlowMovesOn, Zenon
  <2>7. CASE tHeld' = tHeld /\ lost' = lost
    BY <1>0, <2>3, <2>4, <2>7, Stays, FlowsStay, Zenon
  <2> QED
    BY <2>1, <2>5, <2>6, <2>7, Zenon DEF Then!SegStep, Then!Accept, Then!OfferDrop, Then!CloseOut, Then!Done
<1>5. CASE ElseSteps
  <2>0. PICK i \in Segs : ElseSegment(i)
    BY <1>5, Zenon DEF ElseSteps
  <2>1. \/ Else!SegStep(i) /\ lost' = lost
        \/ Else!Discard(i) /\ lost' = lost \cup {eHeld[i]}
    BY <2>0, Zenon DEF ElseSegment
  <2>2. UNCHANGED <<fed, runMsg, fwdMsg, drnMsg, out, dropped, missed, cHeld, tHeld>>
    BY <1>5, Zenon DEF ElseSteps, ElseSegment, cVars, tVars, inVars, goroutines, runVars, fwdVars, drnVars
  <2>3. Received' = Received
    BY <2>2, Zenon DEF Received
  <2>4. /\ \A a \in Branches : a # "else" => PipeStays(a)
        /\ \A t \in Spots : t # "lost" => SpotStays(t)
    BY <2>2, Stays, Names, Zenon
  <2>5. CASE Else!Discard(i) /\ lost' = lost \cup {eHeld[i]}
    <3>1. eHeld[i] # NoFlow /\ eHeld' = [eHeld EXCEPT ![i] = NoFlow]
      BY <1>0, <2>5, Holds, Zenon DEF Else!Discard, Else!NoFlow, NoFlow, Cond!NoFlow
    <3>2. Held'[At("lost")] = Held[At("lost")] \cup {HeldOf("else")[i]}
      BY <2>5, Hands, SegHolds, Zenon
    <3>3. HeldOf("else")[i] # NoFlow /\ HeldOf("else")' = [HeldOf("else") EXCEPT ![i] = NoFlow]
      BY <3>1, SegHolds, Zenon
    <3> QED
      BY <1>0, <1>a, <2>3, <2>4, <3>2, <3>3, Names, FlowLeaves, Zenon
  <2>6. CASE Else!Handoff(i) /\ lost' = lost
    <3>1. i + 1 \in Segs /\ i + 1 # i
      BY <1>a, <2>6, Zenon DEF Else!Handoff
    <3>2. eHeld[i] # NoFlow /\ eHeld[i + 1] = NoFlow
      <4>1. ePc[i] = "send" /\ ePc[i + 1] = "recv"
        BY <2>6, Zenon DEF Else!Handoff
      <4> QED
        BY <1>0, <3>1, <4>1, Holds, Zenon
    <3>3. eHeld' = [eHeld EXCEPT ![i] = NoFlow, ![i + 1] = eHeld[i]]
      BY <2>6, Zenon DEF Else!Handoff, Else!NoFlow, NoFlow, Cond!NoFlow
    <3>4. /\ HeldOf("else")[i] # NoFlow /\ HeldOf("else")[i + 1] = NoFlow
          /\ HeldOf("else")' = [HeldOf("else") EXCEPT ![i] = NoFlow, ![i + 1] = HeldOf("else")[i]]
      BY <3>2, <3>3, SegHolds, Zenon
    <3>5. \A t \in Spots : SpotStays(t)
      BY <2>4, <2>6, Stays, Zenon
    <3> QED
      BY <1>0, <1>a, <2>3, <2>4, <3>1, <3>4, <3>5, Names, FlowMovesOn, Zenon
  <2>7. CASE eHeld' = eHeld /\ lost' = lost
    BY <1>0, <2>3, <2>4, <2>7, Stays, FlowsStay, Zenon
  <2> QED
    BY <2>1, <2>5, <2>6, <2>7, Zenon DEF Else!SegStep, Else!Accept, Else!OfferDrop, Else!CloseOut, Else!Done
<1>6. CASE FwdFromOut \/ FwdFromDrop
  <2>1. PICK i \in Segs : /\ cPc[i] \in {"send", "drop"} /\ cHeld' = [cHeld EXCEPT ![i] = NoFlow]
                         /\ fwdMsg' = cHeld[i]
    <3>1. CASE FwdFromOut
      BY <1>a, <3>1, Zenon DEF FwdFromOut, Cond!Pull, NoFlow
    <3>2. CASE FwdFromDrop
      BY <3>2, Zenon DEF FwdFromDrop, Cond!PullDrop, NoFlow
    <3> QED
      BY <1>6, <3>1, <3>2, Zenon
  <2>2. cHeld[i] # NoFlow
    BY <1>0, <2>1, Holds, Zenon
  <2>3. UNCHANGED <<fed, runMsg, drnMsg, out, dropped, missed, lost, tHeld, eHeld>>
    BY <1>6, Zenon DEF FwdFromOut, FwdFromDrop, tVars, eVars, inVars, runVars, drnVars, flowVars
  <2>4. fwdMsg = NoFlow
    BY <1>0, <1>6, Labels, Zenon DEF FwdFromOut, FwdFromDrop, HandsInv
  <2>5. Received' = Received
    BY <2>3, Zenon DEF Received
  <2>6. /\ \A a \in Branches : a # "if" => PipeStays(a)
        /\ \A t \in Spots : t # "forward" => SpotStays(t)
    BY <2>3, Stays, Names, Zenon
  <2>7. /\ HeldOf("if")[i] # NoFlow /\ HeldOf("if")' = [HeldOf("if") EXCEPT ![i] = NoFlow]
        /\ Held'[At("forward")] = Held[At("forward")] \cup {HeldOf("if")[i]}
    BY <2>1, <2>2, <2>4, SegHolds, Hands, Zenon
  <2> QED
    BY <1>0, <2>5, <2>6, <2>7, Names, FlowLeaves, Zenon
<1>7. CASE FwdSend
  <2>1. fwdMsg # NoFlow /\ fwdMsg' = NoFlow
    BY <1>0, <1>7, Zenon DEF FwdSend, HandsInv
  <2>2. UNCHANGED <<fed, runMsg, drnMsg, out, dropped, missed, lost, cHeld>>
    BY <1>7, Zenon DEF FwdSend, cVars, inVars, runVars, drnVars, flowVars
  <2>3. Received' = Received
    BY <2>2, Zenon DEF Received
  <2>4. /\ \A t \in Spots : t # "forward" => SpotStays(t)
        /\ Held[At("forward")] = {fwdMsg} /\ Held'[At("forward")] = {}
    BY <2>1, <2>2, Stays, Hands, Names, Zenon
  <2>5. CASE Then!Push(fwdMsg) /\ UNCHANGED eVars
    <3>1. tPc[1] = "recv" /\ tHeld' = [tHeld EXCEPT ![1] = fwdMsg] /\ eHeld' = eHeld
      BY <2>5, Zenon DEF Then!Push, eVars
    <3>2. tHeld[1] = NoFlow
      BY <1>0, <1>a, <3>1, Holds, Zenon
    <3>3. \A a \in Branches : a # "then" => PipeStays(a)
      BY <2>2, <3>1, Stays, Names, Zenon
    <3>4. HeldOf("then")[1] = NoFlow /\ HeldOf("then")' = [HeldOf("then") EXCEPT ![1] = fwdMsg]
      BY <3>1, <3>2, SegHolds, Zenon
    <3> QED
      BY <1>0, <1>a, <2>1, <2>3, <2>4, <3>3, <3>4, Names, FlowEnters, Zenon
  <2>6. CASE Else!Push(fwdMsg) /\ UNCHANGED tVars
    <3>1. ePc[1] = "recv" /\ eHeld' = [eHeld EXCEPT ![1] = fwdMsg] /\ tHeld' = tHeld
      BY <2>6, Zenon DEF Else!Push, tVars
    <3>2. eHeld[1] = NoFlow
      BY <1>0, <1>a, <3>1, Holds, Zenon
    <3>3. \A a \in Branches : a # "else" => PipeStays(a)
      BY <2>2, <3>1, Stays, Names, Zenon
    <3>4. HeldOf("else")[1] = NoFlow /\ HeldOf("else")' = [HeldOf("else") EXCEPT ![1] = fwdMsg]
      BY <3>1, <3>2, SegHolds, Zenon
    <3> QED
      BY <1>0, <1>a, <2>1, <2>3, <2>4, <3>3, <3>4, Names, FlowEnters, Zenon
  <2> QED
    BY <1>7, <2>5, <2>6, Zenon DEF FwdSend
<1>8. CASE DrnFromOut \/ DrnFromDrop
  <2>1. UNCHANGED <<fed, runMsg, fwdMsg, out, dropped, missed, cHeld>>
    BY <1>8, Zenon DEF DrnFromOut, DrnFromDrop, cVars, inVars, runVars, fwdVars, flowVars
  <2>2. Received' = Received
    BY <2>1, Zenon DEF Received
  <2>3. drnMsg = NoFlow
    BY <1>0, <1>8, Labels, Zenon DEF DrnFromOut, DrnFromDrop, HandsInv
  <2>4. \E i \in Segs, f \in Flow \cup {NoFlow} :
           /\ \/ f = tHeld[i] /\ tPc[i] \in {"send", "drop"}
                 /\ tHeld' = [tHeld EXCEPT ![i] = NoFlow] /\ eHeld' = eHeld
              \/ f = eHeld[i] /\ ePc[i] \in {"send", "drop"}
                 /\ eHeld' = [eHeld EXCEPT ![i] = NoFlow] /\ tHeld' = tHeld
           /\ (drnMsg' = f /\ lost' = lost) \/ (drnMsg' = NoFlow /\ lost' = lost \cup {f})
    <3>0. \A i \in Segs : tHeld[i] \in Flow \cup {NoFlow} /\ eHeld[i] \in Flow \cup {NoFlow}
      BY <1>0, Zenon DEF PipesInv, PipeInv
    <3>1. CASE DrnFromOut
      BY <1>a, <3>0, <3>1, Zenon DEF DrnFromOut, Then!Pull, Else!Pull, tVars, eVars, flowVars,
                NoFlow, Then!NoFlow, Else!NoFlow, Cond!NoFlow
    <3>2. CASE DrnFromDrop
      BY <3>0, <3>2, Zenon DEF DrnFromDrop, Then!PullDrop, Else!PullDrop, tVars, eVars,
                NoFlow, Then!NoFlow, Else!NoFlow, Cond!NoFlow
    <3> QED
      BY <1>8, <3>1, <3>2, Zenon
  <2>5. PICK i \in Segs, f \in Flow \cup {NoFlow} :
           /\ \/ f = tHeld[i] /\ tPc[i] \in {"send", "drop"}
                 /\ tHeld' = [tHeld EXCEPT ![i] = NoFlow] /\ eHeld' = eHeld
              \/ f = eHeld[i] /\ ePc[i] \in {"send", "drop"}
                 /\ eHeld' = [eHeld EXCEPT ![i] = NoFlow] /\ tHeld' = tHeld
           /\ (drnMsg' = f /\ lost' = lost) \/ (drnMsg' = NoFlow /\ lost' = lost \cup {f})
    BY <2>4, Zenon
  <2>6. f # NoFlow
    BY <1>0, <2>5, Holds, Zenon
  <2>7. PICK s \in Spots : /\ Held'[At(s)] = Held[At(s)] \cup {f}
                          /\ \A t \in Spots : t # s => SpotStays(t)
    <3>1. CASE drnMsg' = f /\ lost' = lost
      <4>1. /\ Held'[At("drain")] = Held[At("drain")] \cup {f}
            /\ \A t \in Spots : t # "drain" => SpotStays(t)
        BY <2>1, <2>3, <2>6, <3>1, Stays, Hands, Names, Zenon
      <4> QED
        BY <4>1, Names, Zenon
    <3>2. CASE drnMsg' = NoFlow /\ lost' = lost \cup {f}
      <4>1. /\ Held'[At("lost")] = Held[At("lost")] \cup {f}
            /\ \A t \in Spots : t # "lost" => SpotStays(t)
        BY <2>1, <2>3, <3>2, Stays, Hands, Names, Zenon
      <4> QED
        BY <4>1, Names, Zenon
    <3> QED
      BY <2>5, <3>1, <3>2, Zenon
  <2>8. CASE f = tHeld[i] /\ tHeld' = [tHeld EXCEPT ![i] = NoFlow] /\ eHeld' = eHeld
    <3>1. \A a \in Branches : a # "then" => PipeStays(a)
      BY <2>1, <2>8, Stays, Names, Zenon
    <3>2. /\ HeldOf("then")[i] = f /\ HeldOf("then")[i] # NoFlow
          /\ HeldOf("then")' = [HeldOf("then") EXCEPT ![i] = NoFlow]
          /\ Held'[At(s)] = Held[At(s)] \cup {HeldOf("then")[i]}
      BY <2>6, <2>7, <2>8, SegHolds, Zenon
    <3> QED
      BY <1>0, <2>2, <2>7, <3>1, <3>2, Names, FlowLeaves, Zenon
  <2>9. CASE f = eHeld[i] /\ eHeld' = [eHeld EXCEPT ![i] = NoFlow] /\ tHeld' = tHeld
    <3>1. \A a \in Branches : a # "else" => PipeStays(a)
      BY <2>1, <2>9, Stays, Names, Zenon
    <3>2. /\ HeldOf("else")[i] = f /\ HeldOf("else")[i] # NoFlow
          /\ HeldOf("else")' = [HeldOf("else") EXCEPT ![i] = NoFlow]
          /\ Held'[At(s)] = Held[At(s)] \cup {HeldOf("else")[i]}
      BY <2>6, <2>7, <2>9, SegHolds, Zenon
    <3> QED
      BY <1>0, <2>2, <2>7, <3>1, <3>2, Names, FlowLeaves, Zenon
  <2> QED
    BY <2>5, <2>8, <2>9, Zenon
<1>9. CASE DrnSend
  <2>1. drnMsg # NoFlow /\ drnMsg' = NoFlow
    BY <1>0, <1>9, Zenon DEF DrnSend, HandsInv
  <2>2. UNCHANGED <<fed, runMsg, fwdMsg, missed, lost, cHeld, tHeld, eHeld>>
    BY <1>9, Zenon DEF DrnSend, pipes, cVars, tVars, eVars, inVars, runVars, fwdVars
  <2>3. Received' = Received
    BY <2>2, Zenon DEF Received
  <2>4. /\ \A a \in Branches : PipeStays(a)
        /\ Held[At("drain")] = {drnMsg} /\ Held'[At("drain")] = {}
    BY <2>1, <2>2, Stays, Hands, Names, Zenon
  <2>5. CASE out' = out \cup {drnMsg} /\ dropped' = dropped
    <3>1. /\ Held'[At("out")] = Held[At("out")] \cup {drnMsg}
          /\ \A t \in Spots : t # "drain" /\ t # "out" => SpotStays(t)
      BY <2>2, <2>5, Stays, Hands, Names, Zenon
    <3> QED
      BY <1>0, <2>3, <2>4, <3>1, Names, FlowSent, Zenon
  <2>6. CASE dropped' = dropped \cup {drnMsg} /\ out' = out
    <3>1. /\ Held'[At("dropped")] = Held[At("dropped")] \cup {drnMsg}
          /\ \A t \in Spots : t # "drain" /\ t # "dropped" => SpotStays(t)
      BY <2>2, <2>6, Stays, Hands, Names, Zenon
    <3> QED
      BY <1>0, <2>3, <2>4, <3>1, Names, FlowSent, Zenon
  <2> QED
    BY <1>9, <2>5, <2>6, Zenon DEF DrnSend
<1>10. CASE UNCHANGED <<fed, runMsg, fwdMsg, drnMsg, out, dropped, missed, lost, cHeld, tHeld, eHeld>>
  <2>1. Received' = Received
    BY <1>10, Zenon DEF Received
  <2>2. (\A a \in Branches : PipeStays(a)) /\ (\A t \in Spots : SpotStays(t))
    BY <1>10, Stays, Names, Zenon
  <2> QED
    BY <1>0, <2>1, <2>2, FlowsStay, Zenon
<1>11. \/ ReceiveIn \/ SendToCondition \/ CondSteps \/ ThenSteps \/ ElseSteps
       \/ FwdFromOut \/ FwdFromDrop \/ FwdSend \/ DrnFromOut \/ DrnFromDrop \/ DrnSend
       \/ UNCHANGED <<fed, runMsg, fwdMsg, drnMsg, out, dropped, missed, lost, cHeld, tHeld, eHeld>>
  <2> USE DEF pipes, cVars, tVars, eVars, goroutines, inVars, runVars, fwdVars, drnVars, flowVars
  <2>1. CASE CloseInput \/ Panic \/ UNCHANGED vars
    BY <2>1, Zenon DEF CloseInput, Panic, vars
  <2>2. CASE Defer
    BY <2>2, Zenon DEF Defer, CloseCondition, CloseThen, CloseElse, CloseOut, CloseDrops,
                Cond!CloseIn, Then!CloseIn, Else!CloseIn
  <2>3. CASE FwdSubscribe \/ FwdOutClosed
    BY <2>3, Zenon DEF FwdSubscribe, FwdOutClosed, Cond!SubscribeSegment
  <2>4. CASE DrnSubscribe \/ DrnEndClosed
    BY <2>4, Zenon DEF DrnSubscribe, DrnEndClosed, Then!SubscribeSegment, Else!SubscribeSegment
  <2>5. CASE StartCondition \/ StartThen \/ StartElse
    BY <2>5, Zenon DEF StartCondition, StartThen, StartElse, Cond!StartSegment, Then!StartSegment, Else!StartSegment
  <2> QED
    BY <2>1, <2>2, <2>3, <2>4, <2>5, Zenon DEF Next, Forward, Drain, CondSteps, ThenSteps, ElseSteps
<1> QED
  BY <1>1, <1>2, <1>3, <1>4, <1>5, <1>6, <1>7, <1>8, <1>9, <1>10, <1>11, Zenon

(* A flow that is in one of the sets Held[p] only has one place.           *)
LEMMA OneWhere ==
    ASSUME IInv, NEW f \in Received
    PROVE  \E place \in Where(f) : Where(f) = {place}
<1>1. Partition(Held, Received) /\ f # NoFlow
  <2>1. Partition(Held, Received)
    BY Zenon DEF IInv
  <2> QED
    BY <2>1, InHand, Zenon
<1>2. PICK p \in Spaces : f \in Held[p] /\ \A q \in Spaces : f \in Held[q] => q = p
  BY <1>1, Zenon DEF Partition
<1>3. \A s \in Spots : f \in Held[At(s)] <=> p = At(s)
  BY <1>2, PlacesAre, Zenon
<1>4. \A b \in Branches, i \in Segs : f \in Held[Seg(b, i)] <=> p = Seg(b, i)
  BY <1>2, PlacesAre, Zenon
<1>5. /\ runMsg = f <=> p = At("run")
      /\ fwdMsg = f <=> p = At("forward")
      /\ drnMsg = f <=> p = At("drain")
  <2>1. /\ Held[At("run")] = {runMsg} \ {NoFlow} /\ Held[At("forward")] = {fwdMsg} \ {NoFlow}
        /\ Held[At("drain")] = {drnMsg} \ {NoFlow}
    BY HeldIs, Zenon DEF HeldFacts
  <2> QED
    BY <1>1, <1>3, <2>1, Names, Zenon
<1>6. /\ f \in out <=> p = At("out")
      /\ f \in dropped <=> p = At("dropped")
      /\ f \in missed <=> p = At("missed")
      /\ f \in lost <=> p = At("lost")
  <2>1. /\ Held[At("out")] = out /\ Held[At("dropped")] = dropped
        /\ Held[At("missed")] = missed /\ Held[At("lost")] = lost
    BY HeldIs, Zenon DEF HeldFacts
  <2> QED
    BY <1>3, <2>1, Names, Zenon
<1>7. \A i \in Segs : /\ cHeld[i] = f <=> p = Seg("if", i)
                      /\ tHeld[i] = f <=> p = Seg("then", i)
                      /\ eHeld[i] = f <=> p = Seg("else", i)
  <2>1. ASSUME NEW i \in Segs
        PROVE  /\ cHeld[i] = f <=> p = Seg("if", i)
               /\ tHeld[i] = f <=> p = Seg("then", i)
               /\ eHeld[i] = f <=> p = Seg("else", i)
    <3>1. /\ Held[Seg("if", i)] = {cHeld[i]} \ {NoFlow}
          /\ Held[Seg("then", i)] = {tHeld[i]} \ {NoFlow}
          /\ Held[Seg("else", i)] = {eHeld[i]} \ {NoFlow}
      BY HeldIs, Zenon DEF HeldFacts
    <3> QED
      BY <1>1, <1>4, <3>1, Names, Zenon
  <2> QED
    BY <2>1, Zenon
<1>8. \A x : x \in Where(f) <=>
                 \/ runMsg = f /\ x = <<"run">>
                 \/ fwdMsg = f /\ x = <<"forward">>
                 \/ drnMsg = f /\ x = <<"drain">>
                 \/ \E i \in Segs : cHeld[i] = f /\ x = <<"if", i>>
                 \/ \E i \in Segs : tHeld[i] = f /\ x = <<"then", i>>
                 \/ \E i \in Segs : eHeld[i] = f /\ x = <<"else", i>>
                 \/ f \in out /\ x = <<"out">>
                 \/ f \in dropped /\ x = <<"dropped">>
                 \/ f \in missed /\ x = <<"missed">>
                 \/ f \in lost /\ x = <<"lost">>
  BY Zenon DEF Where
<1>9. \A x : x \in Where(f) <=>
                 \/ p = At("run") /\ x = <<"run">>
                 \/ p = At("forward") /\ x = <<"forward">>
                 \/ p = At("drain") /\ x = <<"drain">>
                 \/ \E i \in Segs : p = Seg("if", i) /\ x = <<"if", i>>
                 \/ \E i \in Segs : p = Seg("then", i) /\ x = <<"then", i>>
                 \/ \E i \in Segs : p = Seg("else", i) /\ x = <<"else", i>>
                 \/ p = At("out") /\ x = <<"out">>
                 \/ p = At("dropped") /\ x = <<"dropped">>
                 \/ p = At("missed") /\ x = <<"missed">>
                 \/ p = At("lost") /\ x = <<"lost">>
  BY <1>5, <1>6, <1>7, <1>8, Zenon
<1>10. /\ \A s, t \in Spots : s # t => At(s) # At(t)
       /\ "run" # "forward" /\ "run" # "drain" /\ "run" # "out" /\ "run" # "dropped" /\ "run" # "missed"
       /\ "run" # "lost" /\ "forward" # "drain" /\ "forward" # "out" /\ "forward" # "dropped"
       /\ "forward" # "missed" /\ "forward" # "lost" /\ "drain" # "out" /\ "drain" # "dropped"
       /\ "drain" # "missed" /\ "drain" # "lost" /\ "out" # "dropped" /\ "out" # "missed" /\ "out" # "lost"
       /\ "dropped" # "missed" /\ "dropped" # "lost" /\ "missed" # "lost"
       /\ "if" # "then" /\ "if" # "else" /\ "then" # "else"
  BY PlacesAre, Zenon
<1>11. ASSUME NEW s \in Spots, p = At(s) PROVE \E x : Where(f) = {x}
  <2>1. ASSUME NEW t \in Spots PROVE p = At(t) <=> t = s
    <3>1. At(s) = At(t) => s = t
      BY PlacesAre, Zenon
    <3> QED
      BY <1>11, <3>1, Zenon
  <2>2. \A b \in Branches, i \in Segs : p # Seg(b, i)
    BY <1>11, PlacesAre
  <2>a. /\ p = At("run") <=> "run" = s
        /\ p = At("forward") <=> "forward" = s
        /\ p = At("drain") <=> "drain" = s
        /\ p = At("out") <=> "out" = s
        /\ p = At("dropped") <=> "dropped" = s
        /\ p = At("missed") <=> "missed" = s
        /\ p = At("lost") <=> "lost" = s
    BY <2>1, Names, Zenon
  <2>b. \A x : x \in Where(f) <=>
                   \/ "run" = s /\ x = <<"run">>
                   \/ "forward" = s /\ x = <<"forward">>
                   \/ "drain" = s /\ x = <<"drain">>
                   \/ "out" = s /\ x = <<"out">>
                   \/ "dropped" = s /\ x = <<"dropped">>
                   \/ "missed" = s /\ x = <<"missed">>
                   \/ "lost" = s /\ x = <<"lost">>
    BY <1>9, <2>a, <2>2, Names, Zenon
  <2>3. \A x : x \in Where(f) <=> x = <<s>>
    BY <2>b, Names, Zenon
  <2>4. Where(f) = {<<s>>}
    BY <2>3, Zenon
  <2> QED
    BY <2>4, Zenon
<1>12. ASSUME NEW b \in Branches, NEW i \in Segs, p = Seg(b, i) PROVE \E x : Where(f) = {x}
  <2>1. \A t \in Spots : p # At(t)
    BY <1>12, PlacesAre, Zenon
  <2>2. ASSUME NEW a \in Branches, NEW j \in Segs PROVE p = Seg(a, j) <=> (a = b /\ j = i)
    BY <1>12, PlacesAre
  <2>3. \A x : x \in Where(f) <=>
                   \/ \E j \in Segs : p = Seg("if", j) /\ x = <<"if", j>>
                   \/ \E j \in Segs : p = Seg("then", j) /\ x = <<"then", j>>
                   \/ \E j \in Segs : p = Seg("else", j) /\ x = <<"else", j>>
    BY <1>9, <2>1, Names, Zenon
  <2>4. \A x : x \in Where(f) <=>
                   \/ b = "if" /\ x = <<"if", i>>
                   \/ b = "then" /\ x = <<"then", i>>
                   \/ b = "else" /\ x = <<"else", i>>
    BY <2>2, <2>3, Names
  <2>5. \A x : x \in Where(f) <=> x = <<b, i>>
    BY <1>10, <2>4, Names, Zenon
  <2>6. Where(f) = {<<b, i>>}
    BY <2>5, Zenon
  <2> QED
    BY <2>6, Zenon
<1>13. \E x : Where(f) = {x}
  BY <1>11, <1>12, PlacesAre, Zenon
<1> QED
  BY <1>13, Zenon

-----------------------------------------------------------------------------
(* The invariant holds in the initial states: nothing is started, nothing  *)
(* has been received.                                                      *)
LEMMA InitInv == Init => IInv
<1> SUFFICES ASSUME Init PROVE IInv
  BY Zenon
<1>0. Segs = Cond!Segs /\ Segs = Then!Segs /\ Segs = Else!Segs /\ 1 \in Segs
  BY BranchAssumption DEF Segs, Cond!Segs, Then!Segs, Else!Segs
<1>1. /\ cKind \in [Segs -> Kinds] /\ cPc = [i \in Segs |-> "new"] /\ cHeld = [i \in Segs |-> NoFlow]
      /\ cClosed = {} /\ cSubs = {} /\ cWg = 0
  BY <1>0, Zenon DEF Init, Cond!PipeInit, NoFlow
<1>2. /\ tKind \in [Segs -> Kinds] /\ tPc = [i \in Segs |-> "new"] /\ tHeld = [i \in Segs |-> NoFlow]
      /\ tClosed = {} /\ tSubs = {} /\ tWg = 0
  BY <1>0, Zenon DEF Init, Then!PipeInit, NoFlow, Then!NoFlow, Cond!NoFlow
<1>3. /\ eKind \in [Segs -> Kinds] /\ ePc = [i \in Segs |-> "new"] /\ eHeld = [i \in Segs |-> NoFlow]
      /\ eClosed = {} /\ eSubs = {} /\ eWg = 0
  BY <1>0, Zenon DEF Init, Else!PipeInit, NoFlow, Else!NoFlow, Cond!NoFlow
<1>4. ASSUME NEW kind \in [Segs -> Kinds]
      PROVE  PipeInv(kind, [i \in Segs |-> "new"], [i \in Segs |-> NoFlow], {}, {}, 0)
  <2>1. Running([i \in Segs |-> "new"]) = {}
    BY Zenon DEF Running
  <2>2. Counts(0, {})
    <3>1. 0 \in Nat /\ [k \in 1..0 |-> 1] \in [1..0 -> Segs]
      OBVIOUS
    <3> QED
      BY <3>1, Zenon DEF Counts
  <2>3. "new" \in Cond!Places /\ "new" \notin Busy
    BY Zenon DEF Cond!Places, Busy
  <2> QED
    BY <2>1, <2>2, <2>3, Zenon DEF PipeInv
<1>5. PipesInv
  BY <1>1, <1>2, <1>3, <1>4, Zenon DEF PipesInv
<1>6. HandsInv
  <2>a. 0 \in 0..MaxFlows /\ "recv" # "send"
    BY BranchAssumption
  <2>1. /\ fed \in 0..MaxFlows /\ run \in RunPlaces /\ fwdOut \in {"open", "nil"}
        /\ inClosed \in BOOLEAN /\ outClosed \in BOOLEAN /\ dropsClosed \in BOOLEAN
        /\ run # "send"
    BY <2>a, Zenon DEF Init, RunPlaces
  <2>2. fwd \in FwdPlaces /\ drn \in DrnPlaces
    BY <1>0, Zenon DEF Init, FwdPlaces, DrnPlaces
  <2>3. fwd \notin {<<"toThen">>, <<"toElse">>} /\ drn \notin {<<"toOut">>, <<"toDrops">>}
    BY Zenon DEF Init
  <2>4. /\ runMsg = NoFlow /\ fwdMsg = NoFlow /\ drnMsg = NoFlow
        /\ bypass \in BOOLEAN /\ wired \in BOOLEAN /\ crashed \in BOOLEAN
    BY Zenon DEF Init
  <2> QED
    BY <2>1, <2>2, <2>3, <2>4, Zenon DEF HandsInv
<1>7. CloseInv
  BY Zenon DEF Init, CloseInv
<1>8. SubsInv
  <2>1. \A j \in Segs : 1 \in 1..j
    BY BranchAssumption DEF Segs
  <2>2. fwd = <<"subscribe", 1>> /\ drn = <<"subThen", 1>>
    BY Zenon DEF Init
  <2> QED
    BY <1>0, <2>1, <2>2, Zenon DEF SubsInv
<1>9. judged = {} /\ fed = 0 /\ Received = {}
  BY DEF Init, Received
<1>10. JudgedInv
  <2>1. fwd # <<"toElse">> /\ \A i \in Segs : cPc[i] # "drop" /\ eHeld[i] = NoFlow
    BY <1>1, <1>3, Zenon DEF Init
  <2> QED
    BY <1>9, <2>1, Zenon DEF JudgedInv
<1>11. Partition(Held, Received)
  <2>1. /\ runMsg = NoFlow /\ fwdMsg = NoFlow /\ drnMsg = NoFlow
        /\ out = {} /\ dropped = {} /\ missed = {} /\ lost = {}
    BY Zenon DEF Init
  <2>2. {NoFlow} \ {NoFlow} = {}
    BY Zenon
  <2>3. \A s \in Spots : Held[At(s)] = {}
    BY <2>1, <2>2, HeldIs, Names, Zenon DEF HeldFacts
  <2>4. \A i \in Segs : cHeld[i] = NoFlow /\ tHeld[i] = NoFlow /\ eHeld[i] = NoFlow
    BY <1>1, <1>2, <1>3, Zenon
  <2>5. \A b \in Branches, i \in Segs : Held[Seg(b, i)] = {}
    BY <2>2, <2>4, HeldIs, Names, Zenon DEF HeldFacts
  <2>6. \A p \in Spaces : Held[p] = {}
    BY <2>3, <2>5, PlacesAre
  <2>7. UNION {Held[p] : p \in Spaces} = {}
    BY <2>6, Zenon
  <2> QED
    BY <1>9, <2>6, <2>7, Zenon DEF Partition
<1> QED
  BY <1>5, <1>6, <1>7, <1>8, <1>10, <1>11, Zenon DEF IInv

(* The invariant is inductive.                                             *)
LEMMA InvStep == IInv /\ [Next]_vars => IInv'
<1> SUFFICES ASSUME IInv, [Next]_vars PROVE IInv'
  BY Zenon
<1> QED
  BY NextPipes, NextHands, NextClose, NextSubs, NextJudged, NextFlows, Zenon DEF IInv, Partition

(* The invariant gives the types.                                          *)
LEMMA InvTypes == IInv => TypeOK
<1> SUFFICES ASSUME IInv PROVE TypeOK
  BY Zenon
<1>0. PipesInv /\ HandsInv /\ JudgedInv /\ Partition(Held, Received)
  BY Zenon DEF IInv
<1>1. /\ Cond!Segs = Segs /\ Then!Segs = Segs /\ Else!Segs = Segs
      /\ Cond!Chans = 0..N /\ Then!Chans = 0..N /\ Else!Chans = 0..N
      /\ Then!NoFlow = NoFlow /\ Else!NoFlow = NoFlow /\ Cond!NoFlow = NoFlow
      /\ Cond!Flow = Flow /\ Then!Flow = Flow /\ Else!Flow = Flow
      /\ Then!Places = Cond!Places /\ Else!Places = Cond!Places
  BY Zenon DEF Segs, Cond!Segs, Then!Segs, Else!Segs, Cond!Chans, Then!Chans, Else!Chans, NoFlow,
         Cond!NoFlow, Then!NoFlow, Else!NoFlow, Flow, Cond!Flow, Then!Flow, Else!Flow,
         Cond!Places, Then!Places, Else!Places
<1>2. \A n \in Nat : n \in Int
  OBVIOUS
<1>3. Cond!PipeTypeOK
  BY <1>0, <1>1, <1>2, Zenon DEF PipesInv, PipeInv, Counts, Cond!PipeTypeOK
<1>4. Then!PipeTypeOK
  BY <1>0, <1>1, <1>2, Zenon DEF PipesInv, PipeInv, Counts, Then!PipeTypeOK
<1>5. Else!PipeTypeOK
  BY <1>0, <1>1, <1>2, Zenon DEF PipesInv, PipeInv, Counts, Else!PipeTypeOK
<1> QED
  BY <1>0, <1>3, <1>4, <1>5, InHand, Zenon DEF TypeOK, HandsInv, JudgedInv

-----------------------------------------------------------------------------
(* Every flow received is at exactly one place, and in the branch it       *)
(* belongs to, whatever the number and the kinds of the segments in the    *)
(* three pipelines, in a shutdown and after a panic too.                   *)
THEOREM FlowsAreRouted == Spec => []RoutedByCondition
<1>1. IInv => RoutedByCondition
  <2> SUFFICES ASSUME IInv PROVE RoutedByCondition
    BY Zenon
  <2>1. JudgedInv /\ TypeOK /\ NoFlow \notin Received
    <3>1. Partition(Held, Received) /\ JudgedInv
      BY Zenon DEF IInv
    <3> QED
      BY <3>1, InHand, InvTypes, Zenon
  <2>2. \A f \in Received : \E place \in Where(f) : Where(f) = {place}
    BY OneWhere, Zenon
  <2>3. Inside(tHeld) \cap judged = {} /\ Inside(eHeld) \subseteq judged
    BY <2>1, Zenon DEF Inside, JudgedInv
  <2> QED
    BY <2>1, <2>2, <2>3, Zenon DEF RoutedByCondition, JudgedInv
<1> QED
  BY <1>1, InitInv, InvStep, PTL DEF Spec

(* Run closes Out only when it has closed In of the three pipelines and    *)
(* all of them are empty, although a wait group may have been found at     *)
(* zero because Start() had not run yet.                                   *)
THEOREM OutClosesEmpty == Spec => []EmptyWhenOutClosed
<1>1. IInv => EmptyWhenOutClosed
  <2> SUFFICES ASSUME CloseInv, outClosed PROVE EmptyWhenOutClosed
    BY Zenon DEF IInv, EmptyWhenOutClosed
  <2>1. run \in {"closeDrops", "exited"}
    BY Zenon DEF CloseInv
  <2>2. /\ 0 \in cClosed /\ 0 \in tClosed /\ 0 \in eClosed
        /\ Inside(cHeld) = {} /\ Inside(tHeld) = {} /\ Inside(eHeld) = {}
    BY <2>1, Zenon DEF CloseInv
  <2> QED
    BY <2>2, Zenon DEF EmptyWhenOutClosed
<1> QED
  BY <1>1, InitInv, InvStep, PTL DEF Spec

(* Once forwardBasedOnCondition has subscribed, no flow that `if` drops is *)
(* missed; once drainOutput has, bypass-messages lets no flow be lost.     *)
THEOREM DropsAreForwarded == Spec => DropsAreSeen
<1> DEFINE Seen == /\ fwd \notin {<<"subscribe", i>> : i \in Segs} => missed' = missed
                   /\ bypass /\ drn \notin {<<"subThen", i>> : i \in Segs} \cup {<<"subElse", i>> : i \in Segs}
                         => lost' = lost
<1>1. IInv /\ [Next]_vars => [Seen]_vars
  <2> SUFFICES ASSUME IInv, [Next]_vars PROVE Seen
    BY Zenon
  <2>0. SubsInv /\ \A j \in Segs : 1..j \subseteq Segs
    BY BranchAssumption DEF IInv, Segs
  <2>1. ASSUME fwd \notin {<<"subscribe", i>> : i \in Segs} PROVE missed' = missed
    <3>1. CASE CondSteps
      <4>1. PICK i \in Segs : CondSegment(i)
        BY <3>1, Zenon DEF CondSteps
      <4>2. i \in cSubs \/ cKind[i] # "filter"
        BY <2>0, <2>1, Zenon DEF SubsInv
      <4>3. ~Cond!Discard(i)
        BY <4>2, Zenon DEF Cond!Discard
      <4> QED
        BY <4>1, <4>3, Zenon DEF CondSegment
    <3>2. CASE UNCHANGED <<missed, judged>>
      BY <3>2, Zenon
    <3> QED
      BY <3>1, <3>2, Frames, Zenon
  <2>2. ASSUME bypass,
               drn \notin {<<"subThen", i>> : i \in Segs} \cup {<<"subElse", i>> : i \in Segs}
        PROVE  lost' = lost
    <3>1. CASE ThenSteps
      <4>1. PICK i \in Segs : ThenSegment(i)
        BY <3>1, Zenon DEF ThenSteps
      <4>2. i \in tSubs \/ tKind[i] # "filter"
        BY <2>0, <2>2, Zenon DEF SubsInv
      <4>3. ~Then!Discard(i)
        BY <4>2, Zenon DEF Then!Discard
      <4> QED
        BY <4>1, <4>3, Zenon DEF ThenSegment
    <3>2. CASE ElseSteps
      <4>1. PICK i \in Segs : ElseSegment(i)
        BY <3>2, Zenon DEF ElseSteps
      <4>2. i \in eSubs \/ eKind[i] # "filter"
        BY <2>0, <2>2, Zenon DEF SubsInv
      <4>3. ~Else!Discard(i)
        BY <4>2, Zenon DEF Else!Discard
      <4> QED
        BY <4>1, <4>3, Zenon DEF ElseSegment
    <3>3. CASE DrnFromDrop
      BY <2>2, <3>3, Zenon DEF DrnFromDrop
    <3>4. CASE UNCHANGED lost
      BY <3>4, Zenon
    <3> QED
      BY <3>1, <3>2, <3>3, <3>4, Frames, Zenon
  <2> QED
    BY <2>1, <2>2, Zenon
<1> QED
  BY <1>1, InitInv, InvStep, PTL DEF Spec, DropsAreSeen

-----------------------------------------------------------------------------
(* Nobody waits for ever while In is open.                                 *)

(* As long as Run has not begun to close the pipelines, no channel is      *)
(* closed, no segment returns, and the goroutines of the branch are there. *)
Leaving == {"quit", "done", "exited"}
Open(pc, closed) == closed = {} /\ \A i \in Segs : pc[i] \notin Leaving

OpenInv ==
    /\ drn = <<"toDrops">> => wired
    /\ fwd # <<"exited">>
    /\ run \in {"recv", "send"} =>
          /\ ~crashed /\ ~dropsClosed /\ fwdOut = "open" /\ drn # <<"exited">>
          /\ Open(cPc, cClosed) /\ Open(tPc, tClosed) /\ Open(ePc, eClosed)

(* What happens in an open pipeline.                                       *)
OpenStep(pc, closed, pc2, closed2) ==
    /\ closed2 = closed
    /\ \/ pc2 = pc
       \/ \E i \in Segs, place \in {"recv", "work", "send", "drop"} : pc2 = [pc EXCEPT ![i] = place]
       \/ \E i \in Segs : i < N /\ pc2 = [pc EXCEPT ![i] = "recv", ![i + 1] = "work"]

LEMMA StaysOpen ==
    ASSUME NEW pc \in [Segs -> Cond!Places], NEW closed, NEW pc2, NEW closed2,
           Open(pc, closed), OpenStep(pc, closed, pc2, closed2)
    PROVE  Open(pc2, closed2)
<1>1. ASSUME NEW i \in Segs, NEW place \in {"recv", "work", "send", "drop"},
             pc2 = [pc EXCEPT ![i] = place]
      PROVE  \A j \in Segs : pc2[j] \notin Leaving
  BY <1>1 DEF Open, Leaving
<1>2. ASSUME NEW i \in Segs, i < N, pc2 = [pc EXCEPT ![i] = "recv", ![i + 1] = "work"]
      PROVE  \A j \in Segs : pc2[j] \notin Leaving
  BY <1>2 DEF Open, Leaving
<1> QED
  BY <1>1, <1>2, Zenon DEF Open, OpenStep

(* Without a segment that gives up, `if` stays open until Run closes it.   *)
LEMMA CondOpen ==
    ASSUME "replay" \notin Kinds, IInv, Open(cPc, cClosed), [Next]_vars, ~CloseCondition
    PROVE  Open(cPc', cClosed')
<1>0. /\ N \in Segs /\ 1 \in Segs /\ cPc \in [Segs -> Cond!Places]
      /\ \A i \in Segs : cKind[i] # "replay"
  <2>1. N \in Segs /\ 1 \in Segs
    BY BranchAssumption DEF Segs
  <2>2. cPc \in [Segs -> Cond!Places] /\ cKind \in [Segs -> Kinds]
    BY Zenon DEF IInv, PipesInv, PipeInv
  <2> QED
    BY <2>1, <2>2
<1> SUFFICES OpenStep(cPc, cClosed, cPc', cClosed')
  BY <1>0, StaysOpen, Zenon
<1> USE DEF OpenStep
<1>1. CASE UNCHANGED cVars
  BY <1>1, Zenon DEF cVars
<1>2. CASE SendToCondition
  BY <1>0, <1>2, Zenon DEF SendToCondition, Cond!Push
<1>3. CASE StartCondition
  BY <1>0, <1>3, Zenon DEF StartCondition, Cond!StartSegment
<1>4. CASE CondSteps
  <2>1. PICK i \in Segs : CondSegment(i)
    BY <1>4, Zenon DEF CondSteps
  <2>2. ~Cond!CloseOut(i) /\ ~Cond!Done(i)
    BY Zenon DEF Cond!CloseOut, Cond!Done, Open, Leaving
  <2> QED
    BY <2>1, <2>2, Zenon DEF CondSegment, Cond!SegStep, Cond!Handoff, Cond!Accept, Cond!OfferDrop,
       Cond!Discard
<1>5. CASE FwdSubscribe
  BY <1>5, Zenon DEF FwdSubscribe, Cond!SubscribeSegment
<1>6. CASE FwdFromOut \/ FwdFromDrop
  BY <1>0, <1>6, Zenon DEF FwdFromOut, FwdFromDrop, Cond!Pull, Cond!PullDrop
<1> QED
  BY <1>1, <1>2, <1>3, <1>4, <1>5, <1>6, Frames, Zenon

(* The same for `then`.                                                    *)
LEMMA ThenOpen ==
    ASSUME "replay" \notin Kinds, IInv, Open(tPc, tClosed), [Next]_vars, ~CloseThen
    PROVE  Open(tPc', tClosed')
<1>0. /\ N \in Segs /\ 1 \in Segs /\ tPc \in [Segs -> Cond!Places]
      /\ \A i \in Segs : tKind[i] # "replay"
  <2>1. N \in Segs /\ 1 \in Segs
    BY BranchAssumption DEF Segs
  <2>2. tPc \in [Segs -> Cond!Places] /\ tKind \in [Segs -> Kinds]
    BY Zenon DEF IInv, PipesInv, PipeInv
  <2> QED
    BY <2>1, <2>2
<1> SUFFICES OpenStep(tPc, tClosed, tPc', tClosed')
  BY <1>0, StaysOpen, Zenon
<1> USE DEF OpenStep
<1>1. CASE UNCHANGED tVars
  BY <1>1, Zenon DEF tVars
<1>2. CASE FwdSend
  BY <1>0, <1>1, <1>2, Zenon DEF FwdSend, Then!Push
<1>3. CASE StartThen
  BY <1>0, <1>3, Zenon DEF StartThen, Then!StartSegment
<1>4. CASE ThenSteps
  <2>1. PICK i \in Segs : ThenSegment(i)
    BY <1>4, Zenon DEF ThenSteps
  <2>2. ~Then!CloseOut(i) /\ ~Then!Done(i)
    BY Zenon DEF Then!CloseOut, Then!Done, Open, Leaving
  <2> QED
    BY <2>1, <2>2, Zenon DEF ThenSegment, Then!SegStep, Then!Handoff, Then!Accept, Then!OfferDrop,
       Then!Discard
<1>5. CASE DrnSubscribe
  BY <1>1, <1>5, Zenon DEF DrnSubscribe, Then!SubscribeSegment
<1>6. CASE DrnFromOut \/ DrnFromDrop
  BY <1>0, <1>1, <1>6, Zenon DEF DrnFromOut, DrnFromDrop, Then!Pull, Then!PullDrop
<1> QED
  BY <1>1, <1>2, <1>3, <1>4, <1>5, <1>6, Frames, Zenon

(* The same for `else`.                                                    *)
LEMMA ElseOpen ==
    ASSUME "replay" \notin Kinds, IInv, Open(ePc, eClosed), [Next]_vars, ~CloseElse
    PROVE  Open(ePc', eClosed')
<1>0. /\ N \in Segs /\ 1 \in Segs /\ ePc \in [Segs -> Cond!Places]
      /\ \A i \in Segs : eKind[i] # "replay"
  <2>1. N \in Segs /\ 1 \in Segs
    BY BranchAssumption DEF Segs
  <2>2. ePc \in [Segs -> Cond!Places] /\ eKind \in [Segs -> Kinds]
    BY Zenon DEF IInv, PipesInv, PipeInv
  <2> QED
    BY <2>1, <2>2
<1> SUFFICES OpenStep(ePc, eClosed, ePc', eClosed')
  BY <1>0, StaysOpen, Zenon
<1> USE DEF OpenStep
<1>1. CASE UNCHANGED eVars
  BY <1>1, Zenon DEF eVars
<1>2. CASE FwdSend
  BY <1>0, <1>1, <1>2, ZenonT(30) DEF FwdSend, Else!Push
<1>3. CASE StartElse
  BY <1>0, <1>3, Zenon DEF StartElse, Else!StartSegment
<1>4. CASE ElseSteps
  <2>1. PICK i \in Segs : ElseSegment(i)
    BY <1>4, Zenon DEF ElseSteps
  <2>2. ~Else!CloseOut(i) /\ ~Else!Done(i)
    BY Zenon DEF Else!CloseOut, Else!Done, Open, Leaving
  <2> QED
    BY <2>1, <2>2, Zenon DEF ElseSegment, Else!SegStep, Else!Handoff, Else!Accept, Else!OfferDrop,
       Else!Discard
<1>5. CASE DrnSubscribe
  BY <1>1, <1>5, Zenon DEF DrnSubscribe, Else!SubscribeSegment
<1>6. CASE DrnFromOut \/ DrnFromDrop
  BY <1>0, <1>1, <1>6, Zenon DEF DrnFromOut, DrnFromDrop, Else!Pull, Else!PullDrop
<1> QED
  BY <1>1, <1>2, <1>3, <1>4, <1>5, <1>6, Frames, ZenonT(30)

(* The goroutines of the branch leave their loops only when Run closes the *)
(* pipelines.                                                              *)
LEMMA NextOpen ==
    ASSUME "replay" \notin Kinds, IInv, OpenInv, [Next]_vars
    PROVE  OpenInv'
<1>0. /\ N \in 1..N /\ run \in RunPlaces /\ drn \in DrnPlaces /\ bypass \in BOOLEAN /\ wired \in BOOLEAN
      /\ outClosed => run \in {"closeDrops", "exited"}
  BY BranchAssumption DEF IInv, HandsInv, CloseInv
<1>1. drn' = <<"toDrops">> => wired'
  <2>1. wired' = wired
    BY Frames, Zenon DEF rest, Panic
  <2>2. CASE Drain
    BY <2>1, <2>2, Labels, Zenon DEF OpenInv, Drain, DrnSubscribe, DrnFromOut, DrnFromDrop, DrnEndClosed, DrnSend
  <2> QED
    BY <2>1, <2>2, Frames, Zenon DEF OpenInv, drnVars
<1>2. fwd' # <<"exited">>
  <2>1. CASE Forward
    BY <2>1, Labels, Zenon DEF OpenInv, Forward, FwdSubscribe, FwdFromOut, FwdOutClosed, FwdFromDrop, FwdSend
  <2> QED
    BY <2>1, Frames, Zenon DEF OpenInv, fwdVars
<1>3. ASSUME run' \in {"recv", "send"}
      PROVE  /\ ~crashed' /\ ~dropsClosed' /\ fwdOut' = "open" /\ drn' # <<"exited">>
             /\ Open(cPc, cClosed)' /\ Open(tPc, tClosed)' /\ Open(ePc, eClosed)'
  <2>1. run \in {"recv", "send"} /\ ~Defer
    BY <1>3, Frames, Zenon DEF runVars, ReceiveIn, SendToCondition, Defer, CloseCondition, CloseThen,
       CloseElse, CloseOut, CloseDrops
  <2>2. /\ ~crashed /\ ~dropsClosed /\ fwdOut = "open" /\ drn # <<"exited">>
        /\ Open(cPc, cClosed) /\ Open(tPc, tClosed) /\ Open(ePc, eClosed)
        /\ ~outClosed
    BY <1>0, <2>1, Zenon DEF OpenInv
  <2>3. Open(cPc, cClosed)' /\ Open(tPc, tClosed)' /\ Open(ePc, eClosed)'
    BY <2>1, <2>2, CondOpen, ThenOpen, ElseOpen, Zenon DEF Defer
  <2>4. ~crashed'
    <3>1. ~Panic
      BY <2>2, Zenon DEF Panic, SendsOnClosed, Open
    <3> QED
      BY <2>2, <3>1, Frames, Zenon DEF rest
  <2>5. ~dropsClosed'
    BY <2>1, <2>2, Frames, Zenon DEF Defer, outVars
  <2>6. fwdOut' = "open"
    <3>1. ~FwdOutClosed
      BY <2>2, Zenon DEF FwdOutClosed, Open
    <3> QED
      BY <2>2, <3>1, Frames, Zenon DEF Forward, FwdSubscribe, FwdFromOut, FwdFromDrop, FwdSend, fwdVars
  <2>7. drn' # <<"exited">>
    <3>1. ~DrnEndClosed
      BY <2>2, Zenon DEF DrnEndClosed, Open
    <3>2. CASE Drain
      BY <3>1, <3>2, Labels, ZenonT(30) DEF Drain, DrnSubscribe, DrnFromOut, DrnFromDrop, DrnSend
    <3> QED
      BY <2>2, <3>2, Frames, Zenon DEF drnVars
  <2> QED
    BY <2>3, <2>4, <2>5, <2>6, <2>7, SMTT(30)
<1> QED
  BY <1>1, <1>2, <1>3, Zenon DEF OpenInv

WF == INSTANCE WellFoundedInduction

(* A set of numbers has a least element: the induction along a chain.      *)
LEMMA LeastNat ==
    ASSUME NEW T, T \subseteq Nat, T # {}
    PROVE  \E m \in T : \A n \in T : m <= n
<1> DEFINE R == WF!OpToRel(<, Nat)
<1>1. WF!IsWellFoundedOn(R, Nat)
  BY WF!NatLessThanWellFounded, Zenon
<1>2. \A x, y \in Nat : <<y, x>> \in R <=> y < x
  BY DEF WF!OpToRel
<1> HIDE DEF R
<1>3. PICK m \in T : \A n \in T : ~(<<n, m>> \in R)
  BY <1>1, WF!WFMin, Zenon
<1>4. \A n \in T : ~(n < m)
  BY <1>2, <1>3, Zenon
<1>5. m \in Nat /\ \A n \in T : n \in Nat
  OBVIOUS
<1> QED
  BY <1>4, <1>5

(* In an open pipeline that holds a flow some segment can step, if its     *)
(* ends are read: the last segment that is at its send finds the next one  *)
(* at the receive, unless that one can step itself.                        *)
LEMMA ChainMoves ==
    ASSUME NEW pc \in [Segs -> Cond!Places], NEW held,
           \A i \in Segs : pc[i] \notin Leaving,
           \A i \in Segs : held[i] # NoFlow <=> pc[i] \in Busy,
           Inside(held) # {}
    PROVE  \E i \in Segs : \/ pc[i] \in {"new", "work", "drop"}
                           \/ pc[i] = "send" /\ (i = N \/ pc[i + 1] = "recv")
<1> DEFINE S == {i \in Segs : pc[i] = "send"}
           T == {N - i : i \in S}
<1>1. CASE S = {}
  <2>1. PICK i \in Segs : held[i] # NoFlow
    BY Zenon DEF Inside
  <2>2. pc[i] \in Busy /\ pc[i] # "send"
    BY <1>1, <2>1, Zenon
  <2> QED
    BY <2>2, Zenon DEF Busy
<1>2. CASE S # {}
  <2>1. T \subseteq Nat /\ T # {}
    BY <1>2, BranchAssumption DEF Segs
  <2>2. PICK m \in T : \A n \in T : m <= n
    BY <2>1, LeastNat, Zenon
  <2>3. PICK i \in S : m = N - i
    OBVIOUS
  <2>4. \A j \in S : j <= i
    <3>1. \A j \in S : m <= N - j
      BY <2>2
    <3> QED
      BY <2>3, <3>1, BranchAssumption, SMTT(30) DEF Segs
  <2>5. CASE i = N
    BY <2>3, <2>5, Zenon
  <2>6. CASE i # N
    <3>1. i + 1 \in Segs
      BY <2>3, <2>6, BranchAssumption, SMTT(30) DEF Segs
    <3>2. pc[i + 1] # "send"
      BY <2>3, <2>4, <3>1, BranchAssumption, SMTT(30) DEF Segs
    <3>3. pc[i + 1] \in Cond!Places
      BY <3>1, Zenon
    <3>4. pc[i + 1] \in {"new", "work", "drop", "recv"}
      BY <3>1, <3>2, <3>3, Zenon DEF Cond!Places, Leaving
    <3> QED
      BY <2>3, <3>1, <3>4, Zenon
  <2> QED
    BY <2>5, <2>6
<1> QED
  BY <1>1, <1>2

(* An open pipeline that has been started and is empty receives.           *)
LEMMA ChainReceives ==
    ASSUME NEW pc \in [Segs -> Cond!Places], NEW held,
           \A i \in Segs : pc[i] \notin Leaving,
           \A i \in Segs : held[i] # NoFlow <=> pc[i] \in Busy,
           Inside(held) = {}, \A i \in Segs : pc[i] # "new"
    PROVE  pc[1] = "recv"
<1>1. 1 \in Segs
  BY BranchAssumption DEF Segs
<1>2. held[1] = NoFlow
  BY <1>1, Zenon DEF Inside
<1>3. pc[1] \in Cond!Places
  BY <1>1, Zenon
<1> QED
  BY <1>1, <1>2, <1>3, Zenon DEF Cond!Places, Leaving, Busy

(* Whatever the number and the kinds of the segments in the three          *)
(* pipelines, as long as none of them gives up and In is open, no          *)
(* goroutine of the branch panics and they never wait in a circle: from    *)
(* drainOutput backwards, whoever a flow waits for can go on.              *)
THEOREM BranchNeverStuck ==
    ASSUME "replay" \notin Kinds
    PROVE  Spec => []NeverStuck
<1>1. Init => OpenInv
  <2> SUFFICES ASSUME Init PROVE OpenInv
    OBVIOUS
  <2>1. Open(cPc, cClosed) /\ Open(tPc, tClosed) /\ Open(ePc, eClosed)
    BY DEF Init, Cond!PipeInit, Then!PipeInit, Else!PipeInit, Open, Leaving, Segs, Cond!Segs,
       Then!Segs, Else!Segs
  <2> QED
    BY <2>1, Labels, Zenon DEF Init, OpenInv
<1>2. IInv /\ OpenInv /\ [Next]_vars => OpenInv'
  BY NextOpen
<1>3. IInv /\ OpenInv => NeverStuck
  <2> SUFFICES ASSUME IInv, OpenInv, run \in {"recv", "send"}, SomeFlowInside
               PROVE  NeverStuck
    BY Zenon DEF NeverStuck, OpenInv
  <2>1. /\ ~crashed /\ ~dropsClosed /\ ~outClosed /\ fwdOut = "open"
        /\ 0 \notin cClosed /\ 0 \notin tClosed /\ 0 \notin eClosed
        /\ drn # <<"exited">> /\ fwd # <<"exited">> /\ (drn = <<"toDrops">> => wired)
    BY Zenon DEF OpenInv, IInv, CloseInv, Open
  <2>2. /\ fwd \in FwdPlaces /\ drn \in DrnPlaces
        /\ run = "send" \/ runMsg = NoFlow
        /\ fwd = <<"select">> => fwdMsg = NoFlow
        /\ drn = <<"select">> => drnMsg = NoFlow
    BY Labels, Zenon DEF IInv, HandsInv
  <2>3. /\ cPc \in [Segs -> Cond!Places] /\ tPc \in [Segs -> Cond!Places] /\ ePc \in [Segs -> Cond!Places]
        /\ \A i \in Segs : cPc[i] \notin Leaving /\ (cHeld[i] # NoFlow <=> cPc[i] \in Busy)
        /\ \A i \in Segs : tPc[i] \notin Leaving /\ (tHeld[i] # NoFlow <=> tPc[i] \in Busy)
        /\ \A i \in Segs : ePc[i] \notin Leaving /\ (eHeld[i] # NoFlow <=> ePc[i] \in Busy)
    BY Zenon DEF OpenInv, Open, IInv, PipesInv, PipeInv
  <2>4. CASE drn # <<"select">>
    BY <2>1, <2>2, <2>4, Zenon DEF NeverStuck, DrnPlaces
  <2>5. CASE /\ drn = <<"select">>
             /\ \/ Inside(tHeld) # {} \/ Inside(eHeld) # {}
                \/ \E i \in Segs : tPc[i] = "new" \/ ePc[i] = "new" \/ cPc[i] = "new"
    <3>1. CASE Inside(tHeld) # {}
      <4>1. PICK i \in Segs : \/ tPc[i] \in {"new", "work", "drop"}
                              \/ tPc[i] = "send" /\ (i = N \/ tPc[i + 1] = "recv")
        BY <2>3, <3>1, ChainMoves, Zenon
      <4>2. CanStep(tPc, i, drn = <<"select">>, drn = <<"select">>)
        BY <2>5, <4>1, Zenon DEF CanStep
      <4> QED
        BY <2>1, <4>2, Zenon DEF NeverStuck
    <3>2. CASE Inside(eHeld) # {}
      <4>1. PICK i \in Segs : \/ ePc[i] \in {"new", "work", "drop"}
                              \/ ePc[i] = "send" /\ (i = N \/ ePc[i + 1] = "recv")
        BY <2>3, <3>2, ChainMoves, Zenon
      <4>2. CanStep(ePc, i, drn = <<"select">>, drn = <<"select">>)
        BY <2>5, <4>1, Zenon DEF CanStep
      <4> QED
        BY <2>1, <4>2, Zenon DEF NeverStuck
    <3>3. CASE \E i \in Segs : tPc[i] = "new" \/ ePc[i] = "new" \/ cPc[i] = "new"
      BY <2>1, <3>3, Zenon DEF NeverStuck, CanStep
    <3> QED
      BY <2>5, <3>1, <3>2, <3>3, Zenon
  <2>6. CASE /\ drn = <<"select">> /\ Inside(tHeld) = {} /\ Inside(eHeld) = {}
             /\ \A i \in Segs : tPc[i] # "new" /\ ePc[i] # "new" /\ cPc[i] # "new"
    <3>1. tPc[1] = "recv" /\ ePc[1] = "recv"
      BY <2>3, <2>6, ChainReceives, Zenon
    <3>2. CASE fwd # <<"select">>
      BY <2>1, <2>2, <3>1, <3>2, Zenon DEF NeverStuck, FwdPlaces
    <3>3. CASE fwd = <<"select">> /\ Inside(cHeld) # {}
      <4>1. PICK i \in Segs : \/ cPc[i] \in {"new", "work", "drop"}
                              \/ cPc[i] = "send" /\ (i = N \/ cPc[i + 1] = "recv")
        BY <2>3, <3>3, ChainMoves, Zenon
      <4>2. CanStep(cPc, i, fwd = <<"select">> /\ fwdOut = "open", fwd = <<"select">>)
        BY <2>1, <3>3, <4>1, Zenon DEF CanStep
      <4> QED
        BY <2>1, <4>2, Zenon DEF NeverStuck
    <3>4. CASE fwd = <<"select">> /\ Inside(cHeld) = {}
      <4>1. cPc[1] = "recv"
        BY <2>3, <2>6, <3>4, ChainReceives, Zenon
      <4>2. run = "send"
        BY <2>2, <2>6, <3>4 DEF SomeFlowInside
      <4> QED
        BY <2>1, <4>1, <4>2, Zenon DEF NeverStuck
    <3> QED
      BY <3>2, <3>3, <3>4, Zenon
  <2> QED
    BY <2>4, <2>5, <2>6, Zenon
<1> QED
  BY <1>1, <1>2, <1>3, InitInv, InvStep, PTL DEF Spec
=============================================================================

------------------------- MODULE FlowPipeline_proof -------------------------
(***************************************************************************)
(* Proofs about FlowPipeline for every number N of segments, every list of *)
(* segment kinds and every number of flows.                                *)
(***************************************************************************)
EXTENDS FlowPipeline, FiniteSetTheorems, TLAPS

Busy == {"work", "send", "drop"}

(* The segments that have been started and have not returned.              *)
Running == {i \in Segs : pc[i] \notin {"new", "exited"}}

(* Segments are started in order, and all of them before Start returns.    *)
StartInv ==
    /\ \A i, j \in Segs : i < j /\ pc[j] # "new" => pc[i] # "new"
    /\ owner # "starting" => \A i \in Segs : pc[i] # "new"

(* A segment holds a message exactly between its receive and its send.     *)
HeldInv == \A i \in Segs : held[i] # NoFlow <=> pc[i] \in Busy

(* The owner begins to feed a flow only below the bound.                   *)
FeedInv == owner = "feeding" => produced[0] < MaxFlows

(* Each channel is closed by its only sender, when it stops.               *)
ClosedInv ==
    /\ \A i \in Segs : i \in closed <=> pc[i] \in {"done", "exited"}
    /\ 0 \in closed => owner \in {"closing", "waiting", "closed", "killed"}
    /\ \A i \in Segs : pc[i] = "quit" => kind[i] = "replay"

(* The wait group counts the running segments.                             *)
WgInv == wg = Cardinality(Running)

(* The flows inside, by their source: a source puts flows in at its own    *)
(* place, the later ones behind the earlier ones, and all of them behind   *)
(* those that have come out.                                               *)
QueueInv ==
    /\ \A i \in Segs : held[i] # NoFlow =>
          held[i].src \in 0..i /\ held[i].n \in 1..produced[held[i].src]
    /\ \A i, j \in Segs :
          i < j /\ held[i] # NoFlow /\ held[j] # NoFlow /\ held[i].src = held[j].src
              => held[j].n < held[i].n
    /\ \A k \in DOMAIN out :
          out[k].src \in Chans /\ out[k].n <= produced[out[k].src]
    /\ \A k \in DOMAIN out, i \in Segs :
          held[i] # NoFlow /\ out[k].src = held[i].src => out[k].n < held[i].n

(* With no segment that gives up early, the closed channels are the ones   *)
(* up to some place in the chain.                                          *)
PrefixInv ==
    /\ \A i \in Segs : kind[i] # "replay"
    /\ \A c \in closed, d \in Chans : d <= c => d \in closed

-----------------------------------------------------------------------------
(* Every state satisfies the type invariant.                               *)
LEMMA InitType == Init => TypeOK
  BY NAssumption, MaxFlowsAssumption, SMTT(30)
  DEF Init, PipeInit, TypeOK, PipeTypeOK, Segs, Chans, Places, OwnerPlaces

(* Steps keep the types: one case for each disjunct of Next.               *)
LEMMA NextType == TypeOK /\ HeldInv /\ FeedInv /\ [Next]_vars => TypeOK'
<1> SUFFICES ASSUME TypeOK, HeldInv, FeedInv, [Next]_vars PROVE TypeOK'
  OBVIOUS
<1> USE NAssumption, MaxFlowsAssumption
    DEF TypeOK, PipeTypeOK, Segs, Chans, Places, OwnerPlaces
<1>1. CASE \E i \in Segs : Start(i)
  BY <1>1 DEF Start, StartSegment, flowVars
<1>2. CASE AutoDrain \/ Feed \/ Interrupt \/ Shutdown \/ WaitReturns \/ CloseAgain
           \/ ForceQuit \/ DrainEnd \/ GetDrop
  <2> USE DEF pipeVars, flowVars
  <2>1. CASE AutoDrain \/ Feed \/ WaitReturns \/ CloseAgain \/ ForceQuit
    BY <2>1, Zenon DEF AutoDrain, Feed, WaitReturns, CloseAgain, ForceQuit
  <2>2. CASE Interrupt
    BY <2>2 DEF Interrupt
  <2>3. CASE Shutdown
    BY <2>3 DEF Shutdown
  <2>4. CASE DrainEnd
    BY <2>4 DEF DrainEnd
  <2>5. CASE GetDrop
    BY <2>5 DEF GetDrop
  <2> QED
    BY <1>2, <2>1, <2>2, <2>3, <2>4, <2>5, Zenon
<1>3. CASE Fed
  <2>1. NextFlow(0) \in Flow
    BY DEF NextFlow, Flow
  <2>2. produced' \in [Chans -> 0..MaxFlows]
    BY <1>3 DEF Fed, FeedInv
  <2> QED
    BY <1>3, <2>1, <2>2 DEF Fed, Push
<1>4. CASE Close
  BY <1>4 DEF Close, CloseIn, flowVars
<1>5. CASE Killed \/ UNCHANGED vars
  BY <1>5, Zenon DEF Killed, vars, pipeVars, envVars, flowVars
<1>6. CASE DrainOne
  <2>1. held[N] \in Flow
    BY <1>6 DEF DrainOne, Pull, HeldInv, Busy
  <2>2. out' \in Seq(Flow)
    BY <1>6, <2>1 DEF DrainOne
  <2> QED
    BY <1>6, <2>2 DEF DrainOne, Pull, envVars
<1>7. CASE SubscribeNext
  BY <1>7, SMTT(30) DEF SubscribeNext, SubscribeSegment, flowVars
<1>8. ASSUME NEW i \in Segs, TakeDrop(i) PROVE TypeOK'
  <2>1. held[i] \in Flow
    BY <1>8 DEF TakeDrop, PullDrop, HeldInv, Busy
  <2> QED
    BY <1>8, <2>1 DEF TakeDrop, PullDrop, envVars
<1>9. ASSUME NEW i \in Segs, GenerateFlow(i) PROVE TypeOK'
  <2>1. NextFlow(i) \in Flow
    BY DEF NextFlow, Flow
  <2>2. produced' \in [Chans -> 0..MaxFlows]
    BY <1>9 DEF GenerateFlow
  <2> QED
    BY <1>9, <2>1, <2>2 DEF GenerateFlow, Generate, envVars
<1>10. ASSUME NEW i \in Segs, DiscardFlow(i) PROVE TypeOK'
  <2>1. held[i] \in Flow
    BY <1>10 DEF DiscardFlow, Discard, HeldInv, Busy
  <2> QED
    BY <1>10, <2>1 DEF DiscardFlow, Discard, envVars
<1>11. ASSUME NEW i \in Segs, Run(i) PROVE TypeOK'
  <2> USE DEF envVars, flowVars
  <2>1. CASE Handoff(i)
    <3>1. i + 1 \in Segs
      BY <2>1 DEF Handoff
    <3>2. pc' \in [Segs -> Places] /\ held' \in [Segs -> Flow \cup {NoFlow}]
      BY <2>1, <3>1, Zenon DEF Handoff
    <3> QED
      BY <1>11, <2>1, <3>2, Zenon DEF Run, Handoff
  <2>2. CASE Accept(i) \/ OfferDrop(i)
    BY <1>11, <2>2, Zenon DEF Run, Accept, OfferDrop
  <2>3. CASE CloseOut(i)
    BY <1>11, <2>3 DEF Run, CloseOut
  <2>4. CASE Done(i)
    BY <1>11, <2>4 DEF Run, Done
  <2> QED
    BY <1>11, <2>1, <2>2, <2>3, <2>4, Zenon DEF Run, SegStep
<1> QED
  BY <1>1, <1>2, <1>3, <1>4, <1>5, <1>6, <1>7, <1>8, <1>9, <1>10, <1>11, Zenon DEF Next

(* The steps that touch neither a segment, a channel nor a flow.           *)
OwnerStep ==
    AutoDrain \/ Feed \/ Interrupt \/ Shutdown \/ WaitReturns \/ CloseAgain
    \/ ForceQuit \/ DrainEnd \/ GetDrop \/ Killed \/ UNCHANGED vars

LEMMA OwnerStepKeeps == OwnerStep => UNCHANGED <<pipeVars, flowVars>>
  BY DEF OwnerStep, AutoDrain, Feed, Interrupt, Shutdown, WaitReturns, CloseAgain,
         ForceQuit, DrainEnd, GetDrop, Killed, vars

(* What any step is, segment steps named one by one.                       *)
LEMMA StepCases ==
    ASSUME [Next]_vars
    PROVE  \/ OwnerStep \/ Fed \/ Close \/ DrainOne \/ SubscribeNext
           \/ \E i \in Segs :
                 \/ Start(i) \/ TakeDrop(i) \/ GenerateFlow(i) \/ DiscardFlow(i)
                 \/ Run(i) /\ Handoff(i)
                 \/ Run(i) /\ Accept(i)
                 \/ Run(i) /\ OfferDrop(i)
                 \/ Run(i) /\ CloseOut(i)
                 \/ Run(i) /\ Done(i)
  BY DEF Next, OwnerStep, Run, SegStep

LEMMA NextHeld == TypeOK /\ HeldInv /\ FeedInv /\ [Next]_vars => HeldInv' /\ FeedInv'
<1> SUFFICES ASSUME TypeOK, HeldInv, FeedInv, [Next]_vars PROVE HeldInv' /\ FeedInv'
  OBVIOUS
<1> USE NAssumption, MaxFlowsAssumption
    DEF TypeOK, PipeTypeOK, Segs, Chans, HeldInv, FeedInv, Busy, Flow, NoFlow
<1>1. CASE OwnerStep
  <2>1. HeldInv'
    BY <1>1, OwnerStepKeeps DEF pipeVars
  <2>2. FeedInv'
    BY <1>1 DEF OwnerStep, AutoDrain, Feed, Interrupt, Shutdown, WaitReturns, CloseAgain,
         ForceQuit, DrainEnd, GetDrop, Killed, vars, envVars, flowVars
  <2> QED
    BY <2>1, <2>2
<1>2. CASE Fed
  BY <1>2 DEF Fed, Push, NextFlow
<1>3. CASE Close
  BY <1>3 DEF Close, CloseIn
<1>4. CASE DrainOne
  BY <1>4 DEF DrainOne, Pull, envVars
<1>5. CASE SubscribeNext
  BY <1>5 DEF SubscribeNext, SubscribeSegment, flowVars
<1>6. ASSUME NEW i \in Segs,
             Start(i) \/ TakeDrop(i) \/ GenerateFlow(i) \/ DiscardFlow(i)
      PROVE  HeldInv' /\ FeedInv'
  <2>1. CASE Start(i)
    BY <2>1 DEF Start, StartSegment, flowVars
  <2>2. CASE TakeDrop(i)
    BY <2>2 DEF TakeDrop, PullDrop, envVars
  <2>3. CASE GenerateFlow(i)
    BY <2>3 DEF GenerateFlow, Generate, NextFlow, envVars
  <2>4. CASE DiscardFlow(i)
    BY <2>4 DEF DiscardFlow, Discard, envVars
  <2> QED
    BY <1>6, <2>1, <2>2, <2>3, <2>4
<1>7. ASSUME NEW i \in Segs, Run(i),
             Handoff(i) \/ Accept(i) \/ OfferDrop(i) \/ CloseOut(i) \/ Done(i)
      PROVE  HeldInv' /\ FeedInv'
  <2>1. FeedInv'
    BY <1>7 DEF Run, envVars, flowVars
  <2>2. CASE Handoff(i)
    BY <2>1, <2>2, Zenon DEF Handoff
  <2>3. CASE Accept(i) \/ OfferDrop(i) \/ CloseOut(i) \/ Done(i)
    BY <2>1, <2>3, Zenon DEF Accept, OfferDrop, CloseOut, Done
  <2> QED
    BY <1>7, <2>2, <2>3
<1> QED
  BY <1>1, <1>2, <1>3, <1>4, <1>5, <1>6, <1>7, StepCases

(* The type invariant of the pipeline and of those who use it holds in     *)
(* every reachable state, for every chain of segments.                     *)
THEOREM TypeCorrect == Spec => []TypeOK
<1>1. Init => TypeOK /\ HeldInv /\ FeedInv
  BY InitType, NAssumption
  DEF Init, PipeInit, HeldInv, FeedInv, Busy, Segs, Chans
<1>2. TypeOK /\ HeldInv /\ FeedInv /\ [Next]_vars => (TypeOK /\ HeldInv /\ FeedInv)'
  BY NextType, NextHeld
<1> QED
  BY <1>1, <1>2, PTL DEF Spec

-----------------------------------------------------------------------------
(* Starting, closing and counting the goroutines.                          *)

LEMMA NextStart ==
    TypeOK /\ StartInv /\ [Next]_vars => StartInv'
<1> SUFFICES ASSUME TypeOK, StartInv, [Next]_vars PROVE StartInv'
  OBVIOUS
<1> USE NAssumption DEF TypeOK, PipeTypeOK, Segs, StartInv
<1>1. CASE OwnerStep
  <2>1. owner = "starting" => owner' = "starting"
    BY <1>1 DEF OwnerStep, AutoDrain, Feed, Interrupt, Shutdown, WaitReturns, CloseAgain,
         ForceQuit, DrainEnd, GetDrop, Killed, vars, envVars
  <2> QED
    BY <1>1, <2>1, OwnerStepKeeps DEF pipeVars
<1>2. CASE Fed
  BY <1>2 DEF Fed, Push
<1>3. CASE Close
  BY <1>3 DEF Close, CloseIn
<1>4. CASE DrainOne
  BY <1>4 DEF DrainOne, Pull, envVars
<1>5. CASE SubscribeNext
  BY <1>5 DEF SubscribeNext, SubscribeSegment
<1>6. ASSUME NEW i \in Segs,
             Start(i) \/ TakeDrop(i) \/ GenerateFlow(i) \/ DiscardFlow(i)
      PROVE  StartInv'
  <2>1. CASE Start(i)
    BY <2>1 DEF Start, StartSegment
  <2>2. CASE TakeDrop(i)
    BY <2>2 DEF TakeDrop, PullDrop, envVars
  <2>3. CASE GenerateFlow(i)
    BY <2>3 DEF GenerateFlow, Generate, envVars
  <2>4. CASE DiscardFlow(i)
    BY <2>4 DEF DiscardFlow, Discard, envVars
  <2> QED
    BY <1>6, <2>1, <2>2, <2>3, <2>4
<1>7. ASSUME NEW i \in Segs, Run(i),
             Handoff(i) \/ Accept(i) \/ OfferDrop(i) \/ CloseOut(i) \/ Done(i)
      PROVE  StartInv'
  BY <1>7 DEF Run, envVars, Handoff, Accept, OfferDrop, CloseOut, Done
<1> QED
  BY <1>1, <1>2, <1>3, <1>4, <1>5, <1>6, <1>7, StepCases

LEMMA NextClosed ==
    TypeOK /\ ClosedInv /\ [Next]_vars => ClosedInv'
<1> SUFFICES ASSUME TypeOK, ClosedInv, [Next]_vars PROVE ClosedInv'
  OBVIOUS
<1> USE NAssumption DEF TypeOK, PipeTypeOK, Segs, Chans, ClosedInv
<1>1. CASE OwnerStep
  <2>1. owner \in {"closing", "waiting", "closed", "killed"}
            => owner' \in {"closing", "waiting", "closed", "killed"}
    BY <1>1 DEF OwnerStep, AutoDrain, Feed, Interrupt, Shutdown, WaitReturns, CloseAgain,
         ForceQuit, DrainEnd, GetDrop, Killed, vars, envVars
  <2> QED
    BY <1>1, <2>1, OwnerStepKeeps DEF pipeVars
<1>2. CASE Fed
  BY <1>2 DEF Fed, Push
<1>3. CASE Close
  BY <1>3 DEF Close, CloseIn
<1>4. CASE DrainOne
  BY <1>4 DEF DrainOne, Pull, envVars
<1>5. CASE SubscribeNext
  BY <1>5 DEF SubscribeNext, SubscribeSegment
<1>6. ASSUME NEW i \in Segs,
             Start(i) \/ TakeDrop(i) \/ GenerateFlow(i) \/ DiscardFlow(i)
      PROVE  ClosedInv'
  <2>1. CASE Start(i)
    BY <2>1 DEF Start, StartSegment
  <2>2. CASE TakeDrop(i)
    BY <2>2 DEF TakeDrop, PullDrop, envVars
  <2>3. CASE GenerateFlow(i)
    BY <2>3 DEF GenerateFlow, Generate, envVars
  <2>4. CASE DiscardFlow(i)
    BY <2>4 DEF DiscardFlow, Discard, envVars
  <2> QED
    BY <1>6, <2>1, <2>2, <2>3, <2>4
<1>7. ASSUME NEW i \in Segs, Run(i),
             Handoff(i) \/ Accept(i) \/ OfferDrop(i) \/ CloseOut(i) \/ Done(i)
      PROVE  ClosedInv'
  <2>1. owner' = owner /\ kind' = kind
    BY <1>7 DEF Run, envVars, Handoff, Accept, OfferDrop, CloseOut, Done
  <2>2. CASE Handoff(i)
    BY <2>1, <2>2, Zenon DEF Handoff
  <2>3. CASE Accept(i) \/ OfferDrop(i)
    BY <2>1, <2>3, Zenon DEF Accept, OfferDrop
  <2>4. CASE CloseOut(i)
    BY <2>1, <2>4 DEF CloseOut
  <2>5. CASE Done(i)
    BY <2>1, <2>5 DEF Done
  <2> QED
    BY <1>7, <2>2, <2>3, <2>4, <2>5
<1> QED
  BY <1>1, <1>2, <1>3, <1>4, <1>5, <1>6, <1>7, StepCases, Zenon

LEMMA RunningFinite == TypeOK => IsFiniteSet(Running) /\ Cardinality(Running) \in Nat
<1>1. IsFiniteSet(Segs)
  BY FS_Interval, NAssumption DEF Segs
<1>2. Running \subseteq Segs
  BY Zenon DEF Running
<1> QED
  BY <1>1, <1>2, FS_Subset, FS_CardinalityType

LEMMA NextWg ==
    TypeOK /\ WgInv /\ [Next]_vars => WgInv'
<1> SUFFICES ASSUME TypeOK, WgInv, [Next]_vars PROVE WgInv'
  OBVIOUS
<1> IsFiniteSet(Running) /\ Cardinality(Running) \in Nat
  BY RunningFinite
<1>1. SUFFICES \/ Running' = Running /\ wg' = wg
               \/ \E i \in Segs : i \notin Running /\ Running' = Running \cup {i} /\ wg' = wg + 1
               \/ \E i \in Segs : i \in Running /\ Running' = Running \ {i} /\ wg' = wg - 1
  <2>1. CASE Running' = Running /\ wg' = wg
    BY <2>1 DEF WgInv
  <2>2. ASSUME NEW i \in Segs, i \notin Running, Running' = Running \cup {i}, wg' = wg + 1
        PROVE  WgInv'
    <3>1. Cardinality(Running \cup {i}) = Cardinality(Running) + 1
      BY <2>2, FS_AddElement, Zenon
    <3> QED
      BY <2>2, <3>1 DEF WgInv
  <2>3. ASSUME NEW i \in Segs, i \in Running, Running' = Running \ {i}, wg' = wg - 1
        PROVE  WgInv'
    <3>1. Cardinality(Running \ {i}) = Cardinality(Running) - 1
      BY <2>3, FS_RemoveElement
    <3> QED
      BY <2>3, <3>1 DEF WgInv
  <2> QED
    BY <1>1, <2>1, <2>2, <2>3
<1> USE DEF Running, TypeOK, PipeTypeOK
<1>2. CASE OwnerStep
  BY <1>2, OwnerStepKeeps DEF pipeVars
<1>3. CASE Fed
  BY <1>3 DEF Fed, Push
<1>4. CASE Close
  BY <1>4 DEF Close, CloseIn
<1>5. CASE DrainOne
  BY <1>5 DEF DrainOne, Pull
<1>6. CASE SubscribeNext
  BY <1>6 DEF SubscribeNext, SubscribeSegment
<1>7. ASSUME NEW i \in Segs, Start(i)
      PROVE  i \notin Running /\ Running' = Running \cup {i} /\ wg' = wg + 1
  BY <1>7 DEF Start, StartSegment
<1>8. ASSUME NEW i \in Segs, TakeDrop(i) \/ GenerateFlow(i) \/ DiscardFlow(i)
      PROVE  Running' = Running /\ wg' = wg
  BY <1>8 DEF TakeDrop, PullDrop, GenerateFlow, Generate, DiscardFlow, Discard
<1>9. ASSUME NEW i \in Segs, Handoff(i)
      PROVE  Running' = Running /\ wg' = wg
  BY <1>9, NAssumption DEF Handoff, Segs
<1>10. ASSUME NEW i \in Segs, Accept(i) \/ OfferDrop(i) \/ CloseOut(i)
      PROVE  Running' = Running /\ wg' = wg
  BY <1>10 DEF Accept, OfferDrop, CloseOut
<1>11. ASSUME NEW i \in Segs, Done(i)
      PROVE  i \in Running /\ Running' = Running \ {i} /\ wg' = wg - 1
  BY <1>11 DEF Done
<1> QED
  BY <1>2, <1>3, <1>4, <1>5, <1>6, <1>7, <1>8, <1>9, <1>10, <1>11, StepCases, Zenon

(* When Close returns: the wait group is at zero, so nobody runs, and all  *)
(* segments had been started.                                              *)
LEMMA NextCloseWaits ==
    TypeOK /\ StartInv /\ HeldInv /\ ClosedInv /\ WgInv /\ CloseWaitsForAll
        /\ [Next]_vars => CloseWaitsForAll'
<1> SUFFICES ASSUME TypeOK, StartInv, HeldInv, ClosedInv, WgInv, CloseWaitsForAll,
                    [Next]_vars, owner' = "closed"
             PROVE  /\ \A i \in Segs : pc'[i] = "exited"
                    /\ N \in closed'
                    /\ InFlight' = {}
  BY DEF CloseWaitsForAll
<1> USE NAssumption DEF TypeOK, PipeTypeOK
<1>1. SUFFICES ASSUME \A i \in Segs : pc[i] = "exited",
                      pc' = pc, held' = held, closed' = closed
               PROVE  N \in closed /\ InFlight = {}
  <2>1. CASE owner = "closed"
    <3>1. \A i \in Segs : pc[i] = "exited"
      BY <2>1, SMTT(30) DEF CloseWaitsForAll
    <3>2. pc' = pc /\ held' = held /\ closed' = closed
      <4>1. CASE OwnerStep
        BY <4>1, OwnerStepKeeps DEF pipeVars
      <4>2. CASE Fed \/ Close
        BY <4>2, <2>1 DEF Fed, Close
      <4>3. CASE DrainOne
        BY <4>3, <3>1 DEF DrainOne, Pull, Segs
      <4>4. CASE SubscribeNext
        BY <4>4 DEF SubscribeNext, SubscribeSegment
      <4>5. ASSUME NEW i \in Segs, pc[i] # "exited" PROVE FALSE
        BY <3>1, <4>5
      <4> QED
        BY <4>1, <4>2, <4>3, <4>4, <4>5, StepCases
        DEF Start, StartSegment, TakeDrop, PullDrop, GenerateFlow, Generate,
            DiscardFlow, Discard, Handoff, Accept, OfferDrop, CloseOut, Done
    <3> QED
      BY <1>1, <3>1, <3>2, Zenon DEF InFlight
  <2>2. CASE owner # "closed"
    <3>1. WaitReturns
      BY <2>2 DEF Next, Start, AutoDrain, Feed, Fed, Interrupt, Shutdown, Close, CloseAgain,
         ForceQuit, Killed, DrainOne, DrainEnd, GetDrop, SubscribeNext, TakeDrop,
         GenerateFlow, DiscardFlow, Run, vars, envVars
    <3>2. Cardinality(Running) = 0 /\ IsFiniteSet(Running)
      BY <3>1, RunningFinite DEF WaitReturns, WgInv
    <3>3. Running = {}
      BY <3>2, FS_EmptySet
    <3>4. \A i \in Segs : pc[i] = "exited"
      BY <3>1, <3>3 DEF WaitReturns, StartInv, Running
    <3> QED
      BY <1>1, <3>1, <3>4, ZenonT(30) DEF WaitReturns, pipeVars, InFlight
  <2> QED
    BY <2>1, <2>2
<1>2. N \in closed
  BY <1>1 DEF ClosedInv, Segs
<1>3. \A i \in Segs : held[i] = NoFlow
  BY <1>1, Zenon DEF HeldInv, Busy
<1> QED
  BY <1>2, <1>3 DEF InFlight

(* With no segment that gives up early, a channel is closed only after all *)
(* channels before it.                                                     *)
LEMMA NextPrefix ==
    TypeOK /\ ClosedInv /\ PrefixInv /\ [Next]_vars => PrefixInv'
<1> SUFFICES ASSUME TypeOK, ClosedInv, PrefixInv, [Next]_vars PROVE PrefixInv'
  OBVIOUS
<1> USE NAssumption DEF TypeOK, PipeTypeOK, Segs, Chans, PrefixInv
<1>1. CASE OwnerStep
  BY <1>1, OwnerStepKeeps, Zenon DEF pipeVars
<1>2. CASE Fed \/ DrainOne \/ SubscribeNext
  BY <1>2, Zenon DEF Fed, Push, DrainOne, Pull, SubscribeNext, SubscribeSegment
<1>3. CASE Close
  BY <1>3 DEF Close, CloseIn
<1>4. ASSUME NEW i \in Segs,
             \/ Start(i) \/ TakeDrop(i) \/ GenerateFlow(i) \/ DiscardFlow(i)
             \/ Handoff(i) \/ Accept(i) \/ OfferDrop(i) \/ Done(i)
      PROVE  PrefixInv'
  BY <1>4, Zenon DEF Start, StartSegment, TakeDrop, PullDrop, GenerateFlow, Generate,
              DiscardFlow, Discard, Handoff, Accept, OfferDrop, Done
<1>5. ASSUME NEW i \in Segs, CloseOut(i) PROVE PrefixInv'
  <2>1. i - 1 \in closed
    BY <1>5 DEF CloseOut, ClosedInv
  <2> QED
    BY <1>5, <2>1, SMTT(30) DEF CloseOut
<1> QED
  BY <1>1, <1>2, <1>3, <1>4, <1>5, StepCases, Zenon

(* The invariants above, together.                                         *)
BaseInv ==
    /\ TypeOK /\ HeldInv /\ FeedInv /\ StartInv /\ ClosedInv /\ WgInv
    /\ CloseWaitsForAll

LEMMA BaseInvariant == Spec => []BaseInv
<1>1. Init => BaseInv
  <2> SUFFICES ASSUME Init PROVE BaseInv
    OBVIOUS
  <2> USE NAssumption DEF Init, PipeInit, Segs, Chans
  <2>1. HeldInv /\ FeedInv /\ StartInv /\ ClosedInv /\ CloseWaitsForAll
    BY DEF HeldInv, FeedInv, StartInv, ClosedInv, CloseWaitsForAll, Busy
  <2>2. Running = {}
    BY DEF Running
  <2>3. WgInv
    BY <2>2, FS_EmptySet DEF WgInv
  <2> QED
    BY <2>1, <2>3, InitType DEF BaseInv
<1>2. BaseInv /\ [Next]_vars => BaseInv'
  BY NextType, NextHeld, NextStart, NextClosed, NextWg, NextCloseWaits DEF BaseInv
<1> QED
  BY <1>1, <1>2, PTL DEF Spec

(* No goroutine of the pipeline, and not its owner, ever sends on a closed *)
(* channel, whatever the segments are.                                     *)
THEOREM NeverSendsOnClosed == Spec => []NoSendOnClosed
<1>1. BaseInv => NoSendOnClosed
  BY DEF BaseInv, ClosedInv, NoSendOnClosed
<1> QED
  BY <1>1, BaseInvariant, PTL

(* Close() returns only after every goroutine of the pipeline, whatever    *)
(* the segments are.                                                       *)
THEOREM CloseIsComplete == Spec => []CloseWaitsForAll
<1>1. BaseInv => CloseWaitsForAll
  BY DEF BaseInv
<1> QED
  BY <1>1, BaseInvariant, PTL

(* The close event never overtakes a flow, in a chain in which no segment  *)
(* gives up before its input is closed.                                    *)
THEOREM CloseBehindFlows ==
    ASSUME "replay" \notin Kinds
    PROVE  Spec => []CloseFollowsFlows
<1>1. Init => PrefixInv
  BY DEF Init, PipeInit, PrefixInv
<1>2. BaseInv /\ PrefixInv /\ [Next]_vars => PrefixInv'
  BY NextPrefix DEF BaseInv
<1>3. BaseInv /\ PrefixInv => CloseFollowsFlows
  <2> SUFFICES ASSUME BaseInv, PrefixInv, NEW c \in closed, NEW i \in Segs, i <= c
               PROVE  pc[i] \in {"done", "exited"} /\ held[i] = NoFlow
    BY DEF CloseFollowsFlows
  <2>1. i \in closed
    BY NAssumption DEF PrefixInv, Segs, Chans
  <2> QED
    BY <2>1 DEF BaseInv, ClosedInv, HeldInv, Busy
<1> QED
  BY <1>1, <1>2, <1>3, BaseInvariant, PTL DEF Spec

(* Shutting down is orderly in such a chain: nothing is sent on a closed   *)
(* channel, no close overtakes a flow, and Close() returns last.           *)
THEOREM ClosingIsOrderly ==
    ASSUME "replay" \notin Kinds
    PROVE  Spec => []CloseIsOrderly
<1>1. Spec => []CloseFollowsFlows
  BY CloseBehindFlows
<1>2. NoSendOnClosed /\ CloseFollowsFlows /\ CloseWaitsForAll => CloseIsOrderly
  BY Zenon DEF CloseIsOrderly
<1> QED
  BY <1>1, <1>2, NeverSendsOnClosed, CloseIsComplete, PTL

-----------------------------------------------------------------------------
(* The flows.  Seen from the flows there are only five kinds of step.      *)

NoFlowMoves == UNCHANGED <<held, flowVars>>

EnterAt(i, s) ==
    /\ s \in 0..i /\ (s # i => i = 1)
    /\ held[i] = NoFlow
    /\ produced[s] < MaxFlows
    /\ held' = [held EXCEPT ![i] = NextFlow(s)]
    /\ produced' = [produced EXCEPT ![s] = @ + 1]
    /\ UNCHANGED <<out, dropped, discarded>>

MoveAt(i) ==
    /\ i + 1 \in Segs
    /\ held[i] # NoFlow /\ held[i + 1] = NoFlow
    /\ held' = [held EXCEPT ![i] = NoFlow, ![i + 1] = held[i]]
    /\ UNCHANGED flowVars

LeaveAtEnd ==
    /\ held[N] # NoFlow
    /\ held' = [held EXCEPT ![N] = NoFlow]
    /\ out' = Append(out, held[N])
    /\ UNCHANGED <<produced, dropped, discarded>>

RemoveAt(i) ==
    /\ held[i] # NoFlow
    /\ held' = [held EXCEPT ![i] = NoFlow]
    /\ \/ dropped' = dropped \cup {held[i]} /\ discarded' = discarded
       \/ discarded' = discarded \cup {held[i]} /\ dropped' = dropped
    /\ UNCHANGED <<produced, out>>

LEMMA FlowSteps ==
    ASSUME TypeOK, HeldInv, FeedInv, [Next]_vars
    PROVE  \/ NoFlowMoves
           \/ \E i \in Segs : \E s \in Chans : EnterAt(i, s)
           \/ \E i \in Segs : MoveAt(i)
           \/ LeaveAtEnd
           \/ \E i \in Segs : RemoveAt(i)
<1>0. \A i \in Segs : /\ pc[i] \in {"recv", "new", "quit"} => held[i] = NoFlow
                      /\ pc[i] \in {"work", "send", "drop"} => held[i] # NoFlow
  BY DEF HeldInv, Busy
<1> USE NAssumption DEF Segs, Chans
<1>1. CASE OwnerStep
  BY <1>1, OwnerStepKeeps DEF pipeVars, NoFlowMoves
<1>2. CASE Fed
  <2>1. EnterAt(1, 0)
    BY <1>0, <1>2 DEF Fed, Push, EnterAt, FeedInv
  <2> QED
    BY <2>1
<1>3. CASE Close
  BY <1>3 DEF Close, CloseIn, NoFlowMoves
<1>4. CASE DrainOne
  BY <1>0, <1>4 DEF DrainOne, Pull, LeaveAtEnd
<1>5. CASE SubscribeNext
  BY <1>5 DEF SubscribeNext, SubscribeSegment, NoFlowMoves
<1>6. ASSUME NEW i \in Segs, Start(i) PROVE NoFlowMoves
  BY <1>6 DEF Start, StartSegment, NoFlowMoves
<1>7. ASSUME NEW i \in Segs, TakeDrop(i) PROVE RemoveAt(i)
  BY <1>0, <1>7 DEF TakeDrop, PullDrop, RemoveAt
<1>8. ASSUME NEW i \in Segs, GenerateFlow(i) PROVE EnterAt(i, i)
  BY <1>0, <1>8 DEF GenerateFlow, Generate, EnterAt
<1>9. ASSUME NEW i \in Segs, DiscardFlow(i) PROVE RemoveAt(i)
  BY <1>0, <1>9 DEF DiscardFlow, Discard, RemoveAt
<1>10. ASSUME NEW i \in Segs, Run(i), Handoff(i) PROVE MoveAt(i)
  BY <1>0, <1>10 DEF Run, Handoff, MoveAt
<1>11. ASSUME NEW i \in Segs, Run(i), Accept(i) \/ OfferDrop(i) \/ CloseOut(i) \/ Done(i)
       PROVE  NoFlowMoves
  BY <1>11 DEF Run, Accept, OfferDrop, CloseOut, Done, NoFlowMoves
<1> QED
  BY <1>1, <1>2, <1>3, <1>4, <1>5, <1>6, <1>7, <1>8, <1>9, <1>10, <1>11, StepCases

(* The next flow of a source is a flow with the number after the last.     *)
LEMMA NextFlowIsNew ==
    ASSUME TypeOK, NEW s \in Chans
    PROVE  /\ NextFlow(s) \in Flow /\ NextFlow(s) # NoFlow
           /\ NextFlow(s).src = s /\ NextFlow(s).n = produced[s] + 1
  BY NAssumption, MaxFlowsAssumption DEF TypeOK, Chans, NextFlow, Flow, NoFlow

(* Flows of one source stay in line.                                       *)
LEMMA NextQueue ==
    TypeOK /\ HeldInv /\ FeedInv /\ QueueInv /\ [Next]_vars => QueueInv'
<1> SUFFICES ASSUME TypeOK, HeldInv, FeedInv, QueueInv, [Next]_vars PROVE QueueInv'
  BY Zenon
<1>0. /\ N \in Nat \ {0}
      /\ \A j \in Segs : held[j].src \in Nat /\ held[j].n \in Nat
      /\ \A k \in DOMAIN out : out[k] \in Flow /\ out[k].src \in Nat /\ out[k].n \in Nat
      /\ \A t \in Chans : produced[t] \in Nat
  <2>1. \A f \in Flow \cup {NoFlow} : f.src \in Nat /\ f.n \in Nat
    BY DEF Flow, NoFlow
  <2>2. \A k \in DOMAIN out : out[k] \in Flow
    BY DEF TypeOK
  <2> QED
    BY <2>1, <2>2, NAssumption, MaxFlowsAssumption DEF TypeOK, PipeTypeOK
<1> USE <1>0 DEF Segs, Chans, QueueInv
<1>1. CASE NoFlowMoves
  BY <1>1, Zenon DEF NoFlowMoves, flowVars
<1>2. ASSUME NEW i \in Segs, NEW s \in Chans, EnterAt(i, s) PROVE QueueInv'
  <2>1. /\ held'[i] = NextFlow(s)
        /\ \A j \in Segs \ {i} : held'[j] = held[j]
        /\ produced'[s] = produced[s] + 1
        /\ \A t \in Chans \ {s} : produced'[t] = produced[t]
        /\ out' = out
        /\ s = i \/ (s = 0 /\ i = 1)
    BY <1>2, SMTT(30) DEF EnterAt, TypeOK, PipeTypeOK
  <2>2. NextFlow(s).src = s /\ NextFlow(s).n = produced[s] + 1 /\ produced[s] \in Nat
    BY NextFlowIsNew, ZenonT(30)
  <2>3. (\A j \in Segs : held[j] # NoFlow =>
          held[j].src \in 0..j /\ held[j].n \in 1..produced[held[j].src])'
    BY <2>1, <2>2, SMTT(30)
  <2>4. (\A j, k \in Segs :
          j < k /\ held[j] # NoFlow /\ held[k] # NoFlow /\ held[j].src = held[k].src
              => held[k].n < held[j].n)'
    BY <2>1, <2>2, SMTT(30)
  <2>5. (\A k \in DOMAIN out :
          out[k].src \in Chans /\ out[k].n <= produced[out[k].src])'
    BY <2>1, <2>2, SMTT(30)
  <2>6. (\A k \in DOMAIN out, j \in Segs :
          held[j] # NoFlow /\ out[k].src = held[j].src => out[k].n < held[j].n)'
    BY <2>1, <2>2, SMTT(30)
  <2> QED
    BY <2>3, <2>4, <2>5, <2>6, ZenonT(30)
<1>3. ASSUME NEW i \in Segs, MoveAt(i) PROVE QueueInv'
  <2>1. /\ i + 1 \in Segs /\ held[i] # NoFlow /\ held[i + 1] = NoFlow
        /\ held'[i] = NoFlow /\ held'[i + 1] = held[i]
        /\ \A j \in Segs \ {i, i + 1} : held'[j] = held[j]
        /\ out' = out /\ produced' = produced
    BY <1>3, Zenon DEF MoveAt, flowVars, TypeOK, PipeTypeOK
  <2>2. (\A j \in Segs : held[j] # NoFlow =>
          held[j].src \in 0..j /\ held[j].n \in 1..produced[held[j].src])'
    <3> SUFFICES ASSUME NEW j \in Segs, held'[j] # NoFlow
                 PROVE  held'[j].src \in 0..j /\ held'[j].n \in 1..produced'[held'[j].src]
      BY ZenonT(30)
    <3>1. CASE j = i + 1
      <4>1. held'[j] = held[i] /\ held[i].src \in 0..i /\ held[i].n \in 1..produced[held[i].src]
        BY <2>1, <3>1, Zenon
      <4> QED
        BY <2>1, <3>1, <4>1, SMTT(30)
    <3>2. CASE j # i + 1
      <4>1. held'[j] = held[j]
        BY <2>1, <3>2, Zenon
      <4> QED
        BY <2>1, <4>1, Zenon
    <3> QED
      BY <3>1, <3>2, Zenon
  <2>3. (\A j, k \in Segs :
          j < k /\ held[j] # NoFlow /\ held[k] # NoFlow /\ held[j].src = held[k].src
              => held[k].n < held[j].n)'
    BY <2>1, SMTT(30)
  <2>4. (\A k \in DOMAIN out :
          out[k].src \in Chans /\ out[k].n <= produced[out[k].src])'
    BY <2>1, Zenon
  <2>5. (\A k \in DOMAIN out, j \in Segs :
          held[j] # NoFlow /\ out[k].src = held[j].src => out[k].n < held[j].n)'
    BY <2>1, SMTT(30)
  <2> QED
    BY <2>2, <2>3, <2>4, <2>5, Zenon
<1>4. CASE LeaveAtEnd
  <2>1. /\ held[N] # NoFlow /\ held'[N] = NoFlow
        /\ \A j \in Segs \ {N} : held'[j] = held[j]
        /\ produced' = produced
        /\ out' = Append(out, held[N])
    BY <1>4, SMTT(30) DEF LeaveAtEnd, TypeOK, PipeTypeOK
  <2>2. held[N] \in Flow
    BY <2>1, SMTT(30) DEF TypeOK, PipeTypeOK
  <2>3. \A k \in DOMAIN out' : (k \in DOMAIN out /\ out'[k] = out[k]) \/ out'[k] = held[N]
    BY <2>1, <2>2, SMTT(30) DEF TypeOK
  <2>4. (\A j \in Segs : held[j] # NoFlow =>
          held[j].src \in 0..j /\ held[j].n \in 1..produced[held[j].src])'
    BY <2>1, <2>3, Zenon
  <2>5. (\A j, k \in Segs :
          j < k /\ held[j] # NoFlow /\ held[k] # NoFlow /\ held[j].src = held[k].src
              => held[k].n < held[j].n)'
    BY <2>1, <2>3, ZenonT(30)
  <2>6. (\A k \in DOMAIN out :
          out[k].src \in Chans /\ out[k].n <= produced[out[k].src])'
    BY <2>1, <2>3, SMTT(30)
  <2>7. (\A k \in DOMAIN out, j \in Segs :
          held[j] # NoFlow /\ out[k].src = held[j].src => out[k].n < held[j].n)'
    <3> SUFFICES ASSUME NEW k \in DOMAIN out', NEW j \in Segs,
                        held'[j] # NoFlow, out'[k].src = held'[j].src
                 PROVE  out'[k].n < held'[j].n
      BY Zenon
    <3>1. N \in Segs /\ j < N /\ held'[j] = held[j]
      BY <2>1, SMTT(30)
    <3>2. CASE k \in DOMAIN out /\ out'[k] = out[k]
      BY <3>1, <3>2, Zenon
    <3>3. CASE out'[k] = held[N]
      BY <2>1, <3>1, <3>3, Zenon
    <3> QED
      BY <2>3, <3>2, <3>3, Zenon
  <2> QED
    BY <2>4, <2>5, <2>6, <2>7, Zenon
<1>5. ASSUME NEW i \in Segs, RemoveAt(i) PROVE QueueInv'
  <2>1. /\ held'[i] = NoFlow
        /\ \A j \in Segs \ {i} : held'[j] = held[j]
        /\ out' = out /\ produced' = produced
    BY <1>5, Zenon DEF RemoveAt, TypeOK, PipeTypeOK
  <2> QED
    BY <2>1, Zenon
<1> QED
  BY <1>1, <1>2, <1>3, <1>4, <1>5, FlowSteps, Zenon

LEMMA NextOrder ==
    TypeOK /\ HeldInv /\ FeedInv /\ QueueInv /\ StableOrder /\ [Next]_vars => StableOrder'
<1> SUFFICES ASSUME TypeOK, HeldInv, FeedInv, QueueInv, StableOrder, [Next]_vars
             PROVE  StableOrder'
  OBVIOUS
<1>1. CASE out' = out
  BY <1>1, Zenon DEF StableOrder
<1>2. CASE LeaveAtEnd
  <2>1. held[N] # NoFlow /\ out' = Append(out, held[N]) /\ N \in Segs
    BY <1>2, NAssumption DEF LeaveAtEnd, Segs
  <2>2. held[N] \in Flow /\ out \in Seq(Flow)
    BY <2>1 DEF TypeOK, PipeTypeOK
  <2>3. /\ DOMAIN out = 1..Len(out) /\ DOMAIN out' = 1..(Len(out) + 1) /\ Len(out) \in Nat
        /\ out'[Len(out) + 1] = held[N]
        /\ \A k \in 1..Len(out) : out'[k] = out[k]
    BY <2>1, <2>2, SMTT(30)
  <2>4. \A k \in 1..Len(out) : out[k].src = held[N].src => out[k].n < held[N].n
    BY <2>1, <2>3 DEF QueueInv
  <2> QED
    BY <2>3, <2>4 DEF StableOrder
<1> QED
  BY <1>1, <1>2, FlowSteps DEF NoFlowMoves, EnterAt, MoveAt, RemoveAt, flowVars

(* The flows of one source come out of the pipeline in the order in which  *)
(* they went in, whatever filters and other inputs the chain has.          *)
THEOREM OrderIsStable == Spec => []StableOrder
<1>1. Init => QueueInv /\ StableOrder
  BY DEF Init, PipeInit, QueueInv, StableOrder
<1>2. BaseInv /\ QueueInv /\ StableOrder /\ [Next]_vars => (QueueInv /\ StableOrder)'
  BY NextQueue, NextOrder DEF BaseInv
<1> QED
  BY <1>1, <1>2, BaseInvariant, PTL DEF Spec

-----------------------------------------------------------------------------
(* Every flow is at exactly one place.                                     *)

LEMMA InFlightIff ==
    ASSUME NEW f PROVE f \in InFlight <=> f # NoFlow /\ \E i \in Segs : held[i] = f
  BY DEF InFlight

LEMMA NextAccounted ==
    TypeOK /\ HeldInv /\ FeedInv /\ QueueInv /\ EveryFlowAccounted /\ [Next]_vars
        => EveryFlowAccounted'
<1> SUFFICES ASSUME TypeOK, HeldInv, FeedInv, QueueInv, EveryFlowAccounted, [Next]_vars
             PROVE  EveryFlowAccounted'
  OBVIOUS
<1>0. N \in Segs /\ \A i \in Segs : held[i] # NoFlow => held[i] \in InFlight
  BY NAssumption, SMTT(30) DEF InFlight, Segs
<1>1. CASE NoFlowMoves
  BY <1>1, SMTT(30) DEF NoFlowMoves, flowVars, EveryFlowAccounted, Emitted, InFlight, Delivered
<1>2. ASSUME NEW i \in Segs, NEW s \in Chans, EnterAt(i, s) PROVE EveryFlowAccounted'
  <2> DEFINE f == NextFlow(s)
  <2>1. /\ held[i] = NoFlow /\ held'[i] = f
        /\ \A j \in Segs \ {i} : held'[j] = held[j]
        /\ out' = out /\ dropped' = dropped /\ discarded' = discarded
        /\ f # NoFlow
    BY <1>2, NextFlowIsNew DEF EnterAt, TypeOK, PipeTypeOK
  <2>2. f \notin Emitted
    BY NextFlowIsNew, MaxFlowsAssumption DEF Emitted, TypeOK
  <2>3. Emitted' = Emitted \cup {f}
    <3>1. /\ produced'[s] = produced[s] + 1 /\ produced[s] < MaxFlows
          /\ \A t \in Chans \ {s} : produced'[t] = produced[t]
          /\ \A t \in Chans : produced[t] \in Nat
      BY <1>2, MaxFlowsAssumption DEF EnterAt, TypeOK
    <3>2. f \in [src : Chans, n : 1..MaxFlows] /\ f.src = s /\ f.n = produced[s] + 1
      BY <3>1, MaxFlowsAssumption DEF NextFlow
    <3>3. ASSUME NEW g \in [src : Chans, n : 1..MaxFlows]
          PROVE  g.n <= produced'[g.src] <=> g.n <= produced[g.src] \/ g = f
      <4>1. g = f <=> g.src = s /\ g.n = produced[s] + 1
        BY DEF NextFlow
      <4>2. CASE g.src = s
        BY <3>1, <4>1, <4>2, MaxFlowsAssumption
      <4>3. CASE g.src # s
        BY <3>1, <4>1, <4>3
      <4> QED
        BY <4>2, <4>3
    <3> QED
      BY <3>2, <3>3 DEF Emitted
  <2>4. InFlight' = InFlight \cup {f}
    BY <2>1 DEF InFlight
  <2>5. Delivered' = Delivered
    BY <2>1 DEF Delivered
  <2>6. f \notin InFlight /\ f \notin Delivered /\ f \notin dropped /\ f \notin discarded
    BY <2>2, Zenon DEF EveryFlowAccounted
  <2>7. \A j, k \in Segs : j # k /\ held'[j] = held'[k] => held'[j] = NoFlow
    BY <2>1, <2>6, InFlightIff DEF EveryFlowAccounted
  <2> HIDE DEF f
  <2> QED
    BY <2>1, <2>3, <2>4, <2>5, <2>6, <2>7, SMTT(30) DEF EveryFlowAccounted
<1>3. ASSUME NEW i \in Segs, MoveAt(i) PROVE EveryFlowAccounted'
  <2>1. /\ i + 1 \in Segs /\ i + 1 # i /\ held[i] # NoFlow /\ held[i + 1] = NoFlow
        /\ held'[i] = NoFlow /\ held'[i + 1] = held[i]
        /\ \A j \in Segs \ {i, i + 1} : held'[j] = held[j]
        /\ out' = out /\ produced' = produced /\ dropped' = dropped
        /\ discarded' = discarded
    BY <1>3, Zenon DEF MoveAt, flowVars, TypeOK, PipeTypeOK, Segs
  <2>2. InFlight' = InFlight
    BY <2>1 DEF InFlight
  <2>3. Emitted' = Emitted /\ Delivered' = Delivered
    BY <2>1 DEF Emitted, Delivered
  <2>4. \A j, k \in Segs : j # k /\ held'[j] = held'[k] => held'[j] = NoFlow
    BY <2>1, Zenon DEF EveryFlowAccounted
  <2> QED
    BY <2>1, <2>2, <2>3, <2>4 DEF EveryFlowAccounted
<1>4. ASSUME NEW i \in Segs, held[i] # NoFlow, held' = [held EXCEPT ![i] = NoFlow],
             produced' = produced
      PROVE  /\ InFlight' = InFlight \ {held[i]} /\ Emitted' = Emitted
             /\ held[i] \in InFlight
             /\ \A j, k \in Segs : j # k /\ held'[j] = held'[k] => held'[j] = NoFlow
  <2>1. held'[i] = NoFlow /\ \A j \in Segs \ {i} : held'[j] = held[j]
    BY <1>4 DEF TypeOK, PipeTypeOK
  <2>2. \A j \in Segs \ {i} : held[j] # held[i]
    BY <1>4 DEF EveryFlowAccounted
  <2> QED
    BY <1>0, <1>4, <2>1, <2>2, SMTT(30) DEF InFlight, Emitted, EveryFlowAccounted
<1>5. CASE LeaveAtEnd
  <2>1. /\ InFlight' = InFlight \ {held[N]} /\ Emitted' = Emitted
        /\ held[N] \in InFlight
        /\ \A j, k \in Segs : j # k /\ held'[j] = held'[k] => held'[j] = NoFlow
    BY <1>0, <1>4, <1>5, Zenon DEF LeaveAtEnd
  <2>2. dropped' = dropped /\ discarded' = discarded /\ out' = Append(out, held[N])
    BY <1>5 DEF LeaveAtEnd
  <2>3. Delivered' = Delivered \cup {held[N]}
    <3>1. held[N] \in Flow /\ out \in Seq(Flow)
      BY <1>0, <1>5 DEF LeaveAtEnd, TypeOK, PipeTypeOK
    <3> QED
      BY <2>2, <3>1 DEF Delivered
  <2> QED
    BY <2>1, <2>2, <2>3 DEF EveryFlowAccounted
<1>6. ASSUME NEW i \in Segs, RemoveAt(i) PROVE EveryFlowAccounted'
  <2>1. /\ InFlight' = InFlight \ {held[i]} /\ Emitted' = Emitted
        /\ held[i] \in InFlight
        /\ \A j, k \in Segs : j # k /\ held'[j] = held'[k] => held'[j] = NoFlow
    BY <1>4, <1>6, Zenon DEF RemoveAt
  <2>2. Delivered' = Delivered
    BY <1>6 DEF RemoveAt, Delivered
  <2> QED
    BY <1>6, <2>1, <2>2 DEF RemoveAt, EveryFlowAccounted
<1> QED
  BY <1>1, <1>2, <1>3, <1>5, <1>6, FlowSteps

LEMMA OrderAndPlaces == Spec => [](QueueInv /\ EveryFlowAccounted)
<1>1. Init => QueueInv /\ EveryFlowAccounted
  <2> SUFFICES ASSUME Init PROVE QueueInv /\ EveryFlowAccounted
    OBVIOUS
  <2> USE DEF Init, PipeInit
  <2>1. QueueInv
    BY DEF QueueInv
  <2>2. InFlight = {} /\ Delivered = {}
    BY DEF InFlight, Delivered
  <2>3. Emitted = {}
    BY MaxFlowsAssumption DEF Emitted
  <2> QED
    BY <2>1, <2>2, <2>3 DEF EveryFlowAccounted
<1>2. BaseInv /\ QueueInv /\ EveryFlowAccounted /\ [Next]_vars
          => (QueueInv /\ EveryFlowAccounted)'
  BY NextQueue, NextAccounted DEF BaseInv
<1> QED
  BY <1>1, <1>2, BaseInvariant, PTL DEF Spec

(* No flow is lost and none is duplicated between In and the places where  *)
(* flows leave the pipeline.                                               *)
THEOREM FlowsAreAccounted == Spec => []EveryFlowAccounted
  BY OrderAndPlaces, PTL

(* Every flow that went into In is in one place of the pipeline, and flows *)
(* never overtake each other on their way through it.                      *)
THEOREM FlowsStayInLine == Spec => []AccountedInOrder
<1>1. TypeOK /\ EveryFlowAccounted /\ StableOrder => AccountedInOrder
  BY DEF AccountedInOrder
<1> QED
  BY <1>1, TypeCorrect, FlowsAreAccounted, OrderIsStable, PTL

-----------------------------------------------------------------------------
(* The filters GetDrop has reached in its loop are subscribed.             *)
SubsInv == \A i \in Segs : i < dropper /\ kind[i] = "filter" => i \in subs

(* Once GetDrop has returned no filter discards a flow any more.           *)
THEOREM NoDropIsMissed == Spec => SubscribedSeesAllDrops
<1>1. Init => SubsInv
  BY NAssumption, SMTT(30) DEF Init, PipeInit, SubsInv, Segs
<1>2. TypeOK /\ SubsInv /\ [Next]_vars => SubsInv'
  <2> SUFFICES ASSUME TypeOK, SubsInv, [Next]_vars PROVE SubsInv'
    OBVIOUS
  <2> USE NAssumption DEF TypeOK, PipeTypeOK, Segs, SubsInv
  <2>1. CASE GetDrop
    BY <2>1 DEF GetDrop, pipeVars
  <2>2. CASE SubscribeNext
    BY <2>2 DEF SubscribeNext, SubscribeSegment
  <2>3. CASE UNCHANGED <<kind, subs, dropper>>
    BY <2>3, Zenon
  <2>4. CASE OwnerStep
    BY <2>1, <2>3, <2>4, Zenon DEF OwnerStep, AutoDrain, Feed, Interrupt, Shutdown, WaitReturns,
         CloseAgain, ForceQuit, DrainEnd, Killed, vars, envVars, pipeVars
  <2>5. CASE Fed \/ Close \/ DrainOne
    BY <2>3, <2>5, ZenonT(30) DEF Fed, Push, Close, CloseIn, DrainOne, Pull, envVars
  <2>6. ASSUME NEW i \in Segs,
               \/ Start(i) \/ TakeDrop(i) \/ GenerateFlow(i) \/ DiscardFlow(i) \/ Run(i)
        PROVE  UNCHANGED <<kind, subs, dropper>>
    BY <2>6 DEF Start, StartSegment, TakeDrop, PullDrop, GenerateFlow, Generate,
                DiscardFlow, Discard, Run, SegStep, Handoff, Accept, OfferDrop,
                CloseOut, Done, envVars
  <2> QED
    BY <2>2, <2>3, <2>4, <2>5, <2>6, StepCases
<1>3. TypeOK /\ SubsInv /\ [Next]_vars => [dropper = N + 1 => discarded' = discarded]_vars
  <2> SUFFICES ASSUME TypeOK, SubsInv, [Next]_vars, dropper = N + 1
               PROVE  discarded' = discarded
    OBVIOUS
  <2>1. ASSUME NEW i \in Segs, DiscardFlow(i) PROVE FALSE
    BY <2>1, NAssumption DEF DiscardFlow, Discard, SubsInv, Segs
  <2>2. CASE OwnerStep
    BY <2>2, OwnerStepKeeps DEF flowVars
  <2>3. CASE Fed \/ Close \/ DrainOne \/ SubscribeNext
    BY <2>3 DEF Fed, Close, DrainOne, SubscribeNext, flowVars
  <2>4. ASSUME NEW i \in Segs,
               Start(i) \/ TakeDrop(i) \/ GenerateFlow(i) \/ Run(i)
        PROVE  discarded' = discarded
    BY <2>4, Zenon DEF Start, TakeDrop, GenerateFlow, Run, flowVars
  <2> QED
    BY <2>1, <2>2, <2>3, <2>4, StepCases
<1> QED
  BY <1>1, <1>2, <1>3, TypeCorrect, PTL DEF Spec, SubscribedSeesAllDrops

-----------------------------------------------------------------------------
(* Nobody waits for ever.                                                  *)

(* A set of numbers has a least element: the induction along the chain.    *)
LEMMA LeastNat ==
    ASSUME NEW T, T \subseteq Nat, T # {}
    PROVE  \E m \in T : \A n \in T : m <= n
<1> DEFINE R == OpToRel(<, Nat)
<1>1. IsWellFoundedOn(R, Nat)
  BY NatLessThanWellFounded, Zenon
<1>2. \A x, y \in Nat : <<y, x>> \in R <=> y < x
  BY DEF OpToRel
<1> HIDE DEF R
<1>3. PICK m \in T : \A n \in T : ~(<<n, m>> \in R)
  BY <1>1, WFMin, Zenon
<1>4. \A n \in T : ~(n < m)
  BY <1>2, <1>3, Zenon
<1>5. m \in Nat /\ \A n \in T : n \in Nat
  OBVIOUS
<1> QED
  BY <1>4, <1>5

(* A set of segments has a first and a last one.                           *)
LEMMA FirstSegment ==
    ASSUME NEW S, S \subseteq Segs, S # {}
    PROVE  \E i \in S : \A j \in S : i <= j
<1>1. S \subseteq Nat
  BY NAssumption DEF Segs
<1> QED
  BY <1>1, LeastNat, Zenon

LEMMA LastSegment ==
    ASSUME NEW S, S \subseteq Segs, S # {}
    PROVE  \E i \in S : \A j \in S : j <= i
<1> DEFINE T == {N - i : i \in S}
<1>1. T \subseteq Nat /\ T # {}
  BY NAssumption DEF Segs
<1>2. PICK m \in T : \A n \in T : m <= n
  BY <1>1, LeastNat, Zenon
<1>3. PICK i \in S : m = N - i
  OBVIOUS
<1>4. \A j \in S : m <= N - j
  BY <1>2
<1>5. \A j \in S : j <= i
  BY <1>3, <1>4, NAssumption DEF Segs
<1> QED
  BY <1>5

(* Who a goroutine waits for is there: the AutoDrain goroutine until the   *)
(* last Out is closed, the caller of GetDrop once a filter may send to     *)
(* Drops, and the closed In once Close() waits.                            *)
PartnerInv ==
    /\ owner \notin {"starting", "autodrain"} => drain # "off"
    /\ drain = "finished" => N \in closed
    /\ subs # {} => dropper # 0
    /\ \A i \in Segs : pc[i] = "drop" => dropper # 0
    /\ owner = "waiting" => 0 \in closed

LEMMA NextPartner == TypeOK /\ PartnerInv /\ [Next]_vars => PartnerInv'
<1> SUFFICES ASSUME TypeOK, PartnerInv, [Next]_vars PROVE PartnerInv'
  OBVIOUS
<1> USE NAssumption DEF TypeOK, PipeTypeOK, Segs, Chans, PartnerInv
<1>1. CASE OwnerStep
  BY <1>1, SMTT(30) DEF OwnerStep, AutoDrain, Feed, Interrupt, Shutdown, WaitReturns, CloseAgain,
         ForceQuit, DrainEnd, GetDrop, Killed, vars, envVars, pipeVars
<1>2. CASE Fed
  BY <1>2 DEF Fed, Push
<1>3. CASE Close
  BY <1>3 DEF Close, CloseIn
<1>4. CASE DrainOne
  BY <1>4 DEF DrainOne, Pull, envVars
<1>5. CASE SubscribeNext
  BY <1>5 DEF SubscribeNext, SubscribeSegment
<1>6. ASSUME NEW i \in Segs,
             Start(i) \/ TakeDrop(i) \/ GenerateFlow(i) \/ DiscardFlow(i)
      PROVE  PartnerInv'
  <2>1. CASE Start(i)
    BY <2>1 DEF Start, StartSegment
  <2>2. CASE TakeDrop(i)
    BY <2>2 DEF TakeDrop, PullDrop, envVars
  <2>3. CASE GenerateFlow(i)
    BY <2>3 DEF GenerateFlow, Generate, envVars
  <2>4. CASE DiscardFlow(i)
    BY <2>4 DEF DiscardFlow, Discard, envVars
  <2> QED
    BY <1>6, <2>1, <2>2, <2>3, <2>4, Zenon
<1>7. ASSUME NEW i \in Segs, Run(i),
             Handoff(i) \/ Accept(i) \/ OfferDrop(i) \/ CloseOut(i) \/ Done(i)
      PROVE  PartnerInv'
  <2> USE DEF Run, envVars
  <2>1. CASE Handoff(i)
    BY <1>7, <2>1 DEF Handoff
  <2>2. CASE Accept(i)
    BY <1>7, <2>2 DEF Accept
  <2>3. CASE OfferDrop(i)
    BY <1>7, <2>3, SMTT(30) DEF OfferDrop
  <2>4. CASE CloseOut(i) \/ Done(i)
    BY <1>7, <2>4, SMTT(30) DEF CloseOut, Done
  <2> QED
    BY <1>7, <2>1, <2>2, <2>3, <2>4, Zenon
<1> QED
  BY <1>1, <1>2, <1>3, <1>4, <1>5, <1>6, <1>7, StepCases, Zenon

(* The last segment that is at its send can hand its flow over: whoever    *)
(* follows is at the receive, or can step itself.                          *)
LEMMA SendersMove ==
    ASSUME BaseInv, PrefixInv, PartnerInv,
           owner \notin {"starting", "autodrain"}, dropper \notin Segs,
           NEW s \in Segs, pc[s] = "send"
    PROVE  \E i \in Segs : CanStep(i)
<1> USE NAssumption DEF Segs
<1> DEFINE S == {i \in Segs : pc[i] = "send"}
<1>1. PICK i \in S : \A j \in S : j <= i
  BY LastSegment, Zenon
<1>2. i \in Segs /\ pc[i] = "send" /\ i \notin closed
  BY <1>1 DEF BaseInv, ClosedInv
<1>3. CASE i = N
  <2>1. drain = "on"
    BY <1>2, <1>3 DEF PartnerInv, BaseInv, TypeOK
  <2> QED
    BY <1>2, <1>3, <2>1, Zenon DEF CanStep
<1>4. CASE i # N
  <2>1. i + 1 \in Segs
    BY <1>2, <1>4
  <2>2. pc[i + 1] # "send"
    BY <1>1, <1>2, <2>1
  <2>3. pc[i + 1] # "exited"
    <3> SUFFICES ASSUME pc[i + 1] = "exited" PROVE FALSE
      OBVIOUS
    <3>1. i + 1 \in closed
      BY <2>1 DEF BaseInv, ClosedInv
    <3> QED
      BY <1>2, <2>1, <3>1 DEF PrefixInv, Chans
  <2>4. pc[i + 1] \in Places /\ pc[i + 1] # "new"
    BY <2>1, Zenon DEF BaseInv, StartInv, TypeOK, PipeTypeOK
  <2>5. pc[i + 1] = "drop" => dropper = N + 1
    BY <2>1 DEF PartnerInv, BaseInv, TypeOK
  <2>6. CASE pc[i + 1] = "recv"
    BY <1>2, <1>4, <2>6, Zenon DEF CanStep
  <2>7. CASE pc[i + 1] # "recv"
    <3>1. pc[i + 1] \in {"work", "quit", "done", "drop"}
      BY <2>2, <2>3, <2>4, <2>7, Zenon DEF Places
    <3> QED
      BY <2>1, <2>5, <3>1, Zenon DEF CanStep
  <2> QED
    BY <2>6, <2>7
<1> QED
  BY <1>3, <1>4

(* A flow inside is with a segment that works, that offers it to Drop, or  *)
(* that is at its send.                                                    *)
LEMMA FlowsMove ==
    ASSUME BaseInv, PrefixInv, PartnerInv,
           owner \notin {"starting", "autodrain"}, dropper \notin Segs,
           InFlight # {}
    PROVE  \E i \in Segs : CanStep(i)
<1>1. PICK i \in Segs : held[i] # NoFlow
  BY Zenon DEF InFlight
<1>2. pc[i] \in Busy
  BY <1>1, Zenon DEF BaseInv, HeldInv
<1>3. CASE pc[i] = "send"
  BY <1>3, SendersMove, Zenon
<1>4. CASE pc[i] = "work"
  BY <1>4, Zenon DEF CanStep
<1>5. CASE pc[i] = "drop"
  <2>1. dropper = N + 1
    BY <1>5, NAssumption DEF PartnerInv, BaseInv, TypeOK, Segs
  <2> QED
    BY <1>5, <2>1, Zenon DEF CanStep
<1> QED
  BY <1>2, <1>3, <1>4, <1>5, Zenon DEF Busy

(* While Close() waits, the first segment that runs has its In closed: by  *)
(* Close() itself, or by the segment before it.                            *)
LEMMA RunningMove ==
    ASSUME BaseInv, PrefixInv, PartnerInv,
           owner = "waiting", wg # 0, InFlight = {}
    PROVE  \E i \in Segs : CanStep(i)
<1>1. Running # {}
  BY FS_EmptySet DEF BaseInv, WgInv
<1>2. PICK i \in Running : \A j \in Running : i <= j
  BY <1>1, FirstSegment, Zenon DEF Running
<1>3. i \in Segs /\ pc[i] \in Places \ {"new", "exited"}
  BY <1>2, Zenon DEF Running, BaseInv, TypeOK, PipeTypeOK
<1>4. i - 1 \in closed
  <2>1. CASE i = 1
    BY <2>1 DEF PartnerInv
  <2>2. CASE i # 1
    <3>1. i - 1 \in Segs /\ i - 1 < i
      BY <1>3, <2>2, NAssumption DEF Segs
    <3>2. i - 1 \notin Running
      BY <1>2, <1>3, <3>1, NAssumption DEF Segs
    <3>3. pc[i - 1] = "exited"
      BY <3>1, <3>2, Zenon DEF Running, BaseInv, StartInv
    <3> QED
      BY <3>1, <3>3, Zenon DEF BaseInv, ClosedInv
  <2> QED
    BY <2>1, <2>2
<1>5. held[i] = NoFlow
  BY <1>3, Zenon DEF InFlight
<1>6. pc[i] \in {"recv", "quit", "done"}
  BY <1>3, <1>5, Zenon DEF BaseInv, HeldInv, Busy, Places
<1> QED
  BY <1>3, <1>4, <1>6, Zenon DEF CanStep

(* An owner that is blocked in In <- msg with no flow inside meets the     *)
(* first segment at its receive.                                           *)
LEMMA FeederMoves ==
    ASSUME BaseInv, PrefixInv, owner = "feeding", InFlight = {}
    PROVE  pc[1] = "recv"
<1>1. 1 \in Segs /\ 0 \in Chans /\ 1 \in Chans
  BY NAssumption DEF Segs, Chans
<1>2. 0 \notin closed
  BY Zenon DEF BaseInv, ClosedInv
<1>3. 1 \notin closed
  BY <1>1, <1>2 DEF PrefixInv
<1>4. held[1] = NoFlow
  BY <1>1, Zenon DEF InFlight
<1>5. pc[1] \in Places \ {"new", "work", "send", "drop"}
  BY <1>1, <1>4, Zenon DEF BaseInv, TypeOK, PipeTypeOK, StartInv, HeldInv, Busy
<1>6. pc[1] \notin {"done", "exited", "quit"}
  BY <1>1, <1>3, Zenon DEF BaseInv, ClosedInv, PrefixInv
<1> QED
  BY <1>5, <1>6, Zenon DEF Places

(* A chain of any length, in which no segment gives up before its input is *)
(* closed, never deadlocks: not under backpressure, not while filters wait *)
(* for the reader of Drop, and not during Close().                         *)
THEOREM ChainNeverStuck ==
    ASSUME "replay" \notin Kinds
    PROVE  Spec => []NeverStuck
<1>1. Init => PrefixInv /\ PartnerInv
  BY NAssumption DEF Init, PipeInit, PrefixInv, PartnerInv, Segs
<1>2. BaseInv /\ PrefixInv /\ PartnerInv /\ [Next]_vars => PrefixInv' /\ PartnerInv'
  BY NextPrefix, NextPartner, Zenon DEF BaseInv
<1>3. BaseInv /\ PrefixInv /\ PartnerInv => NeverStuck
  BY FlowsMove, RunningMove, FeederMoves, Zenon DEF NeverStuck
<1> QED
  BY <1>1, <1>2, <1>3, BaseInvariant, PTL DEF Spec

-----------------------------------------------------------------------------
(* The pipeline implements the transfer.                                   *)

AllExited == \A i \in Segs : pc[i] = "exited"

(* Only the last wg.Done() ends the transfer.                              *)
LEMMA EndSteps ==
    ASSUME TypeOK, [Next]_vars
    PROVE  \/ AllExited' <=> AllExited
           \/ \E i \in Segs : Run(i) /\ Done(i)
<1> USE DEF TypeOK, PipeTypeOK, AllExited
<1>1. CASE pc' = pc
  BY <1>1, ZenonT(30)
<1>2. CASE OwnerStep \/ Close \/ SubscribeNext
  BY <1>1, <1>2, OwnerStepKeeps DEF pipeVars, Close, CloseIn, SubscribeNext, SubscribeSegment
<1>3. ASSUME NEW i \in Segs, pc[i] # "exited", pc'[i] # "exited" PROVE AllExited' <=> AllExited
  BY <1>3, Zenon
<1>4. CASE Fed \/ DrainOne
  BY <1>3, <1>4, NAssumption DEF Fed, Push, DrainOne, Pull, Segs
<1>5. ASSUME NEW i \in Segs,
             \/ Start(i) \/ TakeDrop(i) \/ GenerateFlow(i) \/ DiscardFlow(i)
             \/ Accept(i) \/ OfferDrop(i) \/ CloseOut(i)
      PROVE  AllExited' <=> AllExited
  <2>1. pc[i] # "exited" /\ pc'[i] # "exited"
    BY <1>5, Zenon DEF Start, StartSegment, TakeDrop, PullDrop, GenerateFlow, Generate,
              DiscardFlow, Discard, Accept, OfferDrop, CloseOut
  <2> QED
    BY <1>3, <2>1, Zenon
<1>6. ASSUME NEW i \in Segs, Handoff(i) PROVE AllExited' <=> AllExited
  <2>1. pc[i] # "exited" /\ pc'[i] # "exited"
    BY <1>6, NAssumption DEF Handoff, Segs
  <2> QED
    BY <1>3, <2>1
<1> QED
  BY <1>2, <1>4, <1>5, <1>6, StepCases

LEMMA StepImplements ==
    ASSUME BaseInv, BaseInv', QueueInv, EveryFlowAccounted, EveryFlowAccounted', [Next]_vars
    PROVE  [Transfer!Next]_(Transfer!vars)
<1> USE DEF BaseInv
<1> N \in Segs
  BY NAssumption DEF Segs
<1>1. CASE \E i \in Segs : Run(i) /\ Done(i)
  <2>1. held' = held /\ UNCHANGED <<produced, out, dropped, discarded>>
    BY <1>1 DEF Run, Done, flowVars
  <2>2. InFlight' = InFlight
    BY <2>1 DEF InFlight
  <2>3. CASE AllExited'
    <3>1. \A i \in Segs : held'[i] = NoFlow
      BY <2>3 DEF AllExited, HeldInv, Busy
    <3>2. InFlight = {}
      BY <2>2, <3>1 DEF InFlight
    <3>3. (\A i \in Segs : pc[i] = "exited")' = TRUE
      BY <2>3 DEF AllExited
    <3> QED
      BY <2>1, <2>2, <3>2, <3>3 DEF Transfer!Next, Transfer!End
  <2>4. CASE ~AllExited'
    <3>1. ~AllExited
      BY <1>1 DEF Done, AllExited
    <3>2. (\A i \in Segs : pc[i] = "exited")' = (\A i \in Segs : pc[i] = "exited")
      BY <2>4, <3>1 DEF AllExited
    <3> QED
      BY <2>1, <2>2, <3>2 DEF Transfer!vars
  <2> QED
    BY <2>3, <2>4
<1>2. CASE AllExited' <=> AllExited
  <2>1. (\A i \in Segs : pc[i] = "exited")' = (\A i \in Segs : pc[i] = "exited")
    BY <1>2 DEF AllExited
  <2>2. ASSUME NEW i \in Segs, held[i] # NoFlow \/ held'[i] # NoFlow
        PROVE  ~(\A j \in Segs : pc[j] = "exited")
    <3>1. pc[i] # "exited" \/ pc'[i] # "exited"
      BY <2>2, Zenon DEF HeldInv, Busy
    <3> QED
      BY <1>2, <3>1 DEF AllExited
  <2>3. CASE NoFlowMoves
    BY <2>1, <2>3, Zenon DEF NoFlowMoves, flowVars, Transfer!vars, InFlight
  <2>4. ASSUME NEW i \in Segs, NEW s \in Chans, EnterAt(i, s) PROVE Transfer!Enter(s)
    <3>1. /\ held[i] = NoFlow /\ held'[i] = NextFlow(s)
          /\ \A j \in Segs \ {i} : held'[j] = held[j]
      BY <2>4, Zenon DEF EnterAt, TypeOK, PipeTypeOK
    <3>2. NextFlow(s) # NoFlow
      BY NextFlowIsNew, Zenon
    <3>3. InFlight' = InFlight \cup {NextFlow(s)}
      BY <3>1, <3>2, Zenon DEF InFlight
    <3>4. ~(\A j \in Segs : pc[j] = "exited")
      BY <2>2, <3>1, <3>2
    <3>5. (dropped \cup discarded)' = dropped \cup discarded
      BY <2>4 DEF EnterAt
    <3> QED
      BY <2>1, <2>4, <3>3, <3>4, <3>5, Zenon DEF EnterAt, NextFlow, Transfer!Enter
  <2>5. ASSUME NEW i \in Segs, MoveAt(i) PROVE UNCHANGED Transfer!vars
    <3>1. /\ i + 1 \in Segs /\ i + 1 # i /\ held[i] # NoFlow /\ held[i + 1] = NoFlow
          /\ held'[i] = NoFlow /\ held'[i + 1] = held[i]
          /\ \A j \in Segs \ {i, i + 1} : held'[j] = held[j]
      BY <2>5, Zenon DEF MoveAt, TypeOK, PipeTypeOK, Segs
    <3>2. InFlight' = InFlight
      BY <3>1, Zenon DEF InFlight
    <3> QED
      BY <2>1, <2>5, <3>2, Zenon DEF MoveAt, flowVars, Transfer!vars
  <2>6. ASSUME NEW i \in Segs, held[i] # NoFlow, held' = [held EXCEPT ![i] = NoFlow]
        PROVE  held[i] \in InFlight /\ InFlight' = InFlight \ {held[i]}
    <3>1. held'[i] = NoFlow /\ \A j \in Segs \ {i} : held'[j] = held[j]
      BY <2>6, Zenon DEF TypeOK, PipeTypeOK
    <3>2. \A j \in Segs \ {i} : held[j] # held[i]
      BY <2>6 DEF EveryFlowAccounted
    <3> QED
      BY <2>6, <3>1, <3>2, Zenon DEF InFlight
  <2>7. CASE LeaveAtEnd
    <3>1. held[N] \in InFlight /\ InFlight' = InFlight \ {held[N]}
      BY <2>6, <2>7, ZenonT(30) DEF LeaveAtEnd
    <3>2. ASSUME NEW g \in InFlight, g.src = held[N].src PROVE g.n >= held[N].n
      <4>1. PICK i \in Segs : held[i] = g /\ held[i] # NoFlow
        BY InFlightIff
      <4>2. held[i].n \in Nat /\ held[N].n \in Nat
        BY <4>1, <2>7, Zenon DEF LeaveAtEnd, TypeOK, PipeTypeOK, Flow
      <4>3. CASE i = N
        BY <4>1, <4>2, <4>3, SMTT(30)
      <4>4. CASE i # N
        <5>1. N \in Segs /\ i < N
          BY <4>4, NAssumption DEF Segs
        <5>2. held[N] # NoFlow
          BY <2>7 DEF LeaveAtEnd
        <5>3. held[i].src = held[N].src
          BY <3>2, <4>1, ZenonT(30)
        <5>4. held[N].n < held[i].n
          BY <4>1, <5>1, <5>2, <5>3 DEF QueueInv
        <5> QED
          BY <4>1, <4>2, <5>4
      <4> QED
        BY <4>3, <4>4
    <3>3. (dropped \cup discarded)' = dropped \cup discarded
      BY <2>7, ZenonT(30) DEF LeaveAtEnd
    <3>4. Transfer!Leave(held[N])
      BY <2>1, <2>7, <3>1, <3>2, <3>3 DEF LeaveAtEnd, Transfer!Leave
    <3> QED
      BY <3>1, <3>4 DEF Transfer!Next
  <2>8. ASSUME NEW i \in Segs, RemoveAt(i) PROVE Transfer!Next
    <3>1. held[i] \in InFlight /\ InFlight' = InFlight \ {held[i]}
      BY <2>6, <2>8, Zenon DEF RemoveAt
    <3>2. (dropped \cup discarded)' = (dropped \cup discarded) \cup {held[i]}
      BY <2>8, SMTT(30) DEF RemoveAt
    <3>3. Transfer!Remove(held[i])
      BY <2>1, <2>8, <3>1, <3>2 DEF RemoveAt, Transfer!Remove
    <3> QED
      BY <3>1, <3>3 DEF Transfer!Next
  <2> QED
    BY <2>3, <2>4, <2>5, <2>7, <2>8, FlowSteps DEF Transfer!Next
<1> QED
  BY <1>1, <1>2, EndSteps

(* Every behaviour of the chain of goroutines is one of the abstract       *)
(* transfer, whatever the number and the kinds of its segments.            *)
THEOREM PipelineImplementsTransfer == Spec => ImplementsTransfer
<1>1. Init => Transfer!Init
  <2> SUFFICES ASSUME Init PROVE Transfer!Init
    OBVIOUS
  <2>1. InFlight = {} /\ dropped \cup discarded = {}
    BY DEF Init, PipeInit, InFlight
  <2>2. 1 \in Segs /\ pc[1] # "exited"
    BY NAssumption DEF Init, PipeInit, Segs
  <2>3. (\A i \in Segs : pc[i] = "exited") = FALSE
    BY <2>2
  <2> QED
    BY <2>1, <2>3 DEF Init, Transfer!Init
<1> QED
  BY <1>1, StepImplements, BaseInvariant, OrderAndPlaces, PTL
  DEF Spec, ImplementsTransfer, Transfer!Spec
=============================================================================

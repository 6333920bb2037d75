---------------------- MODULE ParallelizedSegment_proof ----------------------
(***************************************************************************)
(* Proof that a parallelized segment keeps every flow in one place and     *)
(* loses at most one flow per job when its jobs panic at teardown, for any *)
(* finite set of jobs and any number of flows.                             *)
(***************************************************************************)
EXTENDS ParallelizedSegment, FiniteSetTheorems, SequenceTheorems, TLAPS

(* The jobs segmentWg counts.                                              *)
Running == {j \in Jobs : pc[j] \in {"recv", "work", "send", "done"}}

(* The types, with wg as a plain number.                                   *)
Types ==
    /\ run \in {"start", "wait", "exited"}
    /\ pc \in [Jobs -> {"none", "new", "recv", "work", "send", "done", "exited"}]
    /\ held \in [Jobs -> 0..MaxFlows]
    /\ fed \in 0..MaxFlows /\ out \in Seq(1..MaxFlows)
    /\ discarded \subseteq 1..MaxFlows
    /\ inClosed \in BOOLEAN /\ outClosed \in BOOLEAN /\ crashed \in BOOLEAN

(* segmentWg is the number of jobs that have not called Done.              *)
CountInv == wg = Cardinality(Running)

(* A job holds a flow exactly between its receive and its send.            *)
HeldInv == \A j \in Jobs : (held[j] # NoFlow) <=> pc[j] \in {"work", "send"}

(* Where each flow is: a flow received has a place, ...                    *)
Placed ==
    \A f \in 1..fed : (\E j \in Jobs : held[j] = f) \/ (\E i \in 1..Len(out) : out[i] = f)
                         \/ f \in discarded

(* ... nothing else is anywhere, ...                                       *)
Known ==
    /\ \A j \in Jobs : held[j] <= fed
    /\ \A i \in 1..Len(out) : out[i] <= fed
    /\ \A f \in discarded : f <= fed

(* ... and no two places have the same flow.                               *)
Apart ==
    /\ \A j \in Jobs, i \in 1..Len(out) : held[j] # out[i]
    /\ \A j \in Jobs : held[j] \notin discarded
    /\ \A i \in 1..Len(out) : out[i] \notin discarded
    /\ \A j, k \in Jobs : held[j] = held[k] => j = k \/ held[j] = NoFlow
    /\ \A i, k \in 1..Len(out) : out[i] = out[k] => i = k

PlaceInv == Placed /\ Known /\ Apart

(* Out is closed only after In, by a job that has left its loop, and only  *)
(* a closed Out makes a job panic.                                         *)
CloseInv ==
    /\ outClosed => inClosed /\ \E j \in Jobs : pc[j] \in {"done", "exited"}
    /\ crashed => outClosed

IInv == Types /\ CountInv /\ HeldInv /\ PlaceInv /\ CloseInv

LEMMA InitInv == Init => IInv
<1> SUFFICES ASSUME Init PROVE IInv
  OBVIOUS
<1>1. Types
  <2>1. pc \in [Jobs -> {"none", "new", "recv", "work", "send", "done", "exited"}]
    BY DEF Init
  <2>2. held \in [Jobs -> 0..MaxFlows] /\ fed \in 0..MaxFlows
    BY JobsAssumption DEF Init, NoFlow
  <2>3. out \in Seq(1..MaxFlows) /\ discarded \subseteq 1..MaxFlows
    BY DEF Init
  <2> QED
    BY <2>1, <2>2, <2>3, Zenon DEF Init, Types
<1>4. HeldInv /\ CloseInv
  BY DEF Init, HeldInv, CloseInv, NoFlow
<1>5. PlaceInv
  BY DEF Init, PlaceInv, Placed, Known, Apart, NoFlow
<1>2. Running = {}
  BY DEF Init, Running
<1>3. CountInv
  BY <1>2, FS_EmptySet DEF Init, CountInv
<1> QED
  BY <1>1, <1>3, <1>4, <1>5 DEF IInv

LEMMA NextTypes == IInv /\ [Next]_vars => Types'
<1> SUFFICES ASSUME IInv, [Next]_vars PROVE Types'
  OBVIOUS
<1> USE JobsAssumption DEF IInv, Types, NoFlow
<1>1. ASSUME NEW j \in Jobs, StartJob(j) PROVE Types'
  BY <1>1 DEF StartJob
<1>2. ASSUME NEW j \in Jobs, Receive(j) PROVE Types'
  BY <1>2 DEF Receive
<1>3. ASSUME NEW j \in Jobs, Accept(j) PROVE Types'
  BY <1>3 DEF Accept
<1>4. ASSUME NEW j \in Jobs, Discard(j) PROVE Types'
  <2>1. held[j] \in 1..MaxFlows
    BY <1>4 DEF Discard, HeldInv
  <2>2. discarded' \subseteq 1..MaxFlows
    BY <1>4, <2>1, Zenon DEF Discard
  <2> QED
    BY <1>4, <2>2 DEF Discard
<1>5. ASSUME NEW j \in Jobs, Send(j) PROVE Types'
  <2>1. held[j] \in 1..MaxFlows
    BY <1>5 DEF Send, HeldInv
  <2> QED
    BY <1>5, <2>1 DEF Send
<1>6. ASSUME NEW j \in Jobs, SendPanics(j) \/ CloseOut(j) PROVE Types'
  BY <1>6, Zenon DEF SendPanics, CloseOut
<1>7. ASSUME NEW j \in Jobs, JobDone(j) PROVE Types'
  BY <1>7 DEF JobDone
<1>8. CASE WaitReturns \/ CloseInput \/ UNCHANGED vars
  BY <1>8, Zenon DEF WaitReturns, CloseInput, vars
<1> QED
  BY <1>1, <1>2, <1>3, <1>4, <1>5, <1>6, <1>7, <1>8 DEF Next, JobStep

LEMMA NextCount == IInv /\ [Next]_vars => CountInv'
<1> SUFFICES ASSUME IInv, [Next]_vars PROVE CountInv'
  OBVIOUS
<1>0. IsFiniteSet(Running) /\ Cardinality(Running) \in Nat
  BY FS_Subset, FS_CardinalityType, JobsAssumption DEF Running
<1>1. ASSUME NEW j \in Jobs, StartJob(j) PROVE CountInv'
  <2>1. Running' = Running \cup {j} /\ j \notin Running
    BY <1>1 DEF IInv, Types, StartJob, Running
  <2>2. Cardinality(Running') = Cardinality(Running) + 1
    BY <1>0, <2>1, FS_AddElement
  <2> QED
    BY <1>1, <2>2 DEF IInv, CountInv, StartJob
<1>2. ASSUME NEW j \in Jobs, JobDone(j) PROVE CountInv'
  <2>1. Running' = Running \ {j} /\ j \in Running
    BY <1>2 DEF IInv, Types, JobDone, Running
  <2>2. Cardinality(Running') = Cardinality(Running) - 1
    BY <1>0, <2>1, FS_RemoveElement
  <2> QED
    BY <1>2, <2>2 DEF IInv, CountInv, JobDone
<1>3. ASSUME NEW j \in Jobs, Receive(j) \/ Accept(j) \/ Discard(j) \/ Send(j) PROVE CountInv'
  <2>1. Running' = Running
    BY <1>3 DEF IInv, Types, Receive, Accept, Discard, Send, Running
  <2> QED
    BY <1>3, <2>1 DEF IInv, CountInv, Receive, Accept, Discard, Send
<1>4. ASSUME NEW j \in Jobs, SendPanics(j) \/ CloseOut(j) PROVE CountInv'
  <2>1. Running' = Running
    BY <1>4 DEF IInv, Types, SendPanics, CloseOut, Running
  <2> QED
    BY <1>4, <2>1 DEF IInv, CountInv, SendPanics, CloseOut
<1>5. CASE WaitReturns \/ CloseInput \/ UNCHANGED vars
  BY <1>5 DEF IInv, CountInv, Running, WaitReturns, CloseInput, vars
<1> QED
  BY <1>1, <1>2, <1>3, <1>4, <1>5 DEF Next, JobStep

LEMMA NextHeldClose == IInv /\ [Next]_vars => HeldInv' /\ CloseInv'
<1> SUFFICES ASSUME IInv, [Next]_vars PROVE HeldInv' /\ CloseInv'
  OBVIOUS
<1> USE DEF IInv, Types, HeldInv, CloseInv, NoFlow
<1>1. ASSUME NEW j \in Jobs, StartJob(j) PROVE HeldInv' /\ CloseInv'
  BY <1>1 DEF StartJob
<1>2. ASSUME NEW j \in Jobs, Receive(j) PROVE HeldInv' /\ CloseInv'
  BY <1>2 DEF Receive
<1>3. ASSUME NEW j \in Jobs, Accept(j) PROVE HeldInv' /\ CloseInv'
  BY <1>3 DEF Accept
<1>4. ASSUME NEW j \in Jobs, Discard(j) PROVE HeldInv' /\ CloseInv'
  BY <1>4 DEF Discard
<1>5. ASSUME NEW j \in Jobs, Send(j) PROVE HeldInv' /\ CloseInv'
  BY <1>5 DEF Send
<1>6. ASSUME NEW j \in Jobs, SendPanics(j) PROVE HeldInv' /\ CloseInv'
  BY <1>6 DEF SendPanics
<1>7. ASSUME NEW j \in Jobs, CloseOut(j) PROVE HeldInv' /\ CloseInv'
  BY <1>7 DEF CloseOut
<1>8. ASSUME NEW j \in Jobs, JobDone(j) PROVE HeldInv' /\ CloseInv'
  BY <1>8 DEF JobDone
<1>9. CASE WaitReturns \/ CloseInput \/ UNCHANGED vars
  BY <1>9 DEF WaitReturns, CloseInput, vars
<1> QED
  BY <1>1, <1>2, <1>3, <1>4, <1>5, <1>6, <1>7, <1>8, <1>9 DEF Next, JobStep

(* What the types say of single flows.                                     *)
LEMMA PlaceTypes ==
    ASSUME Types
    PROVE  /\ fed \in Nat /\ \A j \in Jobs : held[j] \in Nat
           /\ Len(out) \in Nat /\ DOMAIN out = 1..Len(out)
           /\ \A i \in 1..Len(out) : out[i] \in Nat \ {0}
           /\ \A f \in discarded : f \in Nat \ {0}
<1>1. fed \in Nat /\ \A j \in Jobs : held[j] \in Nat
  BY DEF Types
<1>2. Len(out) \in Nat /\ DOMAIN out = 1..Len(out)
  BY DEF Types
<1>3. ASSUME NEW i \in 1..Len(out) PROVE out[i] \in Nat \ {0}
  <2>1. out \in Seq(1..MaxFlows)
    BY DEF Types
  <2>2. out[i] \in 1..MaxFlows
    BY <2>1, ElementOfSeq, Zenon
  <2> QED
    BY <2>2
<1>4. \A f \in discarded : f \in Nat \ {0}
  BY DEF Types
<1> QED
  BY <1>1, <1>2, <1>3, <1>4

LEMMA NextPlace == IInv /\ [Next]_vars => PlaceInv'
<1> SUFFICES ASSUME IInv, [Next]_vars PROVE PlaceInv'
  OBVIOUS
<1>0. /\ fed \in Nat /\ \A j \in Jobs : held[j] \in Nat
      /\ Len(out) \in Nat /\ \A i \in 1..Len(out) : out[i] \in Nat \ {0}
      /\ \A f \in discarded : f \in Nat \ {0}
  BY PlaceTypes DEF IInv
<1>7. held \in [Jobs -> 0..MaxFlows] /\ out \in Seq(1..MaxFlows)
  BY DEF IInv, Types
<1>6. Placed /\ Known /\ Apart
  BY DEF IInv, PlaceInv
<1> USE DEF NoFlow
<1>1. ASSUME NEW j \in Jobs, Receive(j) PROVE PlaceInv'
  <2>1. /\ fed' = fed + 1 /\ out' = out /\ discarded' = discarded
        /\ held'[j] = fed + 1 /\ \A k \in Jobs \ {j} : held'[k] = held[k]
    BY <1>7, <1>1 DEF Receive
  <2>2. held[j] = 0
    BY <1>1 DEF Receive, IInv, HeldInv
  <2>3. Placed'
    BY <1>0, <1>6, <2>1, <2>2 DEF Placed
  <2>4. Known'
    BY <1>0, <1>6, <2>1 DEF Known
  <2>5. Apart'
    BY <1>0, <1>6, <2>1 DEF Apart, Known
  <2> QED
    BY <2>3, <2>4, <2>5 DEF PlaceInv
<1>2. ASSUME NEW j \in Jobs, Discard(j) PROVE PlaceInv'
  <2>1. /\ fed' = fed /\ out' = out /\ discarded' = discarded \cup {held[j]}
        /\ held'[j] = 0 /\ \A k \in Jobs \ {j} : held'[k] = held[k]
    BY <1>7, <1>2 DEF Discard
  <2>2. held[j] # 0
    BY <1>2 DEF Discard, IInv, HeldInv
  <2>3. Placed'
    BY <1>0, <1>6, <2>1, <2>2 DEF Placed
  <2>4. Known'
    BY <1>0, <1>6, <2>1 DEF Known
  <2>5. Apart'
    BY <1>0, <1>6, <2>1, <2>2 DEF Apart
  <2> QED
    BY <2>3, <2>4, <2>5 DEF PlaceInv
<1>3. ASSUME NEW j \in Jobs, Send(j) PROVE PlaceInv'
  <2>1. /\ fed' = fed /\ out' = Append(out, held[j]) /\ discarded' = discarded
        /\ held'[j] = 0 /\ \A k \in Jobs \ {j} : held'[k] = held[k]
    BY <1>7, <1>3 DEF Send
  <2>2. held[j] # 0
    BY <1>3 DEF Send, IInv, HeldInv
  <2>3. /\ Len(out') = Len(out) + 1 /\ out'[Len(out) + 1] = held[j]
        /\ \A i \in 1..Len(out) : out'[i] = out[i]
    BY <1>7, <2>1
  <2>4. Placed'
    <3> SUFFICES ASSUME NEW f \in 1..fed
                 PROVE  \/ \E k \in Jobs : held'[k] = f
                        \/ \E i \in 1..Len(out') : out'[i] = f
                        \/ f \in discarded
      BY <2>1 DEF Placed
    <3>1. CASE f = held[j]
      BY <3>1, <1>0, <2>3
    <3>2. CASE f # held[j]
      BY <3>2, <1>0, <1>6, <2>1, <2>3 DEF Placed
    <3> QED
      BY <3>1, <3>2
  <2>5. Known'
    BY <1>0, <1>6, <2>1, <2>3 DEF Known
  <2>6. Apart'
    <3>1. ASSUME NEW k \in Jobs, NEW i \in 1..Len(out') PROVE held'[k] # out'[i]
      <4>1. CASE i = Len(out) + 1
        BY <4>1, <1>0, <1>6, <2>1, <2>2, <2>3 DEF Apart
      <4>2. CASE i \in 1..Len(out)
        BY <4>2, <1>0, <1>6, <2>1, <2>3 DEF Apart
      <4> QED
        BY <4>1, <4>2, <1>0, <2>3
    <3>2. ASSUME NEW i \in 1..Len(out') PROVE out'[i] \notin discarded'
      BY <3>2, <1>0, <1>6, <2>1, <2>3 DEF Apart
    <3>3. \A k \in Jobs : held'[k] \notin discarded'
      BY <1>0, <1>6, <2>1 DEF Apart
    <3>4. \A k, l \in Jobs : held'[k] = held'[l] => k = l \/ held'[k] = NoFlow
      BY <1>6, <2>1 DEF Apart
    <3>5. ASSUME NEW i \in 1..Len(out'), NEW k \in 1..Len(out'), out'[i] = out'[k] PROVE i = k
      <4>1. \A l \in 1..Len(out) : out'[l] # held[j]
        BY <1>6, <2>3 DEF Apart
      <4>2. i \in 1..Len(out) \/ i = Len(out) + 1
        BY <1>0, <2>3
      <4>3. k \in 1..Len(out) \/ k = Len(out) + 1
        BY <1>0, <2>3
      <4> QED
        BY <3>5, <4>1, <4>2, <4>3, <1>6, <2>3 DEF Apart
    <3> QED
      BY <3>1, <3>2, <3>3, <3>4, <3>5 DEF Apart
  <2> QED
    BY <2>4, <2>5, <2>6 DEF PlaceInv
<1>4. ASSUME NEW j \in Jobs,
             StartJob(j) \/ Accept(j) \/ SendPanics(j) \/ CloseOut(j) \/ JobDone(j)
      PROVE  PlaceInv'
  <2>1. UNCHANGED <<fed, held, out, discarded>>
    BY <1>4 DEF StartJob, Accept, SendPanics, CloseOut, JobDone
  <2> QED
    BY <2>1, <1>6 DEF PlaceInv, Placed, Known, Apart
<1>5. CASE WaitReturns \/ CloseInput \/ UNCHANGED vars
  <2>1. UNCHANGED <<fed, held, out, discarded>>
    BY <1>5 DEF WaitReturns, CloseInput, vars
  <2> QED
    BY <2>1, <1>6 DEF PlaceInv, Placed, Known, Apart
<1> QED
  BY <1>1, <1>2, <1>3, <1>4, <1>5 DEF Next, JobStep

(* In every reachable state a flow is with one job, came out once or was   *)
(* dropped, and a panic at teardown costs less than one flow per job: for  *)
(* every number of jobs and flows.                                         *)
THEOREM LossAtTeardown == Spec => []LossIsBounded
<1>1. IInv /\ [Next]_vars => IInv'
  BY NextTypes, NextCount, NextHeldClose, NextPlace DEF IInv
<1>2. IInv => LossIsBounded
  <2> SUFFICES ASSUME IInv PROVE LossIsBounded
    OBVIOUS
  <2>1. TypeOK
    <3>1. Cardinality(Running) \in 0..Cardinality(Jobs)
      BY FS_Subset, FS_CardinalityType, JobsAssumption DEF Running
    <3> QED
      BY <3>1 DEF IInv, Types, CountInv, TypeOK
  <2>2. OnePlace
    <3>1. /\ fed \in Nat /\ \A j \in Jobs : held[j] \in Nat
          /\ DOMAIN out = 1..Len(out) /\ \A i \in 1..Len(out) : out[i] \in Nat \ {0}
          /\ \A f \in discarded : f \in Nat \ {0}
      BY PlaceTypes DEF IInv
    <3>2. 1..fed \subseteq Worked \cup Received \cup discarded
      BY <3>1 DEF IInv, PlaceInv, Placed, Worked, Received, NoFlow
    <3>3. Worked \cup Received \cup discarded \subseteq 1..fed
      BY <3>1 DEF IInv, PlaceInv, Known, Worked, Received, NoFlow
    <3> QED
      BY <3>1, <3>2, <3>3 DEF IInv, PlaceInv, Apart, OnePlace, Worked, Received
  <2>3. ASSUME crashed PROVE Cardinality({j \in Jobs : held[j] # NoFlow}) < Cardinality(jobs)
    <3> DEFINE W == {j \in Jobs : held[j] # NoFlow}
    <3>1. PICK k \in Jobs : pc[k] \in {"done", "exited"}
      BY <2>3 DEF IInv, CloseInv
    <3>2. W \subseteq jobs /\ k \in jobs /\ k \notin W
      BY <3>1 DEF IInv, HeldInv, jobs
    <3>3. IsFiniteSet(jobs)
      BY FS_Subset, JobsAssumption DEF jobs
    <3>4. /\ Cardinality(W) <= Cardinality(jobs) /\ (Cardinality(W) = Cardinality(jobs) => W = jobs)
          /\ Cardinality(jobs) \in Nat /\ Cardinality(W) \in Nat
      BY <3>2, <3>3, FS_Subset, FS_CardinalityType
    <3> QED
      BY <3>2, <3>4
  <2> QED
    BY <2>1, <2>2, <2>3 DEF IInv, CloseInv, LossIsBounded
<1> QED
  BY InitInv, <1>1, <1>2, PTL DEF Spec
=============================================================================

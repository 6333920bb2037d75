---------------------------- MODULE FlowPipeline ----------------------------
(***************************************************************************)
(* A Pipeline in use, as main.go and the tests use it: an owner starts the *)
(* segments, drains Out with AutoDrain, may feed In, waits for a signal    *)
(* and closes the pipeline; a subscriber may ask for the dropped flows     *)
(* with GetDrop at any time, also while segments are running.              *)
(***************************************************************************)
EXTENDS Pipeline, Sequences, FiniteSets

CONSTANT MaxFlows   \* bound: flows each source puts into the pipeline

ASSUME MaxFlowsAssumption == MaxFlows \in Nat

VARIABLES
    owner,      \* where main is
    sigs,       \* signals in the channel sigs, which has room for one
    drain,      \* the AutoDrain goroutine
    dropper,    \* the caller of GetDrop: 0 not yet, i: about to subscribe
                \* segment i, N+1: GetDrop returned, receiving from Drop
    produced,   \* how many flows each source has put in; 0 feeds In
    out,        \* the flows received from Out, in order
    dropped,    \* the flows received from Drop
    discarded   \* the flows a filter dropped while its Drops was nil

envVars == <<owner, sigs, drain, dropper>>
flowVars == <<produced, out, dropped, discarded>>
vars == <<pipeVars, envVars, flowVars>>

OwnerPlaces ==
    {"starting", "autodrain", "running", "feeding", "closing", "waiting",
     "closed", "killed"}

TypeOK ==
    /\ PipeTypeOK
    /\ owner \in OwnerPlaces
    /\ sigs \in 0..1
    /\ drain \in {"off", "on", "finished"}
    /\ dropper \in 0..(N + 1)
    /\ produced \in [Chans -> 0..MaxFlows]
    /\ out \in Seq(Flow)
    /\ dropped \in SUBSET Flow
    /\ discarded \in SUBSET Flow

Init ==
    /\ PipeInit
    /\ owner = "starting"
    /\ sigs = 0
    /\ drain = "off"
    /\ dropper = 0
    /\ produced = [s \in Chans |-> 0]
    /\ out = << >>
    /\ dropped = {}
    /\ discarded = {}

(* The next flow of source s.                                              *)
NextFlow(s) == [src |-> s, n |-> produced[s] + 1]

-----------------------------------------------------------------------------
(* The owner.                                                              *)

(* Start: the segments are started in the order of the list.               *)
Start(i) ==
    /\ owner = "starting"
    /\ \A j \in 1..(i - 1) : pc[j] # "new"
    /\ StartSegment(i)
    /\ owner' = IF i = N THEN "autodrain" ELSE owner
    /\ UNCHANGED <<sigs, drain, dropper, flowVars>>

AutoDrain ==
    /\ owner = "autodrain"
    /\ owner' = "running"
    /\ drain' = "on"
    /\ UNCHANGED <<pipeVars, sigs, dropper, flowVars>>

(* pipeline.In <- msg, which blocks until the first segment receives.      *)
Feed ==
    /\ owner = "running"
    /\ produced[0] < MaxFlows
    /\ owner' = "feeding"
    /\ UNCHANGED <<pipeVars, sigs, drain, dropper, flowVars>>

Fed ==
    /\ owner = "feeding"
    /\ Push(NextFlow(0))
    /\ produced' = [produced EXCEPT ![0] = @ + 1]
    /\ owner' = "running"
    /\ UNCHANGED <<sigs, drain, dropper, out, dropped, discarded>>

(* A SIGINT from the user, or a segment's ShutdownParentPipeline.          *)
Interrupt ==
    /\ owner # "killed"
    /\ sigs = 0
    /\ sigs' = 1
    /\ UNCHANGED <<pipeVars, owner, drain, dropper, flowVars>>

(* <-sigs, after which the deferred Close runs.  segment.Close() does      *)
(* nothing for the kinds of segment modelled here.                         *)
Shutdown ==
    /\ owner = "running"
    /\ sigs = 1
    /\ sigs' = 0
    /\ owner' = "closing"
    /\ UNCHANGED <<pipeVars, drain, dropper, flowVars>>

Close ==
    /\ owner = "closing"
    /\ CloseIn
    /\ owner' = "waiting"
    /\ UNCHANGED <<sigs, drain, dropper, flowVars>>

(* pipeline.wg.Wait() returns, and Close with it.                          *)
WaitReturns ==
    /\ owner = "waiting"
    /\ wg = 0
    /\ owner' = "closed"
    /\ UNCHANGED <<pipeVars, sigs, drain, dropper, flowVars>>

(* Close may be called again: close(In) then panics and is recovered.      *)
CloseAgain ==
    /\ owner = "closed"
    /\ owner' = "closing"
    /\ UNCHANGED <<pipeVars, sigs, drain, dropper, flowVars>>

(* The goroutine main leaves behind ends the process after 15 seconds.     *)
ForceQuit ==
    /\ owner \in {"closing", "waiting"}
    /\ owner' = "killed"
    /\ UNCHANGED <<pipeVars, sigs, drain, dropper, flowVars>>

Killed == owner = "killed" /\ UNCHANGED vars

-----------------------------------------------------------------------------
(* The goroutines, while the process lives.                                *)

(* The AutoDrain goroutine: for range pipeline.Out.                        *)
DrainOne ==
    /\ owner # "killed"
    /\ drain = "on"
    /\ Pull
    /\ out' = Append(out, held[N])
    /\ UNCHANGED <<envVars, produced, dropped, discarded>>

DrainEnd ==
    /\ owner # "killed"
    /\ drain = "on"
    /\ N \in closed
    /\ drain' = "finished"
    /\ UNCHANGED <<pipeVars, owner, sigs, dropper, flowVars>>

(* GetDrop makes the Drop channel and subscribes the segments one by one.  *)
GetDrop ==
    /\ owner # "killed"
    /\ dropper = 0
    /\ dropper' = 1
    /\ UNCHANGED <<pipeVars, owner, sigs, drain, flowVars>>

SubscribeNext ==
    /\ owner # "killed"
    /\ dropper \in Segs
    /\ SubscribeSegment(dropper)
    /\ dropper' = dropper + 1
    /\ UNCHANGED <<owner, sigs, drain, flowVars>>

TakeDrop(i) ==
    /\ owner # "killed"
    /\ dropper = N + 1
    /\ PullDrop(i)
    /\ dropped' = dropped \cup {held[i]}
    /\ UNCHANGED <<envVars, produced, out, discarded>>

GenerateFlow(i) ==
    /\ owner # "killed"
    /\ produced[i] < MaxFlows
    /\ Generate(i, NextFlow(i))
    /\ produced' = [produced EXCEPT ![i] = @ + 1]
    /\ UNCHANGED <<envVars, out, dropped, discarded>>

DiscardFlow(i) ==
    /\ owner # "killed"
    /\ Discard(i)
    /\ discarded' = discarded \cup {held[i]}
    /\ UNCHANGED <<envVars, produced, out, dropped>>

Run(i) ==
    /\ owner # "killed"
    /\ SegStep(i)
    /\ UNCHANGED <<envVars, flowVars>>

Next ==
    \/ \E i \in Segs : Start(i)
    \/ AutoDrain \/ Feed \/ Fed \/ Interrupt \/ Shutdown \/ Close
    \/ WaitReturns \/ CloseAgain \/ ForceQuit \/ Killed
    \/ DrainOne \/ DrainEnd \/ GetDrop \/ SubscribeNext
    \/ \E i \in Segs : TakeDrop(i) \/ GenerateFlow(i) \/ DiscardFlow(i) \/ Run(i)

(* The Go scheduler runs every goroutine that can run, so each of them is  *)
(* weakly fair.  An input segment chooses between its source and the       *)
(* closed In by a select, which picks among ready cases at random: leaving *)
(* the loop is strongly fair.  Nobody is obliged to feed, to interrupt, to *)
(* generate, to ask for drops or to let the 15 seconds pass.               *)
Fairness ==
    /\ \A i \in Segs :
          /\ WF_vars(Start(i))
          /\ WF_vars(Run(i) \/ DiscardFlow(i))
          /\ SF_vars(owner # "killed" /\ CloseOut(i) /\ UNCHANGED <<envVars, flowVars>>)
          /\ WF_vars(TakeDrop(i))
    /\ WF_vars(AutoDrain) /\ WF_vars(Fed) /\ WF_vars(Shutdown)
    /\ WF_vars(Close) /\ WF_vars(WaitReturns)
    /\ WF_vars(DrainOne) /\ WF_vars(DrainEnd) /\ WF_vars(SubscribeNext)

Spec == Init /\ [][Next]_vars
FairSpec == Spec /\ Fairness

-----------------------------------------------------------------------------
(* Properties.                                                             *)

(* All flows that were put into the pipeline.                              *)
Emitted == {f \in [src : Chans, n : 1..MaxFlows] : f.n <= produced[f.src]}

(* The flows some segment has received and not passed on.                  *)
InFlight == {held[i] : i \in Segs} \ {NoFlow}

Delivered == {out[k] : k \in DOMAIN out}

(* No goroutine ever sends on a channel that is closed, which would panic  *)
(* and end the process: when a segment is at its send, or still has a      *)
(* message to send, nobody has closed its Out, and In is open while the    *)
(* owner is sending to it.                                                 *)
NoSendOnClosed ==
    /\ \A i \in Segs : pc[i] \in {"recv", "work", "send", "drop"} => i \notin closed
    /\ owner = "feeding" => 0 \notin closed

(* The close event travels behind the last message: once a channel is      *)
(* closed, every segment before it has stopped and holds nothing, so a     *)
(* closed Out tells the reader that everything has come out.               *)
CloseFollowsFlows ==
    \A c \in closed, i \in Segs :
        i <= c => pc[i] \in {"done", "exited"} /\ held[i] = NoFlow

(* Close() returns only when every goroutine of the pipeline has returned, *)
(* Out is closed and no flow is left inside.                               *)
CloseWaitsForAll ==
    owner = "closed" =>
        /\ \A i \in Segs : pc[i] = "exited"
        /\ N \in closed
        /\ InFlight = {}

(* Closing is orderly: no goroutine sends on a closed channel, the close   *)
(* event travels behind the last flow through the whole chain, and Close() *)
(* returns when it has arrived and every goroutine is gone.                *)
CloseIsOrderly == NoSendOnClosed /\ CloseFollowsFlows /\ CloseWaitsForAll

(* Segment i is not waiting for anybody: it works, it has seen its In      *)
(* closed, or the other party of its send is at the receive.               *)
CanStep(i) ==
    \/ pc[i] \in {"work", "quit", "done"}
    \/ pc[i] = "recv" /\ i - 1 \in closed
    \/ pc[i] = "send" /\ (IF i = N THEN drain = "on" ELSE pc[i + 1] = "recv")
    \/ pc[i] = "drop" /\ dropper = N + 1

(* The goroutines of the chain never all wait for each other.  As long as  *)
(* a flow is inside, the owner is blocked in In <- msg, or Close() waits   *)
(* for goroutines that have not returned, one of them can go on: Start or  *)
(* GetDrop with its loop, the owner with its send, or some segment.  This  *)
(* is what backpressure over unbuffered channels has to promise, and what  *)
(* a send nobody receives or a forgotten close(Out) would break.           *)
NeverStuck ==
    InFlight # {} \/ owner = "feeding" \/ (owner = "waiting" /\ wg # 0) =>
        \/ owner \in {"starting", "autodrain", "killed"}
        \/ owner = "feeding" /\ pc[1] = "recv"
        \/ dropper \in Segs
        \/ \E i \in Segs : CanStep(i)

(* Every flow that was put in is at exactly one place: held by one         *)
(* segment, received from Out, received from Drop, or discarded by a       *)
(* filter nobody had subscribed to.  Nothing is lost on the way, and       *)
(* nothing is duplicated.                                                  *)
EveryFlowAccounted ==
    /\ Emitted = InFlight \cup Delivered \cup dropped \cup discarded
    /\ \A i, j \in Segs : i # j /\ held[i] = held[j] => held[i] = NoFlow
    /\ InFlight \cap (Delivered \cup dropped \cup discarded) = {}
    /\ Delivered \cap (dropped \cup discarded) = {}
    /\ dropped \cap discarded = {}

(* "Only the default value 1 guarantees a stable order of the flows in and *)
(* out of flowpipeline" (the -n flag of main.go): within one pipeline the  *)
(* flows of one source come out in the order in which they went in.        *)
StableOrder ==
    \A j, k \in DOMAIN out :
        j < k /\ out[j].src = out[k].src => out[j].n < out[k].n

(* Nothing is lost, duplicated or overtaken on the way through the chain.  *)
AccountedInOrder == TypeOK /\ EveryFlowAccounted /\ StableOrder

(* Once GetDrop has returned, no flow is discarded any more: every flow a  *)
(* filter drops from then on goes to the Drop channel.                     *)
SubscribedSeesAllDrops ==
    [][dropper = N + 1 => discarded' = discarded]_vars

(* After a SIGINT the pipeline closes by itself, however many flows are    *)
(* under way, unless the 15 seconds are over first: TestPipelineTeardown   *)
(* ("fail test on halting").                                               *)
GracefulShutdown == sigs = 1 ~> owner \in {"closed", "killed"}

(* No flow is stuck inside: a segment that holds a flow gets rid of it, to *)
(* the next segment, to Drop or by discarding it, also during a shutdown,  *)
(* and at no time do all goroutines wait for each other.                   *)
FlowsMoveOn ==
    /\ []NeverStuck
    /\ \A i \in Segs : held[i] # NoFlow ~> held[i] = NoFlow \/ owner = "killed"

(* The pipeline implements the transfer: flows enter when a segment first  *)
(* holds them, and the transfer has ended when every goroutine returned.   *)
Transfer == INSTANCE FlowTransfer WITH
    Source <- Chans,
    transit <- InFlight,
    removed <- dropped \cup discarded,
    ended <- \A i \in Segs : pc[i] = "exited"

(* Every step of the pipeline is a step of FlowTransfer or changes nothing *)
(* in it: seen from its ends the chain of goroutines is one queue per      *)
(* source that may lose flows only to filters.                             *)
ImplementsTransfer == Transfer!Spec
=============================================================================

--------------------------- MODULE KafkaConsumer ---------------------------
(***************************************************************************)
(* The kafkaconsumer segment (input/kafkaconsumer). Goroutines: Run, the   *)
(* goroutine that calls client.Consume and retries it (con), one           *)
(* ConsumeClaim for each partition of a session (claim), and the caller of *)
(* Close, who then closes the pipeline's In (closer). The library's        *)
(* session calls Setup, starts the claims, cancels their context when the  *)
(* group is rebalanced or handlerCtx is cancelled, closes Messages(),      *)
(* waits for the claims, commits the marked offsets and calls Cleanup.     *)
(*                                                                         *)
(* A message is a partition and its offset. Setup makes a new channel      *)
(* handler.flows; channels are numbered, and Run listens on the one it     *)
(* found in handler.flows when it entered its select.                      *)
(***************************************************************************)
EXTENDS Integers, Sequences, FiniteSetsExt

CONSTANTS
    Partitions,
    MaxRetries,     \* of client.Consume; 12 in the code
    MaxMessages,    \* bound: messages in all partitions
    MaxBad,         \* bound: only the first messages of a partition can be undecodable
    MaxSessions     \* bound: sessions

ASSUME BoundsAssumption ==
    MaxRetries \in Nat /\ MaxMessages \in Nat /\ MaxBad \in 0..MaxMessages /\ MaxSessions \in Nat \ {0}

VARIABLES
    legacy, startAt,    \* configuration
    bad,                \* the offsets whose messages cannot be decoded
    proc,               \* "up", or how the process ended: "panic", "fatal"
    run, msg, listen,   \* Run, the flow it sends on Out, and its flows channel
    con, retries,       \* the retry goroutine
    cancelled,          \* handlerCancel has been called
    sess,               \* the session
    flows, closed,      \* the channel in handler.flows; the closed ones
    claim, pos,         \* ConsumeClaim, and the offset it has read up to
    drained,            \* Messages() is closed
    produced,           \* the length of each partition
    marked, committed,  \* offsets; -1: none
    closer,             \* Pipeline.Close
    shutClosed, inClosed, \* closed channels
    base,               \* where the last session without a stored offset started
    out                 \* messages sent on Out

config == <<legacy, startAt, bad>>
runVars == <<run, msg, listen>>
conVars == <<con, retries>>
sessVars == <<sess, flows, closed, drained, committed, base>>
claimVars == <<claim, pos, marked>>
closeVars == <<closer, shutClosed, inClosed>>
vars == <<config, proc, runVars, conVars, cancelled, sessVars, claimVars, produced, closeVars, out>>

Message == Partitions \X (Nat \ {0})
InFlow == << >>     \* a flow that came from In

TypeOK ==
    /\ legacy \in BOOLEAN /\ startAt \in {"oldest", "newest"} /\ bad \subseteq 1..MaxBad
    /\ proc \in {"up", "panic", "fatal"}
    /\ run \in {"ready", "select", "send", "wait", "done"}
    /\ msg \in Message \cup {InFlow}
    /\ con \in {"loop", "consume", "retry", "abort", "exited"} /\ retries \in 0..MaxRetries
    /\ cancelled \in BOOLEAN
    /\ sess \in {"none", "setup", "running", "ending"}
    /\ flows \in 0..MaxSessions /\ listen \in 0..flows /\ closed \subseteq 0..flows
    /\ claim \in [Partitions -> {"off", "select", "send"}] /\ pos \in [Partitions -> Nat]
    /\ drained \in BOOLEAN /\ produced \in [Partitions -> Nat]
    /\ marked \in [Partitions -> Nat \cup {-1}] /\ committed \in [Partitions -> Nat \cup {-1}]
    /\ closer \in {"idle", "send", "close", "closeIn", "wait"}
    /\ shutClosed \in BOOLEAN /\ inClosed \in BOOLEAN
    /\ base \in [Partitions -> Nat] /\ out \in Seq(Message)

Init ==
    /\ legacy \in BOOLEAN /\ startAt \in {"oldest", "newest"} /\ bad \in SUBSET (1..MaxBad)
    /\ proc = "up" /\ run = "ready" /\ msg = InFlow /\ listen = 0
    /\ con = "loop" /\ retries = 0 /\ cancelled = FALSE
    /\ sess = "none" /\ flows = 0 /\ closed = {} /\ drained = FALSE
    /\ claim = [p \in Partitions |-> "off"] /\ pos = [p \in Partitions |-> 0]
    /\ produced = [p \in Partitions |-> 0]
    /\ marked = [p \in Partitions |-> -1] /\ committed = [p \in Partitions |-> -1]
    /\ closer = "idle" /\ shutClosed = FALSE /\ inClosed = FALSE
    /\ base = [p \in Partitions |-> 0] /\ out = << >>

-----------------------------------------------------------------------------
(* The topic: somebody produces messages.                                  *)
TopicSize == MapThenSumSet(LAMBDA p : produced[p], Partitions)

Produce(p) ==
    /\ proc = "up" /\ TopicSize < MaxMessages
    /\ produced' = [produced EXCEPT ![p] = @ + 1]
    /\ UNCHANGED <<config, proc, runVars, conVars, cancelled, sessVars, claimVars, closeVars, out>>

(* The session and Consume, as the library calls the handler.              *)

(* Where a claim starts: at the stored offset; without one, Offsets.Initial *)
(* decides.                                                                *)
StartOffset(p) ==
    IF committed[p] >= 0 THEN committed[p]
    ELSE IF startAt = "oldest" THEN 0 ELSE produced[p]

(* The connection retry loop: it ends when handlerCtx is cancelled.        *)
RetryLoop ==
    /\ proc = "up" /\ con = "loop"
    /\ con' = IF cancelled THEN "exited" ELSE "consume"
    /\ UNCHANGED <<config, proc, runVars, retries, cancelled, sessVars, claimVars, produced, closeVars, out>>

(* Consume has returned: without an error the loop goes on, with an error  *)
(* it waits for the next try, and after MaxRetries of them log.Fatal ends  *)
(* the process. The number of retries is never reset.                      *)
ConsumeReturned ==
    \/ con' = "loop" /\ UNCHANGED <<retries, proc>>
    \/ retries < MaxRetries /\ con' = "retry" /\ retries' = retries + 1 /\ UNCHANGED proc
    \/ retries = MaxRetries /\ proc' = "fatal" /\ UNCHANGED conVars

ConsumeFails ==
    /\ proc = "up" /\ con = "consume" /\ sess = "none"
    /\ ConsumeReturned /\ con' # "loop"
    /\ UNCHANGED <<config, runVars, cancelled, sessVars, claimVars, produced, closeVars, out>>

(* Setup, up to its send on ready.                                         *)
Setup ==
    /\ proc = "up" /\ con = "consume" /\ sess = "none" /\ flows < MaxSessions
    /\ sess' = "setup" /\ flows' = flows + 1
    /\ UNCHANGED <<config, proc, runVars, conVars, cancelled, closed, drained, committed, base, claimVars, produced, closeVars, out>>

(* Setup sends true, Run receives it in its first wait or in its loop and  *)
(* enters the select with the new channel. The session's claims start.     *)
Ready ==
    /\ proc = "up" /\ sess = "setup" /\ run \in {"ready", "select"}
    /\ run' = "select" /\ listen' = flows
    /\ sess' = "running" /\ drained' = FALSE
    /\ claim' = [p \in Partitions |-> "select"]
    /\ pos' = [p \in Partitions |-> StartOffset(p)]
    /\ base' = [p \in Partitions |-> IF committed[p] >= 0 THEN base[p] ELSE StartOffset(p)]
    /\ UNCHANGED <<config, proc, msg, conVars, cancelled, flows, closed, marked, committed, produced, closeVars, out>>

(* The session's context is done: a rebalance, or handlerCtx.              *)
EndSession ==
    /\ proc = "up" /\ sess = "running" /\ (cancelled \/ flows < MaxSessions)
    /\ sess' = "ending"
    /\ UNCHANGED <<config, proc, runVars, conVars, cancelled, flows, closed, drained, committed, base, claimVars, produced, closeVars, out>>

CloseMessages ==
    /\ proc = "up" /\ sess = "ending" /\ ~drained
    /\ drained' = TRUE
    /\ UNCHANGED <<config, proc, runVars, conVars, cancelled, sess, flows, closed, committed, base, claimVars, produced, closeVars, out>>

(* All claims have returned: Cleanup closes the channel, the marked        *)
(* offsets are stored, Consume returns.                                    *)
Cleanup ==
    /\ proc = "up" /\ sess = "ending" /\ \A p \in Partitions : claim[p] = "off"
    /\ sess' = "none" /\ closed' = closed \cup {flows} /\ committed' = marked
    /\ ConsumeReturned
    /\ UNCHANGED <<config, runVars, cancelled, flows, drained, base, claimVars, produced, closeVars, out>>

-----------------------------------------------------------------------------
(* ConsumeClaim.                                                           *)

(* A legacy message is marked before it is decoded; others are never       *)
(* marked. What cannot be decoded is logged. After the context is done the *)
(* select may still choose a message.                                      *)
ClaimTake(p) ==
    /\ proc = "up" /\ claim[p] = "select" /\ pos[p] < produced[p]
    /\ pos' = [pos EXCEPT ![p] = @ + 1]
    /\ marked' = IF legacy THEN [marked EXCEPT ![p] = pos[p] + 1] ELSE marked
    /\ claim' = [claim EXCEPT ![p] = IF pos[p] + 1 \in bad THEN "select" ELSE "send"]
    /\ UNCHANGED <<config, proc, runVars, conVars, cancelled, sessVars, produced, closeVars, out>>

(* A closed Messages() delivers nil, whose Value cannot be read.           *)
ClaimNil(p) ==
    /\ proc = "up" /\ claim[p] = "select" /\ drained
    /\ proc' = "panic"
    /\ UNCHANGED <<config, runVars, conVars, cancelled, sessVars, claimVars, produced, closeVars, out>>

(* Faulty: the send gives up when the context is done.                     *)
ClaimReturn_Sending(p) ==
    /\ proc = "up" /\ claim[p] \in {"select", "send"} /\ sess = "ending"
    /\ claim' = [claim EXCEPT ![p] = "off"]
    /\ UNCHANGED <<config, proc, runVars, conVars, cancelled, sessVars, pos, marked, produced, closeVars, out>>

ClaimReturn(p) ==
    /\ proc = "up" /\ claim[p] = "select" /\ sess = "ending"
    /\ claim' = [claim EXCEPT ![p] = "off"]
    /\ UNCHANGED <<config, proc, runVars, conVars, cancelled, sessVars, pos, marked, produced, closeVars, out>>

-----------------------------------------------------------------------------
(* Run.                                                                    *)

ReceiveFlow(p) ==
    /\ proc = "up" /\ run = "select" /\ claim[p] = "send" /\ listen = flows
    /\ run' = "send" /\ msg' = <<p, pos[p]>>
    /\ claim' = [claim EXCEPT ![p] = "select"]
    /\ UNCHANGED <<config, proc, listen, conVars, cancelled, sessVars, pos, marked, produced, closeVars, out>>

(* A closed flows channel: continue, with the channel found then.          *)
Rebalanced ==
    /\ proc = "up" /\ run = "select" /\ listen \in closed
    /\ listen' = flows
    /\ UNCHANGED <<config, proc, run, msg, conVars, cancelled, sessVars, claimVars, produced, closeVars, out>>

ReceiveIn ==
    /\ proc = "up" /\ run = "select" /\ ~inClosed
    /\ run' = "send" /\ msg' = InFlow
    /\ UNCHANGED <<config, proc, listen, conVars, cancelled, sessVars, claimVars, produced, closeVars, out>>

SendOut ==
    /\ proc = "up" /\ run = "send"
    /\ out' = IF msg = InFlow THEN out ELSE Append(out, msg)
    /\ run' = "select" /\ msg' = InFlow /\ listen' = flows
    /\ UNCHANGED <<config, proc, conVars, cancelled, sessVars, claimVars, produced, closeVars>>

(* In is closed: handlerCancel, and the deferred handlerWg.Wait.           *)
InEnds ==
    /\ proc = "up" /\ run = "select" /\ inClosed
    /\ run' = "wait" /\ cancelled' = TRUE
    /\ UNCHANGED <<config, proc, msg, listen, conVars, sessVars, claimVars, produced, closeVars, out>>

(* A receive from shutdown meets Close's send, or finds it closed.         *)
FromShutdown ==
    \/ closer = "send" /\ closer' = "close" /\ UNCHANGED <<shutClosed, inClosed>>
    \/ shutClosed /\ UNCHANGED closeVars

(* Faulty: Run waits for the retry loop and has not cancelled handlerCtx.  *)
RunShutdown_NoCancel ==
    /\ proc = "up" /\ run = "select" /\ FromShutdown
    /\ run' = "wait"
    /\ UNCHANGED <<config, proc, msg, listen, conVars, cancelled, sessVars, claimVars, produced, out>>

RunShutdown ==
    /\ proc = "up" /\ run = "select" /\ FromShutdown
    /\ run' = "wait" /\ cancelled' = TRUE
    /\ UNCHANGED <<config, proc, msg, listen, conVars, sessVars, claimVars, produced, out>>

(* ready <- false of a given-up connection, in the first wait or the loop. *)
NotReady ==
    /\ proc = "up" /\ con = "abort" /\ run \in {"ready", "select"}
    /\ run' = "wait" /\ cancelled' = TRUE /\ con' = "exited"
    /\ UNCHANGED <<config, proc, msg, listen, retries, sessVars, claimVars, produced, closeVars, out>>

RunReturn ==
    /\ proc = "up" /\ run = "wait" /\ con = "exited"
    /\ run' = "done"
    /\ UNCHANGED <<config, proc, msg, listen, conVars, cancelled, sessVars, claimVars, produced, closeVars, out>>

-----------------------------------------------------------------------------
(* The wait between two tries: time.After, shutdown, or handlerCtx.        *)

RetryTimeout ==
    /\ proc = "up" /\ con = "retry"
    /\ con' = "loop"
    /\ UNCHANGED <<config, proc, runVars, retries, cancelled, sessVars, claimVars, produced, closeVars, out>>

RetryShutdown ==
    /\ proc = "up" /\ con = "retry" /\ FromShutdown
    /\ con' = "abort"
    /\ UNCHANGED <<config, proc, runVars, retries, cancelled, sessVars, claimVars, produced, out>>

RetryCancelled ==
    /\ proc = "up" /\ con = "retry" /\ cancelled
    /\ con' = "exited"
    /\ UNCHANGED <<config, proc, runVars, retries, cancelled, sessVars, claimVars, produced, closeVars, out>>

(* Close sends on shutdown and closes it; Pipeline.Close then closes In,   *)
(* and nobody else does.                                                   *)
Close ==
    /\ proc = "up"
    /\ \/ closer = "idle" /\ closer' = "send" /\ UNCHANGED <<shutClosed, inClosed>>
       \/ closer = "close" /\ closer' = "closeIn" /\ shutClosed' = TRUE /\ UNCHANGED inClosed
       \/ closer = "closeIn" /\ closer' = "wait" /\ inClosed' = TRUE /\ UNCHANGED shutClosed
    /\ UNCHANGED <<config, proc, runVars, conVars, cancelled, sessVars, claimVars, produced, out>>

Next ==
    \/ RetryLoop \/ ConsumeFails \/ Setup \/ Ready \/ EndSession \/ CloseMessages \/ Cleanup
    \/ Rebalanced \/ ReceiveIn \/ SendOut \/ InEnds \/ RunShutdown \/ NotReady \/ RunReturn
    \/ RetryTimeout \/ RetryShutdown \/ RetryCancelled \/ Close
    \/ \E p \in Partitions :
          Produce(p) \/ ClaimTake(p) \/ ClaimNil(p) \/ ClaimReturn(p) \/ ReceiveFlow(p)

Spec == Init /\ [][Next]_vars

(* Goroutines run; of a select's ready cases each is chosen now and then   *)
(* (a closed channel stays ready, the others may be taken away).           *)
Fairness ==
    /\ WF_vars(RetryLoop \/ RetryTimeout \/ RetryCancelled) /\ WF_vars(Setup \/ ConsumeFails)
    /\ WF_vars(EndSession /\ cancelled) /\ WF_vars(Cleanup)
    /\ SF_vars(Ready) /\ SF_vars(NotReady) /\ WF_vars(SendOut) /\ WF_vars(RunReturn)
    /\ WF_vars(InEnds) /\ WF_vars(Rebalanced) /\ SF_vars(RunShutdown)
    /\ WF_vars(Close /\ closer # "idle")
    /\ \A p \in Partitions :
          WF_vars(ClaimTake(p) \/ ClaimNil(p) \/ ClaimReturn(p)) /\ SF_vars(ReceiveFlow(p))

FairSpec == Spec /\ Fairness

-----------------------------------------------------------------------------
(* The offsets of p's messages on their way through the segment: sent on   *)
(* Out, in Run's hands, in the claim's.                                    *)
Delivered(p) == {out[i][2] : i \in {j \in DOMAIN out : out[j][1] = p}}
InRun(p) == IF run = "send" /\ msg # InFlow /\ msg[1] = p THEN {msg[2]} ELSE {}
InClaim(p) == IF claim[p] = "send" THEN {pos[p]} ELSE {}
Given(p) == Delivered(p) \cup InRun(p) \cup InClaim(p)

(* The messages of p are on their way in the order of their offsets, and   *)
(* none of them twice.                                                     *)
InOrder(p) ==
    /\ \A i, j \in DOMAIN out : i < j /\ out[i][1] = p /\ out[j][1] = p => out[i][2] < out[j][2]
    /\ \A o \in Delivered(p), q \in InRun(p) : o < q
    /\ \A o \in Delivered(p) \cup InRun(p), q \in InClaim(p) : o < q

(* The offsets from lo + 1 to hi whose messages can be decoded.            *)
Readable(lo, hi) == {o \in (lo + 1)..hi : o \notin bad}

(* Up to where the messages of p are marked.                               *)
MarkedUpTo(p) == IF marked[p] < 0 THEN base[p] ELSE marked[p]

(* Legacy messages are passed on exactly once and in order, across         *)
(* rebalances: they are marked before they are delivered, but ConsumeClaim *)
(* does not return before a marked message has been handed over, so that   *)
(* the next session starts behind it and it is not lost.  In either mode a *)
(* consumer that starts at the oldest message skips none that can be       *)
(* decoded: what a claim has read past has been or is being passed on.     *)
NothingSkipped ==
    /\ TypeOK
    /\ \A p \in Partitions :
          /\ legacy => InOrder(p) /\ Given(p) = Readable(base[p], MarkedUpTo(p))
          /\ startAt = "oldest" => Readable(0, pos[p]) \subseteq Given(p)

(* Run never waits on a channel nobody will use again, and nobody uses a   *)
(* closed one.  Setup replaces handler.flows while Run may be anywhere in  *)
(* its loop: when Run is in its select, the channel it listens on is the   *)
(* one in handler.flows, or it is closed, which wakes Run up to look again.*)
(* As long as a session lasts, its channel has not been closed, so that no *)
(* claim's send and no second Cleanup panics.                              *)
ListensToTheSession ==
    /\ run = "select" => listen = flows \/ listen \in closed
    /\ sess # "none" => flows \notin closed

(* The partitions with readable messages that have not come out.           *)
Outstanding == {p \in Partitions : ~(Readable(0, produced[p]) \subseteq Delivered(p))}

(* All readable messages produced for a consumer that starts at the oldest *)
(* come out, unless the segment is being shut down or the process has      *)
(* ended: after a rebalance Run finds the session's new channel.  Close    *)
(* lets Run return, unless it waits for a goroutine that is itself waiting *)
(* for Run: a claim with a message, Setup, or the given-up retry loop.     *)
FlowsComeThrough ==
    /\ []ListensToTheSession
    /\ []<>(startAt = "newest" \/ Outstanding = {} \/ closer # "idle" \/ proc # "up")
    /\ []<>(\/ closer = "idle" \/ run = "done" \/ proc # "up"
            \/ run = "wait" /\ (con = "abort" \/ sess = "setup" \/ \E p \in Partitions : claim[p] = "send"))
=============================================================================

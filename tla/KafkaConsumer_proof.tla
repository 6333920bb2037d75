------------------------- MODULE KafkaConsumer_proof -------------------------
(***************************************************************************)
(* Proofs for the kafkaconsumer segment, for any partitions, messages,     *)
(* undecodable messages, retries and sessions: across rebalances no        *)
(* message is skipped, a legacy message is passed on once, in order, and   *)
(* Run listens on the channel of the session.                              *)
(***************************************************************************)
EXTENDS KafkaConsumer, TLAPS

(* Between two sessions no claim runs and the marked offsets are stored.   *)
(* What a claim holds, it has just read and decoded.                       *)
SessionInv ==
    /\ sess \in {"none", "setup"} => committed = marked /\ \A p \in Partitions : claim[p] = "off"
    /\ \A p \in Partitions : claim[p] = "send" => pos[p] > 0 /\ pos[p] \notin bad

(* A legacy claim has marked all it has read. Otherwise nothing is marked, *)
(* and every session starts at the configured place.                       *)
MarkInv ==
    \A p \in Partitions :
        /\ startAt = "oldest" => base[p] = 0
        /\ base[p] <= MarkedUpTo(p)
        /\ IF legacy THEN pos[p] = MarkedUpTo(p) ELSE marked[p] = -1 /\ committed[p] = -1

(* Legacy messages are on their way in order; they are those from where    *)
(* the first session started to where the claim has read.                  *)
OrderInv == legacy => \A p \in Partitions : InOrder(p)
ExactInv == legacy => \A p \in Partitions : Given(p) = Readable(base[p], pos[p])

(* What can be decoded up to where a claim has read is on its way.         *)
KeptInv == startAt = "oldest" => \A p \in Partitions : Readable(0, pos[p]) \subseteq Given(p)

IInv == TypeOK /\ SessionInv /\ MarkInv /\ OrderInv /\ ExactInv /\ KeptInv

-----------------------------------------------------------------------------
(* Messages.                                                               *)

(* A message is a partition and an offset, and not the flow from In.       *)
LEMMA MessageType ==
    /\ \A m \in Message : m[1] \in Partitions /\ m[2] \in Nat \ {0}
    /\ \A p \in Partitions, n \in Nat \ {0} : <<p, n>> \in Message /\ <<p, n>> # InFlow
  BY DEF Message, InFlow

(* The offsets that have been delivered, by the index of the message.      *)
LEMMA DeliveredIs ==
    \A p, o : o \in Delivered(p) <=> \E i \in DOMAIN out : out[i][1] = p /\ out[i][2] = o
  BY DEF Delivered

-----------------------------------------------------------------------------
(* The steps that do not touch a message on its way.                       *)

Quiet ==
    \/ RetryLoop \/ ConsumeFails \/ Setup \/ EndSession \/ CloseMessages
    \/ Rebalanced \/ ReceiveIn \/ InEnds \/ RunShutdown \/ NotReady \/ RunReturn
    \/ RetryTimeout \/ RetryShutdown \/ RetryCancelled \/ Close \/ UNCHANGED vars
    \/ \E p \in Partitions : Produce(p) \/ ClaimNil(p)

(* Every step is one of them, or one of the six that matter.               *)
LEMMA Cases ==
    ASSUME [Next]_vars
    PROVE  \/ Quiet \/ Ready \/ Cleanup \/ SendOut
           \/ \E p \in Partitions : ClaimTake(p) \/ ClaimReturn(p) \/ ReceiveFlow(p)
  BY Zenon DEF Next, Quiet

(* A quiet step leaves the claims, the offsets and the messages alone, and *)
(* starts no session.                                                      *)
LEMMA QuietFrame ==
    ASSUME Quiet
    PROVE  /\ UNCHANGED <<config, claimVars, committed, base, out>>
           /\ sess' \in {"none", "setup"} => sess \in {"none", "setup"}
           /\ (run' = "send" /\ msg' # InFlow) <=> (run = "send" /\ msg # InFlow)
           /\ run' = "send" /\ msg' # InFlow => msg' = msg
<1>1. CASE RetryLoop \/ RetryTimeout \/ RetryShutdown \/ RetryCancelled \/ Close
  BY <1>1 DEF RetryLoop, RetryTimeout, RetryShutdown, RetryCancelled, Close, config, claimVars, sessVars, runVars
<1>2. CASE ConsumeFails \/ Setup \/ EndSession \/ CloseMessages
  BY <1>2 DEF ConsumeFails, Setup, EndSession, CloseMessages, config, claimVars, sessVars, runVars
<1>3. CASE Rebalanced \/ ReceiveIn \/ InEnds
  BY <1>3 DEF Rebalanced, ReceiveIn, InEnds, config, claimVars, sessVars
<1>4. CASE RunShutdown \/ NotReady \/ RunReturn
  BY <1>4 DEF RunShutdown, NotReady, RunReturn, config, claimVars, sessVars
<1>5. CASE UNCHANGED vars
  BY <1>5 DEF vars, config, claimVars, sessVars, runVars
<1>6. CASE \E p \in Partitions : Produce(p) \/ ClaimNil(p)
  BY <1>6 DEF Produce, ClaimNil, config, claimVars, sessVars, runVars
<1> QED
  BY <1>1, <1>2, <1>3, <1>4, <1>5, <1>6 DEF Quiet

(* So the messages on their way stay where they are.                       *)
LEMMA QuietStays ==
    ASSUME Quiet, NEW p \in Partitions
    PROVE  /\ Delivered(p)' = Delivered(p) /\ InRun(p)' = InRun(p)
           /\ InClaim(p)' = InClaim(p) /\ Given(p)' = Given(p)
           /\ MarkedUpTo(p)' = MarkedUpTo(p) /\ (InOrder(p) => InOrder(p)')
           /\ \A lo, hi : Readable(lo, hi)' = Readable(lo, hi)
<1>1. UNCHANGED <<bad, claim, pos, marked, base, out>>
  BY QuietFrame DEF config, claimVars
<1>2. Delivered(p)' = Delivered(p) /\ InClaim(p)' = InClaim(p)
  BY <1>1 DEF Delivered, InClaim
<1>3. InRun(p)' = InRun(p)
  BY QuietFrame DEF InRun
<1>4. MarkedUpTo(p)' = MarkedUpTo(p) /\ \A lo, hi : Readable(lo, hi)' = Readable(lo, hi)
  BY <1>1 DEF MarkedUpTo, Readable
<1> QED
  BY <1>1, <1>2, <1>3, <1>4 DEF Given, InOrder

-----------------------------------------------------------------------------
(* Types.                                                                  *)

(* Nothing has been read and nothing is on its way.                        *)
LEMMA InitInv ==
    ASSUME Init
    PROVE  IInv
<1>1. TypeOK
  <2>1. /\ << >> \in Seq(Message) /\ InFlow \in Message \cup {InFlow}
        /\ 0 \in 0..MaxRetries /\ 0 \in 0..MaxSessions /\ 0 \in 0..0
        /\ \A b \in SUBSET (1..MaxBad) : b \subseteq 1..MaxBad
    BY BoundsAssumption
  <2>2. /\ claim \in [Partitions -> {"off", "select", "send"}]
        /\ pos \in [Partitions -> Nat] /\ produced \in [Partitions -> Nat] /\ base \in [Partitions -> Nat]
        /\ marked \in [Partitions -> Nat \cup {-1}] /\ committed \in [Partitions -> Nat \cup {-1}]
    BY DEF Init
  <2> QED
    BY <2>1, <2>2, Zenon DEF Init, TypeOK
<1>2. SessionInv /\ MarkInv
  BY BoundsAssumption DEF Init, SessionInv, MarkInv, MarkedUpTo
<1>3. \A p \in Partitions : /\ Delivered(p) = {} /\ InRun(p) = {} /\ InClaim(p) = {}
                            /\ Readable(base[p], pos[p]) = {} /\ Readable(0, pos[p]) = {}
  BY DEF Init, Delivered, InRun, InClaim, Readable
<1>4. OrderInv
  <2>1. DOMAIN out = {}
    BY DEF Init
  <2> QED
    BY <1>3, <2>1 DEF OrderInv, InOrder
<1>5. ExactInv /\ KeptInv
  BY <1>3 DEF ExactInv, KeptInv, Given, Init
<1> QED
  BY <1>1, <1>2, <1>4, <1>5 DEF IInv

(* The types of the flags, and of the other variables.                     *)
Flags == /\ legacy \in BOOLEAN /\ cancelled \in BOOLEAN /\ drained \in BOOLEAN
         /\ shutClosed \in BOOLEAN /\ inClosed \in BOOLEAN

States ==
    /\ startAt \in {"oldest", "newest"} /\ bad \subseteq 1..MaxBad
    /\ proc \in {"up", "panic", "fatal"}
    /\ run \in {"ready", "select", "send", "wait", "done"}
    /\ msg \in Message \cup {InFlow}
    /\ con \in {"loop", "consume", "retry", "abort", "exited"} /\ retries \in 0..MaxRetries
    /\ sess \in {"none", "setup", "running", "ending"}
    /\ flows \in 0..MaxSessions /\ listen \in 0..flows /\ closed \subseteq 0..flows
    /\ closer \in {"idle", "send", "close", "closeIn", "wait"}

Values ==
    /\ claim \in [Partitions -> {"off", "select", "send"}] /\ pos \in [Partitions -> Nat]
    /\ produced \in [Partitions -> Nat] /\ base \in [Partitions -> Nat]
    /\ marked \in [Partitions -> Nat \cup {-1}] /\ committed \in [Partitions -> Nat \cup {-1}]
    /\ out \in Seq(Message)

(* The three parts are the type invariant.                                 *)
LEMMA TypeParts == TypeOK <=> Flags /\ States /\ Values
  BY Zenon DEF TypeOK, Flags, States, Values

(* Every step keeps the flags.                                             *)
LEMMA NextFlags ==
    ASSUME Flags, [Next]_vars
    PROVE  Flags'
<1>1. CASE RetryLoop \/ ConsumeFails \/ Setup \/ Ready \/ EndSession
  BY <1>1, Zenon DEF RetryLoop, ConsumeFails, Setup, Ready, EndSession, Flags, config, sessVars, closeVars
<1>2. CASE CloseMessages \/ Cleanup \/ Rebalanced \/ ReceiveIn \/ SendOut
  BY <1>2, Zenon DEF CloseMessages, Cleanup, Rebalanced, ReceiveIn, SendOut, Flags, config, sessVars, closeVars
<1>3. CASE InEnds \/ RunShutdown \/ NotReady \/ RunReturn
  BY <1>3, Zenon DEF InEnds, RunShutdown, FromShutdown, NotReady, RunReturn, Flags, config, sessVars, closeVars
<1>4. CASE RetryTimeout \/ RetryShutdown \/ RetryCancelled \/ Close \/ UNCHANGED vars
  BY <1>4, Zenon DEF RetryTimeout, RetryShutdown, FromShutdown, RetryCancelled, Close, vars, Flags, config,
     sessVars, closeVars
<1>5. CASE \E p \in Partitions :
              Produce(p) \/ ClaimTake(p) \/ ClaimNil(p) \/ ClaimReturn(p) \/ ReceiveFlow(p)
  BY <1>5, Zenon DEF Produce, ClaimTake, ClaimNil, ClaimReturn, ReceiveFlow, Flags, config, sessVars, closeVars
<1> QED
  BY <1>1, <1>2, <1>3, <1>4, <1>5, Zenon DEF Next

(* Every step keeps the goroutines' states: Setup makes a new channel, and *)
(* Run listens on one that has been made.                                  *)
LEMMA NextStates ==
    ASSUME TypeOK, SessionInv, [Next]_vars
    PROVE  States'
<1> USE BoundsAssumption
<1>0. States
  BY TypeParts, Zenon
<1>1. CASE RetryLoop \/ RetryTimeout \/ RetryCancelled
  BY <1>0, <1>1, Zenon DEF RetryLoop, RetryTimeout, RetryCancelled, States, config, runVars, sessVars, closeVars
<1>2. CASE RetryShutdown \/ Close
  <2>1. /\ con' \in {"loop", "consume", "retry", "abort", "exited"}
        /\ UNCHANGED <<config, proc, runVars, retries, sessVars>>
    BY <1>0, <1>2, Zenon DEF RetryShutdown, Close, conVars, States
  <2>2. closer' \in {"idle", "send", "close", "closeIn", "wait"}
    BY <1>0, <1>2, Zenon DEF RetryShutdown, Close, FromShutdown, closeVars, States
  <2> QED
    BY <1>0, <2>1, <2>2 DEF States, config, runVars, sessVars
<1>3. CASE ConsumeFails
  BY <1>0, <1>3 DEF ConsumeFails, ConsumeReturned, States, config, runVars, conVars, sessVars, closeVars
<1>4. CASE Setup \/ Ready
  BY <1>0, <1>4 DEF Setup, Ready, States, config, runVars, conVars, closeVars
<1>5. CASE EndSession \/ CloseMessages
  BY <1>0, <1>5, Zenon DEF EndSession, CloseMessages, States, config, runVars, conVars, closeVars
<1>6. CASE Cleanup
  BY <1>0, <1>6 DEF Cleanup, ConsumeReturned, States, config, runVars, conVars, closeVars
<1>7. CASE Rebalanced \/ ReceiveIn \/ SendOut \/ InEnds
  <2>1. /\ run' \in {"ready", "select", "send", "wait", "done"} /\ msg' \in Message \cup {InFlow}
        /\ listen' = listen \/ listen' = flows
        /\ UNCHANGED <<config, proc, conVars, sessVars, closeVars>>
    BY <1>0, <1>7, Zenon DEF Rebalanced, ReceiveIn, SendOut, InEnds, States
  <2> QED
    BY <1>0, <2>1 DEF States, config, conVars, sessVars, closeVars
<1>8. CASE RunShutdown
  BY <1>0, <1>8 DEF RunShutdown, FromShutdown, States, config, conVars, sessVars, closeVars
<1>9. CASE NotReady \/ RunReturn
  BY <1>0, <1>9, Zenon DEF NotReady, RunReturn, States, config, conVars, sessVars, closeVars
<1>10. CASE UNCHANGED vars
  BY <1>0, <1>10 DEF vars, States, config, runVars, conVars, sessVars, closeVars
<1>11. ASSUME NEW p \in Partitions, Produce(p) \/ ClaimTake(p) \/ ClaimNil(p) \/ ClaimReturn(p)
       PROVE  States'
  <2>1. /\ proc' \in {"up", "panic", "fatal"}
        /\ UNCHANGED <<config, runVars, conVars, sessVars, closeVars>>
    BY <1>0, <1>11, Zenon DEF Produce, ClaimTake, ClaimNil, ClaimReturn, States
  <2> QED
    BY <1>0, <2>1 DEF States, config, runVars, conVars, sessVars, closeVars
<1>12. ASSUME NEW p \in Partitions, ReceiveFlow(p)
       PROVE  States'
  <2>1. msg' \in Message
    BY <1>12, MessageType DEF ReceiveFlow, SessionInv, TypeOK
  <2> QED
    BY <1>0, <1>12, <2>1 DEF ReceiveFlow, States, config, conVars, sessVars, closeVars
<1> QED
  BY <1>1, <1>2, <1>3, <1>4, <1>5, <1>6, <1>7, <1>8, <1>9, <1>10, <1>11, <1>12, Zenon DEF Next

(* Every step keeps the offsets and the messages on Out.                   *)
LEMMA NextValues ==
    ASSUME TypeOK, [Next]_vars
    PROVE  Values'
<1>0. Values
  BY TypeParts, Zenon
<1>1. CASE Quiet
  <2>1. produced' \in [Partitions -> Nat]
    <3>1. CASE UNCHANGED produced
      BY <1>0, <3>1 DEF Values
    <3>2. ASSUME NEW p \in Partitions, Produce(p)
          PROVE  produced' \in [Partitions -> Nat]
      BY <1>0, <3>2 DEF Values, Produce
    <3>3. ASSUME NEW p \in Partitions, ClaimNil(p)
          PROVE  UNCHANGED produced
      BY <3>3, Zenon DEF ClaimNil
    <3>4. CASE RetryLoop \/ ConsumeFails \/ Setup \/ EndSession \/ CloseMessages \/ Rebalanced \/ ReceiveIn
               \/ InEnds \/ RunShutdown
      BY <3>1, <3>4, Zenon DEF RetryLoop, ConsumeFails, Setup, EndSession, CloseMessages, Rebalanced, ReceiveIn, InEnds,
         RunShutdown
    <3>5. CASE NotReady \/ RunReturn \/ RetryTimeout \/ RetryShutdown \/ RetryCancelled \/ Close \/ UNCHANGED vars
      BY <3>1, <3>5, Zenon DEF NotReady, RunReturn, RetryTimeout, RetryShutdown, RetryCancelled, Close, vars
    <3> QED
      BY <1>1, <3>1, <3>2, <3>3, <3>4, <3>5, Zenon DEF Quiet
  <2> QED
    BY <1>0, <1>1, <2>1, QuietFrame DEF Values, config, claimVars
<1>2. CASE Ready
  <2>1. \A p \in Partitions : StartOffset(p) \in Nat
    BY <1>0 DEF StartOffset, Values
  <2> QED
    BY <1>0, <1>2, <2>1 DEF Ready, Values
<1>3. CASE Cleanup
  BY <1>0, <1>3 DEF Cleanup, Values, claimVars
<1>4. CASE SendOut
  <2>1. out' \in Seq(Message)
    BY <1>4 DEF SendOut, TypeOK
  <2> QED
    BY <1>0, <1>4, <2>1 DEF SendOut, Values, sessVars, claimVars
<1>5. ASSUME NEW p \in Partitions, ClaimTake(p) \/ ClaimReturn(p) \/ ReceiveFlow(p)
      PROVE  Values'
  <2>1. /\ claim' \in [Partitions -> {"off", "select", "send"}]
        /\ UNCHANGED <<sessVars, produced, out>>
    BY <1>0, <1>5, Zenon DEF ClaimTake, ClaimReturn, ReceiveFlow, Values
  <2>2. pos' \in [Partitions -> Nat] /\ marked' \in [Partitions -> Nat \cup {-1}]
    <3>1. CASE ClaimReturn(p) \/ ReceiveFlow(p)
      BY <1>0, <3>1, Zenon DEF ClaimReturn, ReceiveFlow, Values
    <3>2. CASE ClaimTake(p)
      BY <1>0, <3>2 DEF ClaimTake, Values
    <3> QED
      BY <1>5, <3>1, <3>2
  <2> QED
    BY <1>0, <2>1, <2>2 DEF Values, sessVars
<1> QED
  BY <1>1, <1>2, <1>3, <1>4, <1>5, Cases

(* Every step keeps the types.                                             *)
LEMMA NextType ==
    ASSUME TypeOK, SessionInv, [Next]_vars
    PROVE  TypeOK'
<1>1. Flags' /\ States' /\ Values'
  BY TypeParts, NextFlags, NextStates, NextValues, Zenon
<1> QED
  BY <1>1, Zenon DEF TypeOK, Flags, States, Values

-----------------------------------------------------------------------------
(* Where the messages are after each of the other steps.                   *)

(* Two states with the same messages in the same places.                   *)
Stays(q) ==
    /\ Delivered(q)' = Delivered(q) /\ InRun(q)' = InRun(q) /\ InClaim(q)' = InClaim(q)
    /\ UNCHANGED <<out, bad>>

(* Such a step changes neither what is on its way nor the order.           *)
LEMMA StaysSame ==
    ASSUME NEW q \in Partitions, Stays(q)
    PROVE  /\ Given(q)' = Given(q) /\ (InOrder(q) => InOrder(q)')
           /\ \A lo, hi : Readable(lo, hi)' = Readable(lo, hi)
<1>1. Given(q)' = Given(q)
  BY DEF Stays, Given
<1>2. InOrder(q) => InOrder(q)'
  BY DEF Stays, InOrder
<1>3. \A lo, hi : Readable(lo, hi)' = Readable(lo, hi)
  BY DEF Stays, Readable
<1> QED
  BY <1>1, <1>2, <1>3

(* Setup's claims start with nothing, when Run has nothing to send.        *)
LEMMA ReadyStays ==
    ASSUME SessionInv, Ready, NEW q \in Partitions
    PROVE  Stays(q)
<1>1. claim[q] = "off" /\ claim'[q] = "select" /\ run # "send" /\ run' # "send"
      /\ UNCHANGED <<out, bad>>
  BY DEF SessionInv, Ready, config
<1> QED
  BY <1>1 DEF Stays, Delivered, InRun, InClaim

(* Cleanup finds all claims returned and moves no message.                 *)
LEMMA CleanupStays ==
    ASSUME Cleanup, NEW q \in Partitions
    PROVE  Stays(q)
<1>1. UNCHANGED <<out, bad, run, msg, claim, pos>>
  BY DEF Cleanup, config, runVars, claimVars
<1> QED
  BY <1>1 DEF Stays, Delivered, InRun, InClaim

(* A claim returns only from its select, where it holds no message.        *)
LEMMA ReturnStays ==
    ASSUME TypeOK, NEW p \in Partitions, ClaimReturn(p), NEW q \in Partitions
    PROVE  Stays(q)
<1>1. UNCHANGED <<out, bad, run, msg, pos>>
  BY DEF ClaimReturn, config, runVars
<1>2. claim'[q] = "send" <=> claim[q] = "send"
  BY DEF ClaimReturn, TypeOK
<1> QED
  BY <1>1, <1>2 DEF Stays, Delivered, InRun, InClaim

(* A claim that reads a message holds it, if it can be decoded.            *)
LEMMA TakeMoves ==
    ASSUME TypeOK, NEW p \in Partitions, ClaimTake(p), NEW q \in Partitions
    PROVE  /\ UNCHANGED <<out, bad>> /\ InRun(q)' = InRun(q) /\ Delivered(q)' = Delivered(q)
           /\ q # p => Stays(q) /\ pos'[q] = pos[q]
           /\ q = p => /\ InClaim(q) = {} /\ pos'[q] = pos[q] + 1
                       /\ InClaim(q)' = {pos[q] + 1} \ bad
<1>1. UNCHANGED <<out, bad, run, msg>>
  BY DEF ClaimTake, config, runVars
<1>2. Delivered(q)' = Delivered(q) /\ InRun(q)' = InRun(q)
  BY <1>1 DEF Delivered, InRun
<1>3. /\ q # p => claim'[q] = claim[q] /\ pos'[q] = pos[q]
      /\ q = p => /\ claim[q] # "send" /\ pos'[q] = pos[q] + 1
                  /\ claim'[q] = "send" <=> pos[q] + 1 \notin bad
  BY DEF ClaimTake, TypeOK
<1> QED
  BY <1>1, <1>2, <1>3, Zenon DEF Stays, InClaim

(* Run takes the message from the claim.                                   *)
LEMMA ReceiveMoves ==
    ASSUME TypeOK, SessionInv, NEW p \in Partitions, ReceiveFlow(p), NEW q \in Partitions
    PROVE  /\ UNCHANGED <<out, bad, pos>> /\ Delivered(q)' = Delivered(q) /\ InRun(q) = {}
           /\ q # p => Stays(q)
           /\ q = p => InRun(q)' = InClaim(q) /\ InClaim(q)' = {}
<1>1. /\ UNCHANGED <<out, bad, pos>> /\ run = "select" /\ run' = "send" /\ msg' = <<p, pos[p]>>
      /\ claim[p] = "send"
  BY DEF ReceiveFlow, config
<1>2. msg' # InFlow /\ msg'[1] = p /\ msg'[2] = pos[p]
  BY <1>1, MessageType DEF SessionInv, TypeOK
<1>3. claim'[p] = "select" /\ (q # p => claim'[q] = claim[q])
  BY DEF ReceiveFlow, TypeOK
<1>4. Delivered(q)' = Delivered(q) /\ InRun(q) = {}
  BY <1>1 DEF Delivered, InRun
<1>5. InRun(q)' = IF q = p THEN {pos[p]} ELSE {}
  BY <1>1, <1>2 DEF InRun
<1>6. /\ q # p => InClaim(q)' = InClaim(q)
      /\ q = p => InClaim(q) = {pos[p]} /\ InClaim(q)' = {}
  BY <1>1, <1>3 DEF InClaim
<1> QED
  BY <1>1, <1>4, <1>5, <1>6 DEF Stays

(* Run sends its message on Out, behind those that were sent before.       *)
LEMMA SendMoves ==
    ASSUME TypeOK, SendOut, NEW q \in Partitions
    PROVE  /\ UNCHANGED <<bad, claim, pos>> /\ InClaim(q)' = InClaim(q) /\ InRun(q)' = {}
           /\ Delivered(q)' = Delivered(q) \cup InRun(q)
           /\ InOrder(q) => InOrder(q)'
<1>1. UNCHANGED <<bad, claim, pos>> /\ run = "send" /\ run' = "select"
  BY DEF SendOut, config, claimVars
<1>2. InClaim(q)' = InClaim(q) /\ InRun(q)' = {}
  BY <1>1 DEF InClaim, InRun
<1>3. CASE msg = InFlow
  <2>1. out' = out
    BY <1>3 DEF SendOut
  <2>2. InRun(q) = {} /\ Delivered(q)' = Delivered(q)
    BY <1>3, <2>1 DEF InRun, Delivered
  <2> QED
    BY <1>1, <1>2, <2>1, <2>2 DEF InOrder
<1>4. CASE msg # InFlow
  <2>1. out' = Append(out, msg) /\ out \in Seq(Message) /\ msg \in Message
    BY <1>4 DEF SendOut, TypeOK
  <2>2. /\ DOMAIN out' = DOMAIN out \cup {Len(out) + 1} /\ out'[Len(out) + 1] = msg
        /\ \A i \in DOMAIN out : out'[i] = out[i] /\ i < Len(out) + 1 /\ ~(Len(out) + 1 < i)
        /\ ~(Len(out) + 1 < Len(out) + 1)
    BY <2>1
  <2>3. InRun(q) = IF msg[1] = q THEN {msg[2]} ELSE {}
    BY <1>1, <1>4 DEF InRun
  <2>4. Delivered(q)' = Delivered(q) \cup InRun(q)
    <3>1. \A o : o \in Delivered(q)' <=> \E i \in DOMAIN out' : out'[i][1] = q /\ out'[i][2] = o
      BY DEF Delivered
    <3> QED
      <4>1. ASSUME NEW o, o \in Delivered(q)'
            PROVE  o \in Delivered(q) \/ (msg[1] = q /\ msg[2] = o)
        <5>1. PICK i \in DOMAIN out' : out'[i][1] = q /\ out'[i][2] = o
          BY <3>1, <4>1
        <5>2. CASE i \in DOMAIN out
          BY <2>2, <5>1, <5>2, DeliveredIs
        <5>3. CASE i = Len(out) + 1
          BY <2>2, <5>1, <5>3
        <5> QED
          BY <2>2, <5>2, <5>3
      <4>2. ASSUME NEW o, o \in Delivered(q)
            PROVE  o \in Delivered(q)'
        BY <2>2, <3>1, <4>2, DeliveredIs
      <4>3. msg[1] = q => msg[2] \in Delivered(q)'
        BY <2>2, <3>1
      <4> QED
        BY <2>3, <4>1, <4>2, <4>3
  <2>5. ASSUME InOrder(q) PROVE InOrder(q)'
    <3>1. \A i \in DOMAIN out : out[i][1] = q /\ msg[1] = q => out[i][2] < msg[2]
      BY <2>3, <2>5, DeliveredIs DEF InOrder
    <3>2. \A i, j \in DOMAIN out' :
             i < j /\ out'[i][1] = q /\ out'[j][1] = q => out'[i][2] < out'[j][2]
      BY <2>2, <2>5, <3>1, Zenon DEF InOrder
    <3> QED
      BY <1>2, <2>4, <2>5, <3>2, Zenon DEF InOrder
  <2> QED
    BY <1>1, <1>2, <2>4, <2>5
<1> QED
  BY <1>3, <1>4

-----------------------------------------------------------------------------
(* The inductive invariant.                                                *)

(* Every step keeps what is true of a session.                             *)
LEMMA NextSession ==
    ASSUME TypeOK, SessionInv, [Next]_vars
    PROVE  SessionInv'
<1>1. CASE Quiet
  BY <1>1, QuietFrame DEF SessionInv, config, claimVars
<1>2. CASE Ready
  BY <1>2 DEF Ready, SessionInv
<1>3. CASE Cleanup
  BY <1>3 DEF Cleanup, SessionInv, config, claimVars
<1>4. CASE SendOut
  BY <1>4 DEF SendOut, SessionInv, config, sessVars, claimVars
<1>5. ASSUME NEW p \in Partitions, ClaimTake(p) PROVE SessionInv'
  <2>1. sess' = sess /\ sess \notin {"none", "setup"} /\ UNCHANGED bad
    BY <1>5 DEF ClaimTake, SessionInv, config, sessVars
  <2>2. /\ \A q \in Partitions : q # p => claim'[q] = claim[q] /\ pos'[q] = pos[q]
        /\ pos'[p] = pos[p] + 1 /\ pos[p] \in Nat
        /\ claim'[p] = "send" => pos[p] + 1 \notin bad
    BY <1>5 DEF ClaimTake, TypeOK
  <2> QED
    BY <2>1, <2>2 DEF SessionInv
<1>6. ASSUME NEW p \in Partitions, ClaimReturn(p) \/ ReceiveFlow(p) PROVE SessionInv'
  <2>1. sess' = sess /\ sess \notin {"none", "setup"} /\ UNCHANGED <<bad, pos>>
    BY <1>6 DEF ClaimReturn, ReceiveFlow, SessionInv, config, sessVars
  <2>2. \A q \in Partitions : claim'[q] = "send" => claim[q] = "send"
    BY <1>6, Zenon DEF ClaimReturn, ReceiveFlow, TypeOK
  <2> QED
    BY <2>1, <2>2 DEF SessionInv
<1> QED
  BY <1>1, <1>2, <1>3, <1>4, <1>5, <1>6, Cases

(* Every step keeps what is true of the offsets: a session starts where    *)
(* the last one has marked, since that has been stored.                    *)
LEMMA NextMark ==
    ASSUME TypeOK, SessionInv, MarkInv, [Next]_vars
    PROVE  MarkInv'
<1> SUFFICES ASSUME NEW q \in Partitions
             PROVE  /\ startAt' = "oldest" => base'[q] = 0
                    /\ base'[q] <= MarkedUpTo(q)'
                    /\ IF legacy' THEN pos'[q] = MarkedUpTo(q)'
                       ELSE marked'[q] = -1 /\ committed'[q] = -1
  BY DEF MarkInv
<1>0. /\ startAt = "oldest" => base[q] = 0
      /\ base[q] <= MarkedUpTo(q)
      /\ IF legacy THEN pos[q] = MarkedUpTo(q) ELSE marked[q] = -1 /\ committed[q] = -1
  BY DEF MarkInv
<1>1. ASSUME UNCHANGED <<config, pos, marked, committed, base>>
      PROVE  /\ startAt' = "oldest" => base'[q] = 0
             /\ base'[q] <= MarkedUpTo(q)'
             /\ IF legacy' THEN pos'[q] = MarkedUpTo(q)'
                ELSE marked'[q] = -1 /\ committed'[q] = -1
  BY <1>0, <1>1 DEF MarkedUpTo, config
<1>2. CASE Quiet \/ SendOut
  BY <1>1, <1>2, QuietFrame, Zenon DEF SendOut, claimVars, sessVars
<1>3. CASE \E p \in Partitions : ClaimReturn(p) \/ ReceiveFlow(p)
  BY <1>1, <1>3, Zenon DEF ClaimReturn, ReceiveFlow, sessVars
<1>4. CASE Ready
  <2>1. UNCHANGED <<config, marked, committed>> /\ committed[q] = marked[q]
        /\ pos'[q] = StartOffset(q)
        /\ base'[q] = IF committed[q] >= 0 THEN base[q] ELSE StartOffset(q)
    BY <1>4 DEF Ready, SessionInv
  <2>2. /\ marked[q] \in Nat \cup {-1} /\ produced[q] \in Nat /\ base[q] \in Nat
        /\ startAt \in {"oldest", "newest"}
    BY DEF TypeOK
  <2>3. CASE committed[q] >= 0
    BY <1>0, <2>1, <2>2, <2>3, SMTT(30) DEF StartOffset, MarkedUpTo, config
  <2>4. CASE ~(committed[q] >= 0)
    <3>1. base'[q] = pos'[q] /\ marked'[q] < 0 /\ base'[q] \in Nat
      BY <2>1, <2>2, <2>4 DEF StartOffset
    <3>2. startAt = "oldest" => base'[q] = 0
      BY <2>1, <2>4 DEF StartOffset
    <3>3. MarkedUpTo(q)' = base'[q]
      BY <3>1 DEF MarkedUpTo
    <3> QED
      BY <1>0, <2>1, <3>1, <3>2, <3>3 DEF config
  <2> QED
    BY <2>3, <2>4
<1>5. CASE Cleanup
  BY <1>0, <1>5 DEF Cleanup, MarkedUpTo, config, claimVars
<1>6. ASSUME NEW p \in Partitions, ClaimTake(p)
      PROVE  /\ startAt' = "oldest" => base'[q] = 0
             /\ base'[q] <= MarkedUpTo(q)'
             /\ IF legacy' THEN pos'[q] = MarkedUpTo(q)'
                ELSE marked'[q] = -1 /\ committed'[q] = -1
  <2>1. /\ UNCHANGED <<legacy, startAt, base, committed>> /\ pos[q] \in Nat /\ base[q] \in Nat
        /\ q # p => pos'[q] = pos[q] /\ marked'[q] = marked[q]
        /\ q = p => pos'[q] = pos[q] + 1 /\ marked'[q] = IF legacy THEN pos[q] + 1 ELSE marked[q]
    BY <1>6 DEF ClaimTake, TypeOK, config, sessVars
  <2> QED
    BY <1>0, <2>1 DEF MarkedUpTo
<1> QED
  BY <1>2, <1>3, <1>4, <1>5, <1>6, Cases

(* Every step keeps legacy messages in order: a claim holds only what is   *)
(* newer than all that has been given on.                                  *)
LEMMA NextOrder ==
    ASSUME TypeOK, SessionInv, OrderInv, ExactInv, [Next]_vars
    PROVE  OrderInv'
<1> SUFFICES ASSUME legacy', NEW q \in Partitions
             PROVE  InOrder(q)'
  BY DEF OrderInv
<1>0. UNCHANGED config
  BY QuietFrame, Cases, Zenon DEF Ready, Cleanup, SendOut, ClaimTake, ClaimReturn, ReceiveFlow
<1>1. legacy /\ InOrder(q) /\ Given(q) = Readable(base[q], pos[q])
  BY <1>0, Zenon DEF OrderInv, ExactInv, config
<1>2. CASE Quiet
  BY <1>1, <1>2, QuietStays, Zenon
<1>3. CASE Stays(q)
  BY <1>1, <1>3, StaysSame
<1>4. CASE SendOut
  BY <1>1, <1>4, SendMoves
<1>5. ASSUME NEW p \in Partitions, ClaimTake(p) PROVE InOrder(q)'
  <2>1. CASE q # p
    BY <1>3, <1>5, <2>1, TakeMoves, Zenon
  <2>2. CASE q = p
    <3>1. /\ UNCHANGED out /\ InRun(q)' = InRun(q) /\ Delivered(q)' = Delivered(q)
          /\ InClaim(q)' \subseteq {pos[q] + 1}
      BY <1>5, <2>2, TakeMoves
    <3>2. \A o \in Given(q) : o < pos[q] + 1
      BY <1>1 DEF Readable, TypeOK
    <3> QED
      BY <1>1, <3>1, <3>2, Zenon DEF InOrder, Given
  <2> QED
    BY <2>1, <2>2, Zenon
<1>6. ASSUME NEW p \in Partitions, ReceiveFlow(p) PROVE InOrder(q)'
  <2>1. CASE q # p
    BY <1>3, <1>6, <2>1, ReceiveMoves, Zenon
  <2>2. CASE q = p
    <3>1. /\ UNCHANGED out /\ Delivered(q)' = Delivered(q) /\ InRun(q) = {}
          /\ InRun(q)' = InClaim(q) /\ InClaim(q)' = {}
      BY <1>6, <2>2, ReceiveMoves
    <3> QED
      BY <1>1, <3>1 DEF InOrder
  <2> QED
    BY <2>1, <2>2
<1> QED
  BY <1>2, <1>3, <1>4, <1>5, <1>6, Cases, ReadyStays, CleanupStays, ReturnStays

(* What one more read adds.                                                *)
LEMMA ReadableNext ==
    ASSUME NEW lo \in Nat, NEW hi \in Nat, lo <= hi
    PROVE  Readable(lo, hi + 1) = Readable(lo, hi) \cup ({hi + 1} \ bad)
  BY SMTT(30) DEF Readable

(* How the messages on their way change: only a claim that reads adds one. *)
LEMMA GivenNext ==
    ASSUME TypeOK, SessionInv, [Next]_vars, NEW q \in Partitions
    PROVE  /\ UNCHANGED config
           /\ \/ Given(q)' = Given(q) /\ pos'[q] = pos[q] /\ base'[q] = base[q]
              \/ Given(q)' = Given(q) /\ Ready
              \/ /\ Given(q)' = Given(q) \cup ({pos[q] + 1} \ bad)
                 /\ pos'[q] = pos[q] + 1 /\ base'[q] = base[q]
<1>0. UNCHANGED config
  BY QuietFrame, Cases, Zenon DEF Ready, Cleanup, SendOut, ClaimTake, ClaimReturn, ReceiveFlow
<1>1. CASE Quiet
  BY <1>0, <1>1, QuietStays, QuietFrame, Zenon DEF claimVars
<1>2. CASE Ready
  BY <1>0, <1>2, ReadyStays, StaysSame, Zenon
<1>3. CASE Cleanup
  BY <1>0, <1>3, CleanupStays, StaysSame, ZenonT(30) DEF Cleanup, claimVars
<1>4. CASE SendOut
  <2>1. Given(q)' = Given(q)
    BY <1>4, SendMoves, Zenon DEF Given
  <2> QED
    BY <1>0, <1>4, <2>1 DEF SendOut, sessVars, claimVars
<1>5. ASSUME NEW p \in Partitions, ClaimTake(p)
      PROVE  /\ base'[q] = base[q]
             /\ \/ Given(q)' = Given(q) /\ pos'[q] = pos[q]
                \/ Given(q)' = Given(q) \cup ({pos[q] + 1} \ bad) /\ pos'[q] = pos[q] + 1
  <2>1. base' = base
    BY <1>5, Zenon DEF ClaimTake, sessVars
  <2>2. CASE q # p
    BY <1>5, <2>1, <2>2, TakeMoves, StaysSame, Zenon
  <2>3. CASE q = p
    BY <1>5, <2>1, <2>3, TakeMoves, Zenon DEF Given
  <2> QED
    BY <2>2, <2>3
<1>6. ASSUME NEW p \in Partitions, ClaimReturn(p)
      PROVE  Given(q)' = Given(q) /\ pos'[q] = pos[q] /\ base'[q] = base[q]
  BY <1>6, ReturnStays, StaysSame, Zenon DEF ClaimReturn, sessVars
<1>7. ASSUME NEW p \in Partitions, ReceiveFlow(p)
      PROVE  Given(q)' = Given(q) /\ pos'[q] = pos[q] /\ base'[q] = base[q]
  <2>1. Given(q)' = Given(q)
    BY <1>7, ReceiveMoves, StaysSame DEF Given
  <2> QED
    BY <1>7, <2>1, Zenon DEF ReceiveFlow, sessVars
<1> QED
  BY <1>0, <1>1, <1>2, <1>3, <1>4, <1>5, <1>6, <1>7, Cases

(* Every step keeps legacy messages complete and single.                   *)
LEMMA NextExact ==
    ASSUME TypeOK, SessionInv, MarkInv, ExactInv, [Next]_vars
    PROVE  ExactInv'
<1> SUFFICES ASSUME legacy', NEW q \in Partitions
             PROVE  Given(q)' = Readable(base[q], pos[q])'
  BY DEF ExactInv
<1>0. UNCHANGED <<legacy, bad>>
  BY GivenNext, Zenon DEF config
<1>1. \A lo, hi : Readable(lo, hi)' = Readable(lo, hi)
  BY <1>0 DEF Readable
<1>2. Given(q) = Readable(base[q], pos[q]) /\ pos[q] = MarkedUpTo(q) /\ base[q] <= pos[q]
      /\ base[q] \in Nat /\ pos[q] \in Nat
  BY <1>0 DEF ExactInv, MarkInv, TypeOK
<1>3. CASE Given(q)' = Given(q) /\ pos'[q] = pos[q] /\ base'[q] = base[q]
  BY <1>0, <1>2, <1>3 DEF Readable
<1>4. CASE Given(q)' = Given(q) /\ Ready
  <2>1. /\ committed[q] = marked[q] /\ pos'[q] = StartOffset(q) /\ marked[q] \in Nat \cup {-1}
        /\ base'[q] = IF committed[q] >= 0 THEN base[q] ELSE StartOffset(q)
    BY <1>4 DEF Ready, SessionInv, TypeOK
  <2>2. CASE committed[q] >= 0
    <3>1. pos'[q] = pos[q] /\ base'[q] = base[q]
      BY <1>2, <2>1, <2>2, SMTT(30) DEF StartOffset, MarkedUpTo
    <3> QED
      BY <1>3, <1>4, <3>1, Zenon
  <2>3. CASE ~(committed[q] >= 0)
    <3>1. base[q] = pos[q] /\ base'[q] = pos'[q] /\ pos'[q] \in Nat
      BY <1>2, <2>1, <2>3 DEF StartOffset, MarkedUpTo, TypeOK
    <3>2. Readable(base[q], pos[q]) = {} /\ Readable(base[q], pos[q])' = {}
      BY <1>2, <3>1, SMTT(30) DEF Readable
    <3> QED
      BY <1>2, <1>4, <3>2, Zenon
  <2> QED
    BY <2>2, <2>3
<1>5. CASE /\ Given(q)' = Given(q) \cup ({pos[q] + 1} \ bad)
           /\ pos'[q] = pos[q] + 1 /\ base'[q] = base[q]
  <2>1. Readable(base[q], pos[q] + 1) = Readable(base[q], pos[q]) \cup ({pos[q] + 1} \ bad)
    BY <1>2, ReadableNext
  <2>2. Readable(base[q], pos[q])' = Readable(base[q], pos[q] + 1)
    BY <1>0, <1>5, Zenon DEF Readable
  <2> QED
    BY <1>2, <1>5, <2>1, <2>2
<1> QED
  BY <1>3, <1>4, <1>5, GivenNext

(* Every step keeps what a claim has read past.                            *)
LEMMA NextKept ==
    ASSUME TypeOK, SessionInv, MarkInv, KeptInv, [Next]_vars
    PROVE  KeptInv'
<1> SUFFICES ASSUME startAt' = "oldest", NEW q \in Partitions
             PROVE  Readable(0, pos[q])' \subseteq Given(q)'
  BY DEF KeptInv
<1>0. UNCHANGED <<legacy, startAt, bad>>
  BY GivenNext DEF config
<1>1. Readable(0, pos[q]) \subseteq Given(q) /\ pos[q] \in Nat
  BY <1>0 DEF KeptInv, TypeOK
<1>2. CASE Given(q)' = Given(q) /\ pos'[q] = pos[q]
  BY <1>0, <1>1, <1>2 DEF Readable
<1>3. CASE Given(q)' = Given(q) /\ Ready
  <2>1. committed[q] = marked[q] /\ pos'[q] = StartOffset(q) /\ marked[q] \in Nat \cup {-1}
    BY <1>3 DEF Ready, SessionInv, TypeOK
  <2>2. CASE committed[q] >= 0
    <3>1. legacy /\ pos'[q] = pos[q]
      BY <2>1, <2>2 DEF StartOffset, MarkInv, MarkedUpTo
    <3> QED
      BY <1>2, <1>3, <3>1, Zenon
  <2>3. CASE ~(committed[q] >= 0)
    <3>1. pos'[q] = 0
      BY <1>0, <2>1, <2>3 DEF StartOffset
    <3>2. Readable(0, pos[q])' = {}
      BY <3>1, SMTT(30) DEF Readable
    <3> QED
      BY <3>2
  <2> QED
    BY <2>2, <2>3, Zenon
<1>4. CASE Given(q)' = Given(q) \cup ({pos[q] + 1} \ bad) /\ pos'[q] = pos[q] + 1
  <2>1. Readable(0, pos[q] + 1) = Readable(0, pos[q]) \cup ({pos[q] + 1} \ bad)
    BY <1>1, ReadableNext
  <2>2. Readable(0, pos[q])' = Readable(0, pos[q] + 1)
    BY <1>0, <1>4 DEF Readable
  <2> QED
    BY <1>1, <1>4, <2>1, <2>2
<1> QED
  BY <1>2, <1>3, <1>4, GivenNext, Zenon

(* The invariant is inductive.                                             *)
LEMMA NextInv == IInv /\ [Next]_vars => IInv'
  BY NextType, NextSession, NextMark, NextOrder, NextExact, NextKept, Zenon DEF IInv

(* Across any number of rebalances, with claims, Run and Close interleaved *)
(* in any way: legacy messages are passed on once each and in order, and a *)
(* consumer that starts at the oldest message skips none it can decode.    *)
THEOREM ConsumerSkipsNothing == Spec => []NothingSkipped
<1>1. Init => IInv
  BY InitInv
<1>2. IInv /\ [Next]_vars => IInv'
  BY NextInv
<1>3. IInv => NothingSkipped
  BY DEF IInv, OrderInv, ExactInv, KeptInv, MarkInv, NothingSkipped
<1> QED
  BY <1>1, <1>2, <1>3, PTL DEF Spec

-----------------------------------------------------------------------------
(* The channels of the sessions.                                           *)

(* Every session but the last has closed its channel, and the last one has *)
(* when it is over. Run is in its loop only after a first session.         *)
ChannelInv ==
    /\ \A c \in 1..flows : c < flows => c \in closed
    /\ sess = "none" => flows = 0 \/ flows \in closed
    /\ sess # "none" => flows > 0 /\ flows \notin closed
    /\ run \in {"select", "send"} => flows > 0
    /\ run = "select" => listen > 0

(* Setup is called when the last channel is closed, Cleanup once for each.  *)
LEMMA NextChannel ==
    ASSUME TypeOK, ChannelInv, [Next]_vars
    PROVE  ChannelInv'
<1>0. flows \in Nat /\ listen \in 0..flows /\ closed \subseteq 0..flows
  BY BoundsAssumption DEF TypeOK
<1> USE <1>0 DEF ChannelInv
<1>1. CASE UNCHANGED <<sess, flows, closed, run, listen>>
  BY <1>1, Zenon
<1>2. CASE Setup
  BY <1>2 DEF Setup, runVars
<1>3. CASE Ready
  BY <1>3 DEF Ready
<1>4. CASE EndSession
  BY <1>4 DEF EndSession, runVars
<1>5. CASE Cleanup
  BY <1>5 DEF Cleanup, runVars
<1>6. CASE Rebalanced
  BY <1>6 DEF Rebalanced, sessVars
<1>7. CASE SendOut
  BY <1>7 DEF SendOut, sessVars
<1>8. CASE ReceiveIn \/ InEnds \/ RunShutdown \/ NotReady \/ RunReturn
           \/ \E p \in Partitions : ReceiveFlow(p)
  BY <1>8 DEF ReceiveIn, InEnds, RunShutdown, NotReady, RunReturn, ReceiveFlow, sessVars
<1>9. CASE RetryLoop \/ ConsumeFails \/ CloseMessages \/ RetryTimeout \/ RetryShutdown
           \/ RetryCancelled \/ Close \/ UNCHANGED vars
           \/ \E p \in Partitions : Produce(p) \/ ClaimTake(p) \/ ClaimNil(p) \/ ClaimReturn(p)
  <2>1. UNCHANGED <<sess, flows, closed, run, listen>>
    BY <1>9, Zenon DEF RetryLoop, ConsumeFails, CloseMessages, RetryTimeout, RetryShutdown,
       RetryCancelled, Close, Produce, ClaimTake, ClaimNil, ClaimReturn, vars, runVars, sessVars
  <2> QED
    BY <1>1, <2>1, Zenon
<1> QED
  BY <1>2, <1>3, <1>4, <1>5, <1>6, <1>7, <1>8, <1>9, Zenon DEF Next

(* However rebalances, Setup and Run interleave, Run listens on the channel *)
(* of the session or on one that is closed, and a session's channel stays  *)
(* open until its Cleanup.                                                 *)
THEOREM RunListens == Spec => []ListensToTheSession
<1>1. Init => IInv /\ ChannelInv
  <2>1. Init => ChannelInv
    BY DEF Init, ChannelInv
  <2> QED
    BY <2>1, InitInv
<1>2. IInv /\ ChannelInv /\ [Next]_vars => IInv' /\ ChannelInv'
  BY NextInv, NextChannel DEF IInv
<1>3. IInv /\ ChannelInv => ListensToTheSession
  <2> SUFFICES ASSUME TypeOK, ChannelInv PROVE ListensToTheSession
    BY DEF IInv
  <2>1. flows \in Nat /\ listen \in 0..flows
    BY BoundsAssumption DEF TypeOK
  <2> QED
    BY <2>1 DEF ChannelInv, ListensToTheSession
<1> QED
  BY <1>1, <1>2, <1>3, PTL DEF Spec
=============================================================================

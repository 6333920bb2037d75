---------------------------- MODULE FlowTransfer ----------------------------
(***************************************************************************)
(* What a pipeline promises to those at its two ends, without segments,    *)
(* channels or goroutines: flows from several sources travel to one        *)
(* output; on the way a flow may be removed, never duplicated; the flows   *)
(* of one source never overtake each other; and the transfer ends only     *)
(* when nothing is left on the way, after which nothing enters any more.   *)
(***************************************************************************)
EXTENDS Integers, Sequences

CONSTANTS
    Source,     \* those who put flows into the transfer
    MaxFlows    \* bound: flows per source

VARIABLES
    produced,   \* how many flows each source has put in
    transit,    \* the flows on their way
    out,        \* the flows that came out, in order
    removed,    \* the flows taken out on the way
    ended       \* nobody is left to carry flows

vars == <<produced, transit, out, removed, ended>>

Init ==
    /\ produced = [s \in Source |-> 0]
    /\ transit = {}
    /\ out = << >>
    /\ removed = {}
    /\ ended = FALSE

Enter(s) ==
    /\ ~ended
    /\ produced[s] < MaxFlows
    /\ produced' = [produced EXCEPT ![s] = @ + 1]
    /\ transit' = transit \cup {[src |-> s, n |-> produced[s] + 1]}
    /\ UNCHANGED <<out, removed, ended>>

(* Only the oldest flow of its source may come out.                        *)
Leave(f) ==
    /\ f \in transit
    /\ \A g \in transit : g.src = f.src => g.n >= f.n
    /\ transit' = transit \ {f}
    /\ out' = Append(out, f)
    /\ UNCHANGED <<produced, removed, ended>>

Remove(f) ==
    /\ f \in transit
    /\ transit' = transit \ {f}
    /\ removed' = removed \cup {f}
    /\ UNCHANGED <<produced, out, ended>>

End ==
    /\ transit = {}
    /\ ended' = TRUE
    /\ UNCHANGED <<produced, transit, out, removed>>

Next ==
    \/ \E s \in Source : Enter(s)
    \/ \E f \in transit : Leave(f) \/ Remove(f)
    \/ End

Spec == Init /\ [][Next]_vars
=============================================================================

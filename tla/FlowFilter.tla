----------------------------- MODULE FlowFilter -----------------------------
(***************************************************************************)
(* The filter expressions of flowfilter (and elephant, traffic specific    *)
(* toptalkers) and their evaluation by Filter.Visit.                       *)
(*                                                                         *)
(* The parser keeps one tree per segment, and Visit leaves the results of  *)
(* a flow in its nodes.  The only node that can keep an old result is a    *)
(* PassesThroughListMatch, so the memory of a filter is the set of those   *)
(* whose EvalResult is true.  An expression is a sequence of statements,   *)
(* each with the conjunction that follows it; the grammar nests them to    *)
(* the right.  A statement is a match, or a subexpression under "sub".     *)
(* An address is a sequence, its family first and then its bits; nil is    *)
(* the empty one.  Unsigned 64 bit arithmetic is modulo Word.              *)
(***************************************************************************)
EXTENDS FlowMessage, Integers, Sequences, Bitwise

-----------------------------------------------------------------------------
(* --------------------------- Numeric ranges ---------------------------- *)

ProcessNumericRange(r, v) ==
    CASE r.op = "range" -> r.lower <= v /\ v <= r.upper
      [] r.op = "<"     -> v < r.number
      [] r.op = ">"     -> v > r.number
      [] OTHER          -> v = r.number

\* processNumericRange returns an error.
BadRange(r) == r.op = "range" /\ r.lower > r.upper

Duration(msg) == (msg.TimeFlowEnd - msg.TimeFlowStart) % Word

\* A rate over the duration of the flow, which counts as 1 if it is 0.
PerDuration(amount, msg) == amount \div (IF Duration(msg) = 0 THEN 1 ELSE Duration(msg))

-----------------------------------------------------------------------------
(* --------------------- The matches with a direction -------------------- *)

\* The fields the source and the destination side of a match look at.
SrcField == [address |-> "SrcAddr", asn |-> "SrcAs", port |-> "SrcPort", netsize |-> "SrcNet",
             cid |-> "SrcCid", vrf |-> "IngressVrfIDBW", snmpid |-> "InIf",
             ifname |-> "SrcIfName", ifdesc |-> "SrcIfDesc", ifspeed |-> "SrcIfSpeed"]

DstField == [address |-> "DstAddr", asn |-> "DstAs", port |-> "DstPort", netsize |-> "DstNet",
             cid |-> "DstCid", vrf |-> "EgressVrfIDBW", snmpid |-> "OutIf",
             ifname |-> "DstIfName", ifdesc |-> "DstIfDesc", ifspeed |-> "DstIfSpeed"]

\* net.IPNet.Contains: a network of another family contains nothing.
InNetwork(address, mask, ip) ==
    Len(ip) = Len(address) /\ SubSeq(ip, 1, mask + 1) = SubSeq(address, 1, mask + 1)

\* An address match, by the network if there is a mask.
AddressMatch(n, ip) ==
    IF n.mask = "none" THEN ip = n.address ELSE InNetwork(n.address, n.bits, ip)

\* EvalResultSrc or EvalResultDst, for the field of that side.  Names and
\* descriptions are compared as the sets of the words they contain.
EvalResultSide(n, v) ==
    CASE n.type = "address"              -> AddressMatch(n, v)
      [] n.type = "snmpid"               -> v = n.number
      [] n.type \in {"ifname", "ifdesc"} -> n.word \in v
      [] n.type = "ifspeed"              -> ProcessNumericRange(n.range, v \div 1000)
      [] OTHER                           -> ProcessNumericRange(n.range, v)

DirectionalMatchGroup(n, msg) ==
    LET src == EvalResultSide(n, msg[SrcField[n.type]])
        dst == EvalResultSide(n, msg[DstField[n.type]])
    IN CASE n.direction = "src" -> src
         [] n.direction = "dst" -> dst
         [] OTHER -> src \/ dst \/ (n.type = "cid" /\ ProcessNumericRange(n.range, msg.Cid))

-----------------------------------------------------------------------------
(* ------------------------- The regular matches ------------------------- *)

\* The values the ranges are compared with.
RangeValue(type, msg) ==
    CASE type = "bytes"        -> msg.Bytes
      [] type = "packets"      -> msg.Packets
      [] type = "iptos"        -> msg.IpTos
      [] type = "localpref"    -> msg.LocalPref
      [] type = "med"          -> msg.Med
      [] type = "samplingrate" -> msg.SamplingRate
      [] type = "duration"     -> Duration(msg)
      [] type = "bps"          -> PerDuration((msg.Bytes * 8) % Word, msg)
      [] type = "pps"          -> PerDuration(msg.Packets, msg)

Ranges == {"bytes", "packets", "iptos", "localpref", "med", "samplingrate", "duration", "bps", "pps"}

\* The values compared for equality; ICMP type and code are in DstPort.
EqualValue(type, msg) ==
    CASE type = "router"        -> msg.SamplerAddress
      [] type = "nexthop"       -> msg.NextHop
      [] type = "nexthopasn"    -> msg.NextHopAs
      [] type = "flowdirection" -> msg.FlowDirection
      [] type = "normalized"    -> msg.Normalized
      [] type = "etype"         -> msg.Etype
      [] type = "proto"         -> msg.Proto
      [] type = "dscp"          -> msg.IpTos \div 4
      [] type = "ecn"           -> msg.IpTos % 4
      [] type = "status"        -> msg.ForwardingStatus
      [] type = "rpki"          -> msg.ValidationStatus
      [] type = "icmptype"      -> msg.DstPort \div 256
      [] type = "icmpcode"      -> msg.DstPort % 256
      [] type = "tcpflags"      -> msg.TcpFlags

\* icmp and tcpflags only match flows of their protocol.
ProtoFits(type, msg) ==
    /\ type \in {"icmptype", "icmpcode"} => msg.Proto = 1
    /\ type \in {"tcpflags", "tcpflagskey"} => msg.Proto = 6

\* RegularMatchGroup, but for passes-through.
RegularMatchGroup(n, msg) ==
    /\ ProtoFits(n.type, msg)
    /\ CASE n.type \in Ranges         -> ProcessNumericRange(n.range, RangeValue(n.type, msg))
         [] n.type = "remotecountry"  -> n.word \in msg.RemoteCountry
         [] n.type = "statuskey"      -> (msg.ForwardingStatus & n.key) = n.key
         [] n.type = "tcpflagskey"    -> (msg.TcpFlags & n.key) = n.key
         [] OTHER                     -> EqualValue(n.type, msg) = n.number

\* Some run of path is the list.
Occurs(list, path) ==
    \E i \in 1..(Len(path) - Len(list) + 1) : SubSeq(path, i, i + Len(list) - 1) = list

\* Faulty: a path that does not match leaves the result as it is.
PassesThroughListMatch_NoReset(n, msg, memory) == n \in memory \/ Occurs(n.list, msg.AsPath)

\* The loop does not run for a path shorter than the list: the node keeps the
\* result of an earlier flow.
PassesThroughListMatch(n, msg, memory) ==
    IF msg.AsPath = <<>> \/ Len(n.list) > Len(msg.AsPath)
      THEN n \in memory
      ELSE Occurs(n.list, msg.AsPath)

-----------------------------------------------------------------------------
(* ------------------------ Statements and filters ----------------------- *)

\* Statements and expressions; every part is visited, needed or not.
RECURSIVE Statement(_, _, _), Expression(_, _, _)

Statement(s, msg, memory) ==
    LET result == CASE s.is = "directional" -> DirectionalMatchGroup(s.match, msg)
                    [] s.is = "passes"      -> PassesThroughListMatch(s.match, msg, memory)
                    [] s.is = "sub"         -> Expression(s.match, msg, memory)
                    [] OTHER                -> RegularMatchGroup(s.match, msg)
    IN IF s.negated THEN ~ result ELSE result

\* The empty filter returns all flows.
Expression(e, msg, memory) ==
    IF e = <<>> THEN TRUE
    ELSE LET left == Statement(Head(e), msg, memory)
         IN CASE Len(e) = 1           -> left
              [] Head(e).conj = "and" -> left /\ Expression(Tail(e), msg, memory)
              [] OTHER                -> left \/ Expression(Tail(e), msg, memory)

\* The matches of an expression.
RECURSIVE Matches(_)
Matches(e) ==
    UNION {IF e[i].is = "sub" THEN Matches(e[i].match) ELSE {<<e[i].is, e[i].match>>} : i \in 1..Len(e)}

\* The passes-through nodes that are true after the visit.
Remember(e, msg, memory) ==
    {m[2] : m \in {p \in Matches(e) : p[1] = "passes" /\ PassesThroughListMatch(p[2], msg, memory)}}

\* Visit returns the error of a bad range at once, for bps it does not.
VisitFails(e) ==
    \E m \in Matches(e) : /\ "range" \in DOMAIN m[2]
                          /\ BadRange(m[2].range)
                          /\ m[2].type # "bps"

\* CheckFlow returns the verdict; the error is not looked at after New.
CheckFlow(e, msg, memory) ==
    [match |-> Expression(e, msg, memory), memory |-> Remember(e, msg, memory)]
=============================================================================

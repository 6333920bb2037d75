---------------------------- MODULE FlowMessage ----------------------------
(***************************************************************************)
(* The flow messages: EnrichedFlow and LegacyEnrichedFlow as functions     *)
(* from their fields, the conversions between them (Kafka with 'legacy'),  *)
(* and SyncMissingTimeStamps.  The zero value of a field is "", and 0 for  *)
(* the times.  Times are integers; the code multiplies them as float64,    *)
(* whose error at today's times is below half a microsecond.               *)
(***************************************************************************)
EXTENDS Naturals

CONSTANTS
    Word,          \* 2^64: the counters and the times are unsigned 64 bit
    MsPerS,        \* 1000 in the code
    NsPerMs        \* 1000000 in the code

-----------------------------------------------------------------------------

\* The fields that both messages have under the same name.
SharedFields == {
    "Type", "TimeReceived", "SequenceNum", "SamplingRate", "FlowDirection", "SamplerAddress",
    "TimeFlowEnd", "Bytes", "Packets", "SrcAddr", "DstAddr", "Etype", "Proto", "SrcPort", "DstPort",
    "InIf", "OutIf", "SrcMac", "DstMac", "SrcVlan", "DstVlan", "VlanId", "ForwardingStatus",
    "IcmpType", "IcmpCode", "FragmentId", "FragmentOffset", "BiFlowDirection", "NextHop", "SrcNet",
    "DstNet", "SrcCountry", "DstCountry", "PacketBytesMin", "PacketBytesMax", "PacketBytesMean",
    "PacketBytesStdDev", "PacketIATMin", "PacketIATMax", "PacketIATMean", "PacketIATStdDev",
    "HeaderBytes", "FINFlagCount", "SYNFlagCount", "RSTFlagCount", "PSHFlagCount", "ACKFlagCount",
    "URGFlagCount", "CWRFlagCount", "ECEFlagCount", "PayloadPackets", "TimeActiveMin",
    "TimeActiveMax", "TimeActiveMean", "TimeActiveStdDev", "TimeIdleMin", "TimeIdleMax",
    "TimeIdleMean", "TimeIdleStdDev", "Cid", "CidString", "SrcCid", "DstCid", "NetId",
    "NetIdString", "SrcId", "SrcIdString", "DstId", "DstIdString", "SrcAddrAnon", "DstAddrAnon",
    "SrcAddrPreservedLen", "DstAddrPreservedLen", "SamplerAddrAnon",
    "SamplerAddrPreservedPrefixLen", "Med", "LocalPref", "ValidationStatus", "RemoteCountry",
    "Normalized", "ProtoName", "RemoteAddr", "SrcHostName", "DstHostName", "NextHopHostName",
    "SrcASName", "DstASName", "NextHopASName", "SamplerHostName", "SrcIfName", "SrcIfDesc",
    "SrcIfSpeed", "DstIfName", "DstIfDesc", "DstIfSpeed", "Note", "SourceIP", "DestinationIP",
    "NextHopIP", "SamplerIP", "SourceMAC", "DestinationMAC", "TimeFlowStart", "unknownFields"}

\* EnrichedFlow's name -> LegacyEnrichedFlow's name.
RenamedFields == [
    IngressVrfId |-> "IngressVrfID", EgressVrfId |-> "EgressVrfID", IpTos |-> "IPTos", IpTtl |->
    "IPTTL", TcpFlags |-> "TCPFlags", Ipv6FlowLabel |-> "IPv6FlowLabel", SrcAs |-> "SrcAS",
    DstAs |-> "DstAS", NextHopAs |-> "NextHopAS", HasMpls |-> "HasMPLS", MplsCount |->
    "MPLSCount", Mpls_1Ttl |-> "MPLS1TTL", Mpls_1Label |-> "MPLS1Label", Mpls_2Ttl |->
    "MPLS2TTL", Mpls_2Label |-> "MPLS2Label", Mpls_3Ttl |-> "MPLS3TTL", Mpls_3Label |->
    "MPLS3Label", MplsLastTtl |-> "MPLSLastTTL", MplsLastLabel |-> "MPLSLastLabel", AsPath |->
    "ASPath"]

\* The fields a legacy message cannot carry.
EnrichedOnly == {
    "TimeReceivedNs", "TimeFlowStartNs", "TimeFlowEndNs", "TimeFlowStartMs", "TimeFlowEndMs",
    "IpFlags", "BgpNextHop", "BgpCommunities", "MplsTtl", "MplsLabel", "MplsIp", "MplsLabelIp",
    "ObservationDomainId", "ObservationPointId", "LayerStack", "LayerSize",
    "Ipv6RoutingHeaderAddresses", "Ipv6RoutingHeaderSegLeft", "NextHopAnon",
    "NextHopAnonPreservedPrefixLen", "SrcCountryBW", "DstCountryBW", "IngressVrfIDBW",
    "EgressVrfIDBW", "SrcAsPath", "DstAsPath"}

EnrichedFields == SharedFields \cup DOMAIN RenamedFields \cup EnrichedOnly

LegacyFields == SharedFields \cup {RenamedFields[f] : f \in DOMAIN RenamedFields}

TimeFields == {"TimeReceived", "TimeReceivedNs"} \cup
    {"TimeFlowStart", "TimeFlowStartMs", "TimeFlowStartNs"} \cup
    {"TimeFlowEnd", "TimeFlowEndMs", "TimeFlowEndNs"}

Zero(f) == IF f \in TimeFields THEN 0 ELSE ""

-----------------------------------------------------------------------------
(* ---------------------------- Timestamps ------------------------------- *)

\* math.Round(a / b): halves go up.
Round(a, b) == (2 * a + b) \div (2 * b)

\* fillTimeIfEmpty: field t1 from field t2 times num / den.
FillTimeIfEmpty(m, t1, t2, num, den) ==
    IF m[t1] = 0 /\ m[t2] # 0 THEN [m EXCEPT ![t1] = Round(m[t2] * num, den)] ELSE m

FillTimeIfEmptyWithFallback(m, t1, t2, num2, den2, t3, num3, den3) ==
    FillTimeIfEmpty(FillTimeIfEmpty(m, t1, t2, num2, den2), t1, t3, num3, den3)

\* The three units of the start or the end of a flow, seconds first.
SyncGroup(m, s, ms, ns) ==
    LET m1 == FillTimeIfEmptyWithFallback(m, s, ns, 1, MsPerS * NsPerMs, ms, 1, MsPerS)
        m2 == FillTimeIfEmptyWithFallback(m1, ms, ns, 1, NsPerMs, s, MsPerS, 1)
    IN FillTimeIfEmptyWithFallback(m2, ns, ms, NsPerMs, 1, s, MsPerS * NsPerMs, 1)

SyncMissingTimeStamps(m) ==
    LET m1 == SyncGroup(m, "TimeFlowEnd", "TimeFlowEndMs", "TimeFlowEndNs")
        m2 == SyncGroup(m1, "TimeFlowStart", "TimeFlowStartMs", "TimeFlowStartNs")
        m3 == FillTimeIfEmpty(m2, "TimeReceived", "TimeReceivedNs", 1, MsPerS * NsPerMs)
    IN FillTimeIfEmpty(m3, "TimeReceivedNs", "TimeReceived", MsPerS * NsPerMs, 1)

-----------------------------------------------------------------------------
(* ---------------------------- Conversions ------------------------------ *)

\* Faulty: the fields with another name are forgotten.
ConvertToEnrichedFlow_SameNames(legacy) ==
    SyncMissingTimeStamps([f \in EnrichedFields |-> IF f \in SharedFields THEN legacy[f] ELSE Zero(f)])

ConvertToEnrichedFlow(legacy) ==
    SyncMissingTimeStamps(
        [f \in EnrichedFields |->
            CASE f \in SharedFields         -> legacy[f]
              [] f \in DOMAIN RenamedFields -> legacy[RenamedFields[f]]
              [] OTHER                      -> Zero(f)])

ConvertToLegacyEnrichedFlow(flow) ==
    LET m == SyncMissingTimeStamps(flow)
    IN [f \in LegacyFields |->
           IF f \in SharedFields THEN m[f]
           ELSE m[CHOOSE e \in DOMAIN RenamedFields : RenamedFields[e] = f]]

\* What a legacy producer and a legacy consumer make of a flow.
ThroughLegacyTopic(flow) == ConvertToEnrichedFlow(ConvertToLegacyEnrichedFlow(flow))
=============================================================================

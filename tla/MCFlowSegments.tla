--------------------------- MODULE MCFlowSegments ---------------------------
(* Segments and flows for FlowSegments: the options, tables and addresses    *)
(* that make the segments' cases differ.                                     *)
EXTENDS FlowSegments

Numbers(op, n) == [op |-> op, number |-> n]
Between(a, b) == [op |-> "range", lower |-> a, upper |-> b]

St(is, match) == [is |-> is, match |-> match, negated |-> FALSE, conj |-> "and"]
Neg(st) == [st EXCEPT !.negated = TRUE]
OrElse(st) == [st EXCEPT !.conj = "or"]

Regular(type, range) == St("regular", [type |-> type, range |-> range])
Equal(type, n) == St("regular", [type |-> type, number |-> n])
Key(type, n) == St("regular", [type |-> type, key |-> n])
Side(dir, type, range) == St("directional", [type |-> type, range |-> range, direction |-> dir])
Address(dir, a, mask, bits) ==
    St("directional", [type |-> "address", address |-> a, mask |-> mask, bits |-> bits, direction |-> dir])
Through(list) == St("passes", [type |-> "passes", list |-> list])

Filters == [
    empty    |-> <<>>,
    path     |-> <<Through(<<1, 2>>)>>,
    nopath   |-> <<Neg(Through(<<2>>)), Side("any", "port", Numbers("", 443))>>,
    sub      |-> <<OrElse(Regular("bytes", Numbers(">", 5))), St("sub", <<Through(<<1, 2>>), Side("src", "port", Between(1, 99))>>)>>,
    net      |-> <<OrElse(Address("src", <<4, 1, 0>>, "1", 1)), Address("any", <<4, 0, 0>>, "none", 0)>>,
    icmp     |-> <<OrElse(Equal("icmptype", 1)), OrElse(Key("tcpflagskey", 2)), Equal("dscp", 2)>>,
    cid      |-> <<OrElse(Side("any", "cid", Numbers("", 7))), OrElse(St("regular", [type |-> "remotecountry", word |-> "DE"])),
                   OrElse(Key("statuskey", 64)), Neg(Side("dst", "ifspeed", Numbers("<", 2)))>>,
    names    |-> <<OrElse(St("directional", [type |-> "ifname", word |-> "xe", direction |-> "src"])),
                   St("directional", [type |-> "snmpid", number |-> 3, direction |-> "any"])>>,
    duration |-> <<Regular("duration", Numbers(">", 1))>>,
    bps      |-> <<Regular("bps", Between(2, 80))>>,
    pps      |-> <<Regular("pps", Numbers("<", 3))>>,
    badbps   |-> <<Regular("bps", Between(9, 1))>>,
    badport  |-> <<Side("any", "port", Between(9, 1))>>]

FilterFlows ==
    LET base == [AsPath |-> <<>>, TimeFlowStart |-> 10, TimeFlowEnd |-> 10, Bytes |-> 5, Packets |-> 3,
                 SrcAddr |-> <<4, 0, 1>>, DstAddr |-> <<4, 1, 1>>, SrcPort |-> 80, DstPort |-> 443,
                 Proto |-> 6, IpTos |-> 8, TcpFlags |-> 2, ForwardingStatus |-> 65,
                 Cid |-> 0, SrcCid |-> 7, DstCid |-> 0, RemoteCountry |-> {"DE"},
                 InIf |-> 3, OutIf |-> 0, SrcIfName |-> {"xe"}, DstIfName |-> {},
                 SrcIfSpeed |-> 1000, DstIfSpeed |-> 10000]
        other == [base EXCEPT !.SrcAddr = <<4, 1, 0>>, !.DstAddr = <<>>, !.Proto = 1, !.DstPort = 256,
                              !.IpTos = 0, !.Cid = 7, !.RemoteCountry = {}, !.InIf = 1, !.SrcIfName = {}]
    IN {[base EXCEPT !.AsPath = p] : p \in {<<>>, <<2>>, <<1, 2>>, <<2, 1, 2>>, <<2, 1>>, <<3, 1, 3>>}}
       \cup {[base EXCEPT !.TimeFlowEnd = e, !.Bytes = b, !.Packets = b] : e \in {9, 10, 11, 13}, b \in {0, 3, 11, 130}}
       \cup {other}

Addr(v, who) == [v |-> v, who |-> who]
Rows == <<[v |-> 4, who |-> "a", id |-> "7"], [v |-> 6, who |-> "c", id |-> "8"],
          [v |-> 4, who |-> "b", id |-> "text"]>>
Ends == {Addr(4, "a"), Addr(4, "b"), Addr(6, "c"), Addr(6, "a"), Addr(0, "nil")}
IdFlows == {[RemoteAddr |-> r, SrcAddr |-> s, DstAddr |-> d, Cid |-> c, SrcCid |-> "0", DstCid |-> "0"] :
              r \in 0..2, s \in Ends, d \in Ends, c \in {"0", "5"}}
NetFlows(zero) == {[RemoteAddr |-> f.RemoteAddr, SrcAddr |-> f.SrcAddr, DstAddr |-> f.DstAddr, Cid |-> f.Cid,
                    NetId |-> zero, SrcId |-> zero, DstId |-> zero] : f \in IdFlows}
SideFlows == {[RemoteAddr |-> r, SrcAddr |-> s, DstAddr |-> d, FlowDirection |-> x] :
                r \in 0..2, s \in Ends, d \in Ends, x \in 0..2}

Opt == [addcid |-> [matchboth : BOOLEAN, dropunmatched : BOOLEAN],
        addnetid |-> [matchboth : BOOLEAN, dropunmatched : BOOLEAN, useintids : BOOLEAN]]

AddCids == {[kind |-> "addcid", rows |-> Rows, matchboth |-> o.matchboth, dropunmatched |-> o.dropunmatched] :
              o \in Opt.addcid}
AddNetIds == {[kind |-> "addnetid", rows |-> Rows, matchboth |-> o.matchboth, dropunmatched |-> o.dropunmatched,
               useintids |-> o.useintids] : o \in Opt.addnetid}
RemoteAddresses ==
    {[kind |-> "remoteaddress", policy |-> "cidr", rows |-> Rows, dropunmatched |-> d] : d \in BOOLEAN}
    \cup {[kind |-> "remoteaddress", policy |-> p, rows |-> <<>>] : p \in {"border", "user", "clear"}}

Anonymizers == {[kind |-> "anonymize", field |-> f, mode |-> m, maskV4 |-> v4, maskV6 |-> 48] :
                  f \in {"SrcAddr", "SamplerAddress"}, m \in {"subnet", "cryptopan", "all"}, v4 \in {16, 24}}
AnonFlows == {[Addr |-> [v |-> v, bits |-> (IF v = 6 THEN 128 ELSE 32), rounds |-> 0], PreservedLen |-> 0, Anon |-> "no"] :
                v \in {0, 4, 6}}

Country == [de |-> "DE", fr |-> "FR", none |-> "none", error |-> "error"]
GeoLocations == {[kind |-> "geolocation", matchboth |-> o.matchboth, dropunmatched |-> o.dropunmatched,
                  country |-> Country] : o \in Opt.addcid}
GeoFlows == {[RemoteAddr |-> r, SrcAddr |-> s, DstAddr |-> d, SrcCountry |-> "", DstCountry |-> "", RemoteCountry |-> ""] :
               r \in 0..2, s \in DOMAIN Country, d \in DOMAIN Country}

Route(best, path, validation) ==
    [best |-> best, path |-> path, validation |-> validation, med |-> 1, localpref |-> 100,
     nexthop |-> (IF validation = "Invalid" THEN "bad" ELSE "hop")]
Table == [x |-> <<Route(FALSE, <<9>>, "Valid"), Route(TRUE, <<1, 2, 2>>, "Valid")>>,
          y |-> <<Route(TRUE, <<>>, "Valid"), Route(TRUE, <<3, 4>>, "Invalid")>>,
          z |-> <<>>]
Bgps == {[kind |-> "bgp", asn |-> a, usefallbackonly |-> u, fallbackrouter |-> f,
          routers |-> [r1 |-> Table, r2 |-> [Table EXCEPT !.x = <<>>]]] :
            a \in {0, 5}, u \in {FALSE}, f \in {"", "r2"}}
        \cup {[kind |-> "bgp", asn |-> 5, usefallbackonly |-> TRUE, fallbackrouter |-> "r2",
               routers |-> [r1 |-> Table, r2 |-> Table]]}
BgpFlows == {[SamplerAddress |-> r, SrcAddr |-> s, DstAddr |-> d, AsPath |-> p, SrcAsPath |-> <<>>, DstAsPath |-> <<>>,
              ValidationStatus |-> "Unknown", DstAs |-> 0, NextHopAs |-> 0, Med |-> 0, LocalPref |-> 0, NextHop |-> "old"] :
                r \in {"r1", "r3"}, s \in DOMAIN Table, d \in DOMAIN Table, p \in {<<>>, <<8>>}}

Times == {"TimeFlowStart", "TimeFlowStartMs", "TimeFlowStartNs", "TimeFlowEnd", "TimeFlowEndMs", "TimeFlowEndNs"}
TimeFlow(s, ms, ns, r) ==
    [f \in EnrichedFields |->
        CASE f = "TimeFlowStart" -> s [] f = "TimeFlowStartMs" -> ms [] f = "TimeFlowStartNs" -> ns
          [] f = "TimeFlowEndNs" -> ns + 100 [] f = "TimeReceivedNs" -> r
          [] f \in TimeFields \ (Times \cup {"TimeReceivedNs"}) -> 0
          [] f \in {"TimeFlowEnd", "TimeFlowEndMs"} -> 0
          [] OTHER -> f]
TimeFlows == {TimeFlow(s, ms, ns, r) : s \in {0, 2}, ms \in {0, 4, 26}, ns \in {0, 3, 48, 263, 1250}, r \in {0, 48}}

Lookups == <<[kind |-> "aslookup", as |-> [x |-> "64500", y |-> "0", e |-> "error"]],
            [kind |-> "reversedns", host |-> [x |-> "host.x", nil |-> "none"]],
            [kind |-> "addrstrings"],
            [kind |-> "protomap", names |-> (6 :> "TCP" @@ 17 :> "UDP")],
            [kind |-> "normalize", fallback |-> 0], [kind |-> "normalize", fallback |-> 3],
            [kind |-> "dropfields", policy |-> "keep", fields |-> {"Bytes"}],
            [kind |-> "dropfields", policy |-> "drop", fields |-> {"Bytes", "Proto"}],
            [kind |-> "sync_timestamps"], [kind |-> "legacy"], [kind |-> "snmp"]>>

Sides == {"Src", "Dst"}
FlowsOf(s) ==
    CASE s.kind = "flowfilter"    -> FilterFlows
      [] s.kind = "addcid"        -> IdFlows
      [] s.kind = "addnetid"      -> NetFlows(IF s.useintids THEN "0" ELSE "")
      [] s.kind = "remoteaddress" -> SideFlows
      [] s.kind = "anonymize"     -> AnonFlows
      [] s.kind = "geolocation"   -> GeoFlows
      [] s.kind = "bgp"           -> BgpFlows
      [] s.kind = "aslookup"      -> [SrcAddr : {"x", "y", "e"}, DstAddr : {"x", "y", "e"}, SrcAs : {"1"}, DstAs : {"2"}]
      [] s.kind \in {"reversedns", "addrstrings"} ->
           [addrs : [Sides -> {"x", "nil"}], names : {[a \in Sides |-> "old"]}]
      [] s.kind = "protomap"      -> [Proto : {6, 17, 250}, ProtoName : {""}]
      [] s.kind = "normalize"     -> [Bytes : {0, 5, 600}, Packets : {1}, SamplingRate : {0, 1, 2}, Normalized : {0}]
      [] s.kind = "dropfields"    -> [Bytes : {"5"}, Proto : {"6"}, Cid : {"7"}]
      [] s.kind = "snmp"          -> [InIf : {0, 1}, OutIf : {0, 1}, SrcIf : {{}}, DstIf : {{}}]
      [] OTHER                    -> TimeFlows

Listed(S) == FoldSet(LAMBDA x, s : Append(s, x), <<>>, S)

FilterNames == Listed(DOMAIN Filters)
MCSegments ==
    [i \in DOMAIN FilterNames |-> [kind |-> "flowfilter", filter |-> Filters[FilterNames[i]]]]
    \o Listed(AddCids) \o Listed(AddNetIds) \o Listed(RemoteAddresses) \o Listed(Anonymizers)
    \o Listed(GeoLocations) \o Listed(Bgps) \o Lookups
MCFlows == [i \in DOMAIN MCSegments |-> FlowsOf(MCSegments[i])]

\* Two flows where the first can leave something behind, and the flows that
\* meet the stages of an snmp query.
MCMaxFlows == [i \in DOMAIN MCSegments |->
    CASE MCSegments[i].kind \in {"flowfilter", "geolocation"} -> 2
      [] MCSegments[i].kind = "snmp" -> 3
      [] OTHER -> 1]
=============================================================================

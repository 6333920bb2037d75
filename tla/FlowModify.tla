----------------------------- MODULE FlowModify -----------------------------
(***************************************************************************)
(* What the modify segments do to one flow: one operator for the body of   *)
(* the loop in each Run.  s holds the options of the segment, with the     *)
(* tables it reads as functions; msg is the flow, a record of the fields   *)
(* the segment touches.  The result is [msg, leaves]: the flow afterwards, *)
(* and whether it is sent to Out (a flow that is not is discarded, none of *)
(* these segments has drops).                                              *)
(*                                                                         *)
(* An address has its IP version v, 0 for nil, and who tells addresses     *)
(* apart (the prefix of a list it is in); anonymize has the number of its  *)
(* leading bits that are left and the rounds of encryption.                *)
(***************************************************************************)
EXTENDS FlowMessage, Integers, Sequences, SequencesExt, FiniteSets

Out(msg) == [msg |-> msg, leaves |-> TRUE]

OutUnless(discard, msg) == [msg |-> msg, leaves |-> ~ discard]

-----------------------------------------------------------------------------
(* ---------------------------- Prefix lists ----------------------------- *)

\* readPrefixList: the rows of the file as two tries.  A row is dropped if
\* its id has to be an integer and is none, or its prefix has neither '.'
\* nor ':'; a file that cannot be opened has no rows.
ReadPrefixList(rows, intIds) ==
    LET used(v) == {i \in 1..Len(rows) : rows[i].v = v /\ (intIds => rows[i].id # "text")}
    IN [v \in {4, 6} |-> [w \in {rows[i].who : i \in used(v)} |->
                             rows[CHOOSE i \in used(v) : rows[i].who = w].id]]

\* Lookup of an address in the trie of its version (6 if it is nil).
Lookup(list, address, zero) ==
    LET trie == list[IF address.v = 4 THEN 4 ELSE 6]
    IN IF address.v # 0 /\ address.who \in DOMAIN trie THEN trie[address.who] ELSE zero

\* The address at the local end, by the remote one.
LocalAddr(msg) == IF msg.RemoteAddr = 1 THEN msg.DstAddr ELSE msg.SrcAddr

\* The id of the flow if only one end has one.
OneSided(src, dst, zero, old) ==
    CASE src = zero /\ dst # zero -> dst
      [] dst = zero /\ src # zero -> src
      [] OTHER                    -> old

\* Faulty: a flow without a remote address passes, dropunmatched or not.
AddCid_Passes(s, msg) ==
    LET cid == Lookup(ReadPrefixList(s.rows, TRUE), LocalAddr(msg), "0")
    IN IF s.matchboth \/ msg.RemoteAddr = 0 THEN Out(msg)
       ELSE OutUnless(s.dropunmatched /\ cid = "0", [msg EXCEPT !.Cid = cid])

\* addcid
AddCid(s, msg) ==
    LET list == ReadPrefixList(s.rows, TRUE)
        cid  == Lookup(list, LocalAddr(msg), "0")
        src  == Lookup(list, msg.SrcAddr, "0")
        dst  == Lookup(list, msg.DstAddr, "0")
    IN CASE s.matchboth ->
              Out([msg EXCEPT !.SrcCid = src, !.DstCid = dst, !.Cid = OneSided(src, dst, "0", @)])
         [] ~ s.matchboth /\ msg.RemoteAddr = 0 -> OutUnless(s.dropunmatched, msg)
         [] OTHER -> OutUnless(s.dropunmatched /\ cid = "0", [msg EXCEPT !.Cid = cid])

\* addnetid; NetId, SrcId and DstId stand for the integer or the string fields.
\* Without matchboth it looks at the Cid another segment may have set; with string ids and matchboth it discards what matches neither side.
AddNetId(s, msg) ==
    LET list == ReadPrefixList(s.rows, s.useintids)
        zero == IF s.useintids THEN "0" ELSE ""
        id   == Lookup(list, LocalAddr(msg), zero)
        src  == Lookup(list, msg.SrcAddr, zero)
        dst  == Lookup(list, msg.DstAddr, zero)
    IN CASE s.matchboth ->
              OutUnless(src = zero /\ dst = zero /\ (s.dropunmatched \/ ~ s.useintids),
                        [msg EXCEPT !.SrcId = src, !.DstId = dst, !.NetId = OneSided(src, dst, zero, @)])
         [] ~ s.matchboth /\ msg.RemoteAddr = 0 -> OutUnless(s.dropunmatched, msg)
         [] OTHER -> OutUnless(s.dropunmatched /\ msg.Cid = "0", [msg EXCEPT !.NetId = id])

\* remoteaddress.  The continue of 'dropunmatched' belongs to the loop over the
\* two addresses, so every flow leaves.
RemoteAddress(s, msg) ==
    LET list == ReadPrefixList(s.rows, FALSE)
        hit(a) == Lookup(list, a, "") # ""
    IN Out([msg EXCEPT !.RemoteAddr =
         CASE s.policy = "cidr"   -> (CASE hit(msg.SrcAddr) -> 1 [] hit(msg.DstAddr) -> 2 [] OTHER -> @)
           [] s.policy = "border" -> (CASE msg.FlowDirection = 0 -> 1 [] msg.FlowDirection = 1 -> 2 [] OTHER -> @)
           [] s.policy = "user"   -> (CASE msg.FlowDirection = 0 -> 2 [] msg.FlowDirection = 1 -> 1 [] OTHER -> @)
           [] s.policy = "clear"  -> 0])

-----------------------------------------------------------------------------
(* ---------------------------- Anonymization ---------------------------- *)

\* Faulty: the length is recorded without regard to an earlier one.
ReduceIPToSubnet_Overwrites(s, ip, preserved) ==
    [ip        |-> [ip EXCEPT !.bits = IF @ < s.maskV4 THEN @ ELSE s.maskV4],
     preserved |-> IF ip.v = 4 THEN s.maskV4 ELSE s.maskV6]

\* SubnetAnonymizer.reduceIPToSubnet: the IPv6 address is cut at MaskV4.
ReduceIPToSubnet(s, ip, preserved) ==
    LET recorded == IF ip.v = 4 THEN s.maskV4 ELSE s.maskV6
        Least(a, b) == IF a < b THEN a ELSE b
    IN [ip        |-> [ip EXCEPT !.bits = Least(@, s.maskV4)],
        preserved |-> IF preserved = 0 \/ recorded < preserved THEN recorded ELSE preserved]

\* Crypto-PAn gives every address another one of the same length: rounds counts.
CryptoPan(ip) == [ip EXCEPT !.rounds = @ + 1]

\* Anonymize.anonymize
AnonymizeIp(s, ip, preserved) ==
    LET clear == IF s.mode = "subnet" THEN ip ELSE CryptoPan(ip)
    IN IF s.mode = "cryptopan" THEN [ip |-> clear, preserved |-> preserved]
       ELSE ReduceIPToSubnet(s, clear, preserved)

\* Run of anonymize, for one field: the length recorded for SamplerAddress
\* starts from 0 each time.
Anonymize(s, msg) ==
    LET r == AnonymizeIp(s, msg.Addr, IF s.field = "SamplerAddress" THEN 0 ELSE msg.PreservedLen)
    IN Out(IF msg.Addr.v = 0 THEN msg
           ELSE [msg EXCEPT !.Addr = r.ip, !.PreservedLen = r.preserved, !.Anon = s.mode])

-----------------------------------------------------------------------------
(* ------------------------ Lookups and arithmetic ----------------------- *)

\* dropfields, over the fields of msg; what PolicyKeep does with a field that
\* does not exist is in SegmentConfig!KeepFields.
DropFields(s, msg) ==
    Out([f \in DOMAIN msg |-> IF (f \in s.fields) = (s.policy = "keep") THEN msg[f] ELSE "zero"])

\* aslookup: destination first; a failed lookup ends the work on the flow.
AsLookup(s, msg) ==
    LET dst == s.as[msg.DstAddr]
        src == s.as[msg.SrcAddr]
    IN Out(CASE dst = "error" -> msg
             [] dst # "error" /\ src = "error" -> [msg EXCEPT !.DstAs = dst]
             [] OTHER -> [msg EXCEPT !.DstAs = dst, !.SrcAs = src])

\* The country a lookup leaves in dbrecord.  An address that is not in the
\* database, or has no country there, leaves the one of an earlier lookup.
LookupCountry(s, address, record) ==
    IF s.country[address] \in {"error", "none"} THEN record ELSE s.country[address]

\* geolocation, with the record the lookups share.
GeoLocation(s, msg, record) ==
    LET set(old, address, r) == IF s.country[address] = "error" THEN old ELSE r
        remote == IF msg.RemoteAddr = 1 THEN msg.SrcAddr ELSE msg.DstAddr
        r1 == LookupCountry(s, IF s.matchboth THEN msg.SrcAddr ELSE remote, record)
        r2 == LookupCountry(s, msg.DstAddr, r1)
    IN CASE s.matchboth ->
              [msg |-> [msg EXCEPT !.SrcCountry = set(@, msg.SrcAddr, r1),
                                   !.DstCountry = set(@, msg.DstAddr, r2)],
               leaves |-> TRUE, record |-> r2]
         [] ~ s.matchboth /\ msg.RemoteAddr = 0 ->
              [msg |-> msg, leaves |-> ~ s.dropunmatched, record |-> record]
         [] OTHER ->
              [msg |-> [msg EXCEPT !.RemoteCountry = set(@, remote, r1)],
               leaves |-> TRUE, record |-> r1]

\* reversedns: each of the four names is set if the lookup finds one.
ReverseDns(s, msg) ==
    Out([msg EXCEPT !.names = [a \in DOMAIN msg.addrs |->
           IF s.host[msg.addrs[a]] = "none" THEN @[a] ELSE s.host[msg.addrs[a]]]])

\* addrstrings: each text is set if the address is.
AddrStrings(s, msg) ==
    Out([msg EXCEPT !.names = [a \in DOMAIN msg.addrs |->
           IF msg.addrs[a] = "nil" THEN @[a] ELSE msg.addrs[a]]])

\* protomap
Protomap(s, msg) ==
    Out([msg EXCEPT !.ProtoName = IF msg.Proto \in DOMAIN s.names THEN s.names[msg.Proto] ELSE "UNKNOWN"])

\* normalize multiplies whatever the flow says about being normalized.
Normalize(s, msg) ==
    LET rate == IF msg.SamplingRate > 0 THEN msg.SamplingRate ELSE s.fallback
    IN Out(IF rate = 0 THEN msg
           ELSE [msg EXCEPT !.Bytes = (@ * rate) % Word, !.Packets = (@ * rate) % Word,
                            !.SamplingRate = rate, !.Normalized = 1])

-----------------------------------------------------------------------------
(* -------------------------------- bgp ---------------------------------- *)

\* The first best route with a path, or none.
BestRoute(routes) == SelectInSeq(routes, LAMBDA r : r.best /\ r.path # <<>>)

\* Faulty: the path of the source is left in the direction it was announced.
SourcePath_Announced(route) == route.path

\* A route's path leads to its origin; flows come the other way.
SourcePath(route) == Reverse(route.path)

\* The router whose table is asked: by the sampler, or the fallback.
RouterFor(s, msg) ==
    CASE ~ s.usefallbackonly /\ msg.SamplerAddress \in DOMAIN s.routers -> msg.SamplerAddress
      [] OTHER -> s.fallbackrouter

\* bgp.  The path of the source is reversed and followed by the own ASN, if it
\* is configured; the path of the destination follows the own ASN in any case.
Bgp(s, msg) ==
    LET table == s.routers[RouterFor(s, msg)]
        own   == IF s.asn = 0 THEN <<>> ELSE <<s.asn>>
        i     == BestRoute(table[msg.SrcAddr])
        j     == BestRoute(table[msg.DstAddr])
        src   == table[msg.SrcAddr][i]
        dst   == table[msg.DstAddr][j]
        from  == IF i = 0 THEN <<>> ELSE SourcePath(src)
        to    == IF j = 0 THEN <<>> ELSE <<s.asn>> \o dst.path
        m     == [msg EXCEPT !.AsPath    = (IF i = 0 THEN @ ELSE from) \o own \o to,
                             !.SrcAsPath = from \o own,
                             !.DstAsPath = to,
                             !.ValidationStatus =
                                CASE j # 0 -> dst.validation [] j = 0 /\ i # 0 -> src.validation [] OTHER -> @]
    IN Out(CASE RouterFor(s, msg) = ""           -> msg
             [] RouterFor(s, msg) # "" /\ j = 0 -> m
             [] OTHER -> [m EXCEPT !.DstAs = Last(dst.path), !.NextHopAs = Head(dst.path),
                                   !.Med = dst.med, !.LocalPref = dst.localpref,
                                   !.NextHop = IF dst.nexthop = "bad" THEN @ ELSE dst.nexthop])

-----------------------------------------------------------------------------
(* ------------------------- prometheus: AS paths ------------------------ *)

\* Repetitions of an ASN are one hop.
DedupConsecutiveASNs(path) ==
    LET kept == {i \in 1..Len(path) : i = 1 \/ path[i] # path[i - 1]}
    IN [k \in 1..Cardinality(kept) |->
           path[CHOOSE i \in kept : Cardinality({x \in kept : x <= i}) = k]]

\* The hops that are counted for a path: between neighbours, and from the
\* first to itself on the source side, from the last on the other.
ExportASPathPairsWithDirection(asPath, direction) ==
    LET path == DedupConsecutiveASNs(asPath)
        n    == Len(path)
        hops == [i \in 1..(n - 1) |-> <<path[i], path[i + 1]>>]
    IN CASE n < 2                  -> <<>>
         [] n >= 2 /\ direction = "Source" -> <<<<path[1], path[1]>>>> \o hops
         [] OTHER                  -> Append(hops, <<path[n], path[n]>>)

\* The path that is counted, if it has two hops.
ExportASPaths(msg) ==
    LET path == DedupConsecutiveASNs(msg.AsPath) IN IF Len(path) < 2 THEN <<>> ELSE path
=============================================================================

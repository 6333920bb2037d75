---------------------------- MODULE FlowSegments ----------------------------
(***************************************************************************)
(* Flows in a running segment: the filter, the modify segments and the     *)
(* legacy conversion, with what a segment remembers from one flow to the   *)
(* next, and a second segment of the same kind behind the first.  The snmp *)
(* segment has its own actions, for the goroutines that query the router.  *)
(***************************************************************************)
EXTENDS FlowFilter, FlowModify

CONSTANTS
    Segments,      \* name -> options of a segment that New has built, with its kind
    Flows,         \* name -> the flows that reach it
    Keys,          \* snmp: the objects asked for an interface
    ConnLimit,     \* snmp: connections at a time
    MaxFlows,      \* bound: name -> flows of a behaviour
    MaxFaults      \* bound: queries that fail, and cache entries that expire

VARIABLES
    seg,           \* the segment, by name
    memory,        \* what it remembers: true filter nodes, country record
    given,         \* the flow of the last step
    passes,        \* what became of it, segment by segment
    count,         \* flows so far
    cache,         \* snmp: key -> "absent", "pending" or "value"
    waiting,       \* snmp: key -> queries that wait for a connection
    connected,     \* snmp: key -> queries that have one
    faults         \* snmp: what went wrong, for the properties

snmpVars == <<cache, waiting, connected, faults>>
vars == <<seg, memory, given, passes, count, snmpVars>>

NoMemory == [nodes |-> {}, record |-> ""]

NoFaults == [failed |-> 0, expired |-> 0, unanswered |-> {}]

Init ==
    /\ seg \in DOMAIN Segments
    /\ Segments[seg].kind = "flowfilter" => ~ VisitFails(Segments[seg].filter)   \* else New returns nil
    /\ memory = NoMemory
    /\ given = <<>> /\ passes = <<>> /\ count = 0
    /\ cache = [k \in Keys |-> "absent"]
    /\ waiting = [k \in Keys |-> 0] /\ connected = [k \in Keys |-> 0]
    /\ faults = NoFaults

-----------------------------------------------------------------------------
(* ------------------------- One flow, one segment ----------------------- *)

\* The segments without memory.
Modify(s, msg) ==
    CASE s.kind = "addcid"        -> AddCid(s, msg)
      [] s.kind = "addnetid"      -> AddNetId(s, msg)
      [] s.kind = "remoteaddress" -> RemoteAddress(s, msg)
      [] s.kind = "anonymize"     -> Anonymize(s, msg)
      [] s.kind = "dropfields"    -> DropFields(s, msg)
      [] s.kind = "aslookup"      -> AsLookup(s, msg)
      [] s.kind = "reversedns"    -> ReverseDns(s, msg)
      [] s.kind = "addrstrings"   -> AddrStrings(s, msg)
      [] s.kind = "protomap"      -> Protomap(s, msg)
      [] s.kind = "normalize"     -> Normalize(s, msg)
      [] s.kind = "bgp"           -> Bgp(s, msg)
      [] s.kind = "sync_timestamps" -> Out(SyncMissingTimeStamps(msg))
      [] s.kind = "legacy"        -> Out(ThroughLegacyTopic(msg))

\* The flow, whether it leaves, and the memory afterwards.
Run(s, msg, mem) ==
    CASE s.kind = "flowfilter" ->
           LET r == CheckFlow(s.filter, msg, mem.nodes)
           IN [msg |-> msg, leaves |-> r.match, memory |-> [mem EXCEPT !.nodes = r.memory]]
      [] s.kind = "geolocation" ->
           LET r == GeoLocation(s, msg, mem.record)
           IN [msg |-> r.msg, leaves |-> r.leaves, memory |-> [mem EXCEPT !.record = r.record]]
      [] OTHER ->
           LET r == Modify(s, msg)
           IN [msg |-> r.msg, leaves |-> r.leaves, memory |-> mem]

Pass(name, r) == [seg |-> name, msg |-> r.msg, leaves |-> r.leaves]

\* The next flow of In.
HandleFlow ==
    /\ Segments[seg].kind # "snmp" /\ count < MaxFlows[seg]
    /\ \E msg \in Flows[seg] :
          LET r == Run(Segments[seg], msg, memory)
          IN /\ given' = msg
             /\ passes' = <<Pass(seg, r)>>
             /\ memory' = r.memory
    /\ count' = count + 1
    /\ UNCHANGED <<seg, snmpVars>>

\* A flow that left meets another segment of the same kind, which has no
\* memory yet.
NextSegment ==
    /\ Len(passes) = 1 /\ Segments[seg].kind # "snmp" /\ passes[1].leaves
    /\ \E name \in DOMAIN Segments :
          /\ Segments[name].kind = Segments[seg].kind
          /\ Segments[seg].kind = "anonymize" => Segments[name].field = Segments[seg].field
          /\ passes' = Append(passes, Pass(name, Run(Segments[name], passes[1].msg, NoMemory)))
    /\ UNCHANGED <<seg, memory, given, count, snmpVars>>

-----------------------------------------------------------------------------
(* -------------------------------- snmp --------------------------------- *)

KeysIn(c, state) == {k \in Keys : c[k] = state}

\* fetchInterfaceData on the cache c: the map of keys is walked in any order,
\* up to the first key that is being queried.
FetchInterfaceData(c) ==
    LET mark(ks) == [k \in Keys |-> IF k \in ks THEN "pending" ELSE c[k]]
    IN IF KeysIn(c, "pending") = {}
         THEN {[cache |-> mark(KeysIn(c, "absent")), queried |-> KeysIn(c, "absent"),
                data |-> KeysIn(c, "value")]}
         ELSE {[cache |-> mark(ks), queried |-> ks, data |-> {}] : ks \in SUBSET KeysIn(c, "absent")}

\* Run of snmp: the source interface, then the destination interface, which is
\* the same one here; a flow may lack either.
SnmpFlow ==
    /\ Segments[seg].kind = "snmp" /\ count < MaxFlows[seg]
    /\ \E msg \in Flows[seg] :
       \E in \in (IF msg.InIf > 0 THEN FetchInterfaceData(cache)
                  ELSE {[cache |-> cache, queried |-> {}, data |-> {}]}) :
       \E out \in (IF msg.OutIf > 0 THEN FetchInterfaceData(in.cache)
                   ELSE {[cache |-> in.cache, queried |-> {}, data |-> {}]}) :
          /\ given' = msg
          /\ passes' = <<[seg |-> seg, leaves |-> TRUE,
                          msg |-> [msg EXCEPT !.SrcIf = in.data, !.DstIf = out.data]]>>
          /\ cache' = out.cache
          /\ waiting' = [k \in Keys |-> waiting[k] + (IF k \in in.queried \cup out.queried THEN 1 ELSE 0)]
          /\ faults' = [faults EXCEPT !.unanswered = @ \ (in.queried \cup out.queried)]
    /\ count' = count + 1
    /\ UNCHANGED <<seg, memory, connected>>

Connections == FoldSet(LAMBDA k, n : n + connected[k], 0, Keys)

\* querySNMP gets a slot of the semaphore.
Connect ==
    /\ Connections < ConnLimit
    /\ \E k \in Keys :
          /\ waiting[k] > 0
          /\ waiting' = [waiting EXCEPT ![k] = @ - 1]
          /\ connected' = [connected EXCEPT ![k] = @ + 1]
    /\ UNCHANGED <<seg, memory, given, passes, count, cache, faults>>

\* querySNMP ends, releasing its slot, with state in the cache for key k.
EndQuery(k, state) ==
    /\ connected[k] > 0
    /\ connected' = [connected EXCEPT ![k] = @ - 1]
    /\ cache' = [cache EXCEPT ![k] = state]
    /\ UNCHANGED <<seg, memory, given, passes, count, waiting>>

Answered == \E k \in Keys : EndQuery(k, "value") /\ UNCHANGED faults

\* Faulty: a query that fails leaves the placeholder in the cache.
QueryFails_Keeps ==
    /\ faults.failed < MaxFaults
    /\ \E k \in Keys : EndQuery(k, cache[k])
    /\ faults' = [faults EXCEPT !.failed = @ + 1]

\* No connection, or an error of Get: the placeholder is removed.
QueryFails ==
    /\ faults.failed < MaxFaults
    /\ \E k \in Keys : EndQuery(k, "absent")
    /\ faults' = [faults EXCEPT !.failed = @ + 1]

\* An answer without exactly one variable: the cache stays as it is.
BadResponse ==
    /\ \E k \in Keys :
          /\ EndQuery(k, cache[k])
          /\ faults' = [faults EXCEPT !.unanswered = @ \cup {k}]

\* An hour later.
CacheExpires ==
    /\ faults.expired < MaxFaults
    /\ \E k \in Keys :
          /\ cache[k] # "absent"
          /\ cache' = [cache EXCEPT ![k] = "absent"]
    /\ faults' = [faults EXCEPT !.expired = @ + 1]
    /\ UNCHANGED <<seg, memory, given, passes, count, waiting, connected>>

Next ==
    \/ HandleFlow \/ NextSegment
    \/ SnmpFlow \/ Connect \/ Answered \/ QueryFails \/ BadResponse \/ CacheExpires

Spec == Init /\ [][Next]_vars

-----------------------------------------------------------------------------
(* ---------------------------- Properties ------------------------------- *)

\* The passes-through list is longer than the flow's path, or there is none.
TooShort(e, msg) ==
    \E m \in Matches(e) : m[1] = "passes" /\ (msg.AsPath = <<>> \/ Len(m[2].list) > Len(msg.AsPath))

\* An address of the flow that the country database does not know.
NoCountry(s, msg) == \E a \in {msg.SrcAddr, msg.DstAddr} : s.country[a] = "none"

\* What another flow left behind decides.
Remembers(s, msg) ==
    \/ s.kind = "flowfilter" /\ TooShort(s.filter, msg)
    \/ s.kind = "geolocation" /\ NoCountry(s, msg)

(* What a segment makes of a flow depends on the flow alone, not on the flows *)
(* before it.  Two segments remember: a filter with a passes-through list,    *)
(* for flows whose AS path is shorter than the list, and geolocation, for     *)
(* addresses its database does not know.                                      *)
HistoryFree ==
    passes # <<>> /\ Segments[seg].kind # "snmp" =>
        \/ passes[1] = Pass(seg, Run(Segments[seg], given, NoMemory))
        \/ Remembers(Segments[seg], given)

\* The segment found what it looks for.
Matched(s, msg, after) ==
    CASE s.kind = "addcid" ->
           IF s.matchboth THEN after.SrcCid # "0" \/ after.DstCid # "0"
           ELSE msg.RemoteAddr # 0 /\ after.Cid # "0"
      [] s.kind = "addnetid" ->
           LET zero == IF s.useintids THEN "0" ELSE ""
           IN IF s.matchboth THEN after.SrcId # zero \/ after.DstId # zero
              ELSE msg.RemoteAddr # 0 /\ after.NetId # zero
      [] s.kind = "remoteaddress" ->
           \E a \in {msg.SrcAddr, msg.DstAddr} : Lookup(ReadPrefixList(s.rows, FALSE), a, "") # ""
      [] s.kind = "geolocation" ->
           IF s.matchboth THEN {after.SrcCountry, after.DstCountry} # {""}
           ELSE msg.RemoteAddr # 0 /\ after.RemoteCountry # ""

\* Where 'dropunmatched' does not do what it says.
DropsOtherwise(s, msg, after) ==
    \/ s.kind = "addcid" /\ s.matchboth /\ s.dropunmatched /\ ~ Matched(s, msg, after)
    \/ /\ s.kind = "addnetid" /\ ~ s.matchboth /\ s.dropunmatched /\ msg.RemoteAddr # 0
       /\ Matched(s, msg, after) # (msg.Cid # "0")
    \/ /\ s.kind = "addnetid" /\ s.matchboth /\ ~ s.dropunmatched
       /\ ~ s.useintids /\ ~ Matched(s, msg, after)
    \/ s.kind = "remoteaddress" /\ s.dropunmatched /\ ~ Matched(s, msg, after)
    \/ /\ s.kind = "geolocation" /\ s.dropunmatched /\ ~ Matched(s, msg, after)
       /\ s.matchboth \/ msg.RemoteAddr # 0

(* With 'dropunmatched' exactly the flows leave that the segment found        *)
(* something for, without it all of them do, except in the cases listed:      *)
(* addcid and geolocation with matchboth, remoteaddress, addnetid, which asks *)
(* for a Cid, and geolocation when its lookup finds nothing.                  *)
UnmatchedAreDropped ==
    passes # <<>> /\ "dropunmatched" \in DOMAIN Segments[seg] =>
        LET s     == Segments[seg]
            after == passes[1].msg
        IN (passes[1].leaves # (s.dropunmatched => Matched(s, given, after)))
              <=> DropsOtherwise(s, given, after)

\* A time in the first half second of the epoch: it rounds to no seconds.
RoundsToZero(msg) ==
    \E f \in {"TimeFlowStartNs", "TimeFlowEndNs"} : msg[f] > 0 /\ 2 * msg[f] < MsPerS * NsPerMs

\* The length anonymize has recorded is that of the prefix it left.  IPv6
\* addresses are cut at the length for IPv4, and the length for the sampler is
\* recorded anew by each segment.
PreservedLenIsTrue(pass, i) ==
    LET s == Segments[pass.seg]
    IN s.kind = "anonymize" /\ pass.msg.Addr.v # 0 /\ pass.msg.PreservedLen # 0 =>
          \/ pass.msg.PreservedLen = pass.msg.Addr.bits
          \/ pass.msg.Addr.v = 6
          \/ s.field = "SamplerAddress" /\ i = 2

(* Running a flow through a segment twice is the same as once, except that    *)
(* normalize multiplies again, Crypto-PAn encrypts again, bgp appends to a    *)
(* path it did not set, and seconds can still be filled in from milliseconds  *)
(* that were rounded up.  Behind two anonymize segments with different masks  *)
(* the recorded length is still that of the prefix that is left.              *)
SecondPassIsIdle ==
    /\ Len(passes) = 2 /\ passes[2].seg = seg =>
          LET s == Segments[seg]
          IN \/ passes[2] = passes[1]
             \/ Remembers(s, given)
             \/ s.kind = "normalize" /\ passes[1].msg.SamplingRate > 1
             \/ s.kind = "anonymize" /\ s.mode # "subnet"
             \/ s.kind = "bgp" /\ passes[1].msg.SrcAsPath = (IF s.asn = 0 THEN <<>> ELSE <<s.asn>>)
             \/ s.kind \in {"sync_timestamps", "legacy"} /\ RoundsToZero(given)
    /\ \A i \in 1..Len(passes) : PreservedLenIsTrue(passes[i], i)

(* A flow that goes through a legacy topic comes back with every field that   *)
(* the legacy message has, and the seconds of all its times; the other fields *)
(* are empty, and times finer than a second are what the seconds give.        *)
LegacyKeepsTheFlow ==
    Len(passes) >= 1 /\ Segments[seg].kind = "legacy" =>
        LET before == SyncMissingTimeStamps(given)
            after  == passes[1].msg
        IN /\ \A f \in SharedFields \cup DOMAIN RenamedFields : after[f] = before[f]
           /\ \A f \in EnrichedOnly \ TimeFields : after[f] = ""
           /\ \A t \in {"TimeFlowStart", "TimeFlowEnd"} :
                 /\ after[t \o "Ms"] = after[t] * MsPerS
                 /\ after[t \o "Ns"] = after[t] * MsPerS * NsPerMs

(* The AS path of a flow with routes at both ends leads from the source's AS  *)
(* over the own AS to the destination's: without repetitions it is those      *)
(* hops, and the hops prometheus counts for the two halves are the hops of    *)
(* the whole.  An own ASN that is not configured appears as 0.                *)
AsPathIsTheRoute ==
    passes # <<>> /\ Segments[seg].kind = "bgp" =>
        LET s     == Segments[seg]
            table == s.routers[RouterFor(s, given)]
            src   == table[given.SrcAddr][BestRoute(table[given.SrcAddr])]
            dst   == table[given.DstAddr][BestRoute(table[given.DstAddr])]
            after == passes[1].msg
            whole == Reverse(src.path) \o <<s.asn>> \o dst.path
            pairs(p) == [i \in 1..(Len(p) - 1) |-> <<p[i], p[i + 1]>>]
        IN RouterFor(s, given) # "" /\ BestRoute(table[given.SrcAddr]) # 0
                                    /\ BestRoute(table[given.DstAddr]) # 0 =>
             /\ ExportASPaths(after) = DedupConsecutiveASNs(whole)
             /\ s.asn # 0 =>
                  LET hops == ExportASPathPairsWithDirection(after.SrcAsPath, "Source") \o
                              ExportASPathPairsWithDirection(after.DstAsPath, "Destination")
                  IN SelectSeq(hops, LAMBDA h : h[1] # h[2]) = pairs(DedupConsecutiveASNs(whole))

(* A placeholder in the snmp cache stands for a query under way, so that the  *)
(* interface is annotated in the end, and there is one query for a key at a   *)
(* time.  A bad response leaves the placeholder for the hour it lasts, and a  *)
(* key whose entry expired is asked again.  A flow gets all data of an        *)
(* interface or none, unless a query failed or an entry expired.              *)
PlaceholdersAreQueried ==
    /\ \A k \in Keys :
          /\ cache[k] = "pending" => waiting[k] + connected[k] > 0 \/ k \in faults.unanswered
          /\ waiting[k] + connected[k] <= 1 + faults.expired
    /\ passes # <<>> /\ Segments[seg].kind = "snmp" =>
          \A side \in {passes[1].msg.SrcIf, passes[1].msg.DstIf} :
             side \in {{}, Keys} \/ faults.failed + faults.expired > 0
=============================================================================

---------------------------- MODULE SegmentConfig ----------------------------
(***************************************************************************)
(* How a segment reads its configuration: the New method of every segment. *)
(*                                                                         *)
(* A configuration c maps each option of the segment to a class of values, *)
(* named by what New can tell apart: "unset" (absent or empty), "bad" (does *)
(* not parse, or no such choice), "missing" (a file or device that cannot  *)
(* be opened), "neg", "zero", "n" (numbers), or a text or a choice that    *)
(* stands for itself.  A list of flow fields is "known", "spaced" (blanks  *)
(* after the commas), "unexported" or "unknown".                           *)
(*                                                                         *)
(* New returns [out, f].  out is "ok", "nil" (New returned nil) or "fatal" *)
(* (New ended the process).  f maps each option to the value the new       *)
(* segment works with, "default" standing for the built-in one.            *)
(***************************************************************************)
EXTENDS Integers, Sequences

CONSTANTS
    CgoEnabled,      \* the binary was built with cgo (packet filters)
    Args,            \* how many command line arguments were given
    Env              \* the environment variables that are set

-----------------------------------------------------------------------------
(* ---------------- Variables in the configuration file ------------------ *)

\* A text of the configuration is a sequence of parts: a literal, an argument
\* "$n" or an environment variable "$NAME".
Lit == [kind |-> "lit", name |-> "x"]

Arg(n) == [kind |-> "arg", name |-> n]

Var(v) == [kind |-> "env", name |-> v]

\* os.Expand with argvMapper: only arguments that were given have a value.
ArgvExpand(text) ==
    SelectSeq(text, LAMBDA p : p.kind = "lit" \/ (p.kind = "arg" /\ p.name < Args))

\* os.ExpandEnv: "$0" names an environment variable too, which is not set.
EnvExpand(text) ==
    SelectSeq(text, LAMBDA p : p.kind = "lit" \/ (p.kind = "env" /\ p.name \in Env))

\* Faulty: the environment first, the arguments for what it leaves empty.
ExpandedConfig_EnvFirst(text) ==
    IF EnvExpand(text) = <<>> /\ text # <<>> THEN ArgvExpand(text) ELSE EnvExpand(text)

\* SegmentRepr.ExpandedConfig, for one option.
ExpandedConfig(text) ==
    IF ArgvExpand(text) = <<>> /\ text # <<>> THEN EnvExpand(text) ELSE ArgvExpand(text)

-----------------------------------------------------------------------------
(* ----------------------------- Idioms ---------------------------------- *)

Given(v) == v # "unset"

\* A value that parses is used; otherwise New logs and keeps the default.
Value(v) == IF v \in {"unset", "bad"} THEN "default" ELSE v

\* The result of New: nil, or the object with the fields f.
Build(rejected, f) == [out |-> IF rejected THEN "nil" ELSE "ok", f |-> f]

\* The same for the segments that end the process instead of returning nil.
BuildOrDie(fatal, f) == [out |-> IF fatal THEN "fatal" ELSE "ok", f |-> f]

\* Every option taken as it is.
Plain(c) == [o \in DOMAIN c |-> Value(c[o])]

\* BaseTextOutputSegment.GetOutput: no file name is stdout, else os.Create.
GetOutputFails(c) == c.filename = "missing"

\* A list of field names split at the commas, each name trimmed or not.
Trimmed(v) == IF v = "spaced" THEN "known" ELSE Value(v)

-----------------------------------------------------------------------------
(* ------------------------------ Inputs --------------------------------- *)

NewBpf(c) ==
    LET active == IF Value(c.inactivetimeout) = "default"
                    THEN Value(c.activetimeout)
                    ELSE c.inactivetimeout
        inactive == IF Value(c.inactivetimeout) = "default" THEN "default" ELSE ""
    IN Build(\/ c.device \in {"unset", "missing"}
             \/ c.buffersize \in {"neg", "zero"}
             \/ inactive = "",             \* NewFlowExporter cannot parse it
             [Plain(c) EXCEPT !.activetimeout = active, !.inactivetimeout = inactive])

\* Packet.parseOption: each option into its field, a filter only with cgo.
ParseOption(c) == [Plain(c) EXCEPT !.filter = IF CgoEnabled THEN @ ELSE "default"]

\* Faulty: the slip NewBpf makes, an inactive timeout in the active one's field.
NewPacket_Timeouts(c) ==
    Build(\/ c.method = "bad"
          \/ c.source # (IF c.method = "file" THEN "capture" ELSE "iface"),
          [ParseOption(c) EXCEPT !.activetimeout =
              IF Given(c.inactivetimeout) THEN Value(c.inactivetimeout) ELSE @])

NewPacket(c) ==
    Build(\/ c.method = "bad"
          \/ c.source # (IF c.method = "file" THEN "capture" ELSE "iface"), ParseOption(c))

NewStdIn(c) ==
    Build(c.filename = "missing",
          [Plain(c) EXCEPT !.eofcloses = IF Given(c.filename) THEN @ ELSE "default"])

NewGoflow(c) ==
    Build(c.listen \in {"bad", "flow"} \/ c.workers = "zero", Plain(c))

\* The field is respectTiming, and gets the parsed 'ignoretiming' as it is.
NewReplay(c) ==
    Build(c.filename \in {"unset", "missing"},
          [Plain(c) EXCEPT !.ignoretiming =
              CASE @ = "true" -> "false" [] @ = "false" -> "true" [] OTHER -> @])

\* What both Kafka segments require: server and topic, and with
\* authentication, which is the default, user and password.
KafkaRejects(c) ==
    \/ ~ Given(c.server) \/ ~ Given(c.topic)
    \/ c.auth # "false" /\ (~ Given(c.user) \/ ~ Given(c.pass))

NewKafkaConsumer(c) ==
    Build(KafkaRejects(c) \/ ~ Given(c.group),
          [Plain(c) EXCEPT !.strategy = IF c.strategy = "bad" THEN "none" ELSE @])

DefaultMark == [highmemorymark |-> 70, lowmemorymark |-> 30, readingmemorymark |-> 5]

\* The memory marks are percentages; the fields hold the numbers.
MarkValue == [v \in {"3", "8", "20", "60", "90"} |->
    CASE v = "3" -> 3 [] v = "8" -> 8 [] v = "20" -> 20 [] v = "60" -> 60 [] v = "90" -> 90]

\* Option o's mark, parsed from option from.
Mark(c, o, from) ==
    CASE ~ Given(c[o])                 -> DefaultMark[o]
      [] c[from] \in {"unset", "bad"}  -> -1
      [] OTHER                         -> MarkValue[c[from]]

\* NewDiskBuffer works on the registered template and returns it: debug is the
\* BatchDebugPrintf an earlier call left there.
NewDiskBuffer(c, debug) ==
    LET high    == Mark(c, "highmemorymark", "highmemorymark")
        reading == Mark(c, "readingmemorymark", "highmemorymark")
        low     == Mark(c, "lowmemorymark", "lowmemorymark")
        atLeast(v, least) == IF v \in least THEN v ELSE "default"
    IN BuildOrDie(
         \/ c.bufferdir \in {"unset", "missing"}
         \/ high \notin 10..95 \/ reading \notin 1..50 \/ low \notin 5..70
         \/ low > high \/ reading > low
         \/ \E o \in {"maxcachesize", "filesize", "batchsize", "batchdebug",
                      "queuestatusinterval", "queuesize"} : c[o] = "bad",
         [Plain(c) EXCEPT !.highmemorymark    = high,
                          !.readingmemorymark = reading,
                          !.lowmemorymark     = low,
                          !.maxcachesize      = "default",
                          !.batchsize         = atLeast(@, {"zero", "n"}),
                          !.queuesize         = atLeast(@, {"n"}),
                          !.batchdebug        = IF Given(c.batchdebug) THEN @ ELSE debug])

\* The template of filegate is shared as well.
NewFilegate(c) == BuildOrDie(~ Given(c.filename), Plain(c))

-----------------------------------------------------------------------------
(* ------------------------------ Outputs -------------------------------- *)

NewKafkaProducer(c) ==
    Build(KafkaRejects(c) \/ c.topicsuffix \in {"unknown", "spaced", "bytes"}, Plain(c))

\* As NewDiskBuffer: the template itself, with what BatchDebugPrintf it had.
\* servers is a URL: its scheme, its compression and its worker count.
NewLumberjack(c, debug) ==
    BuildOrDie(
        \/ c.compression \in {"bad", "neg", "ten"}
        \/ c.servers \in {"unset", "bad", "http", "tcp?compression=ten", "tcp?count=bad"}
        \/ \E o \in {"batchsize", "batchtimeout", "batchdebug", "reconnectwait",
                     "queuestatusinterval", "queuesize"} : c[o] = "bad",
        [Plain(c) EXCEPT !.servers      = IF @ = "tcp?count=zero" THEN "tcp" ELSE @,
                         !.batchsize    = IF @ = "neg" THEN "default" ELSE @,
                         !.batchtimeout = IF @ \in {"zero", "hour"} THEN "default" ELSE @,
                         !.queuesize    = IF @ \in {"neg", "zero"} THEN "default" ELSE @,
                         !.batchdebug   = IF Given(c.batchdebug) THEN @ ELSE debug])

\* sqlite and mongodb look the names up as they are, blanks included.
NewSqlite(c) ==
    Build(\/ ~ Given(c.filename)
          \/ c.batchsize \in {"neg", "zero"}
          \/ c.fields \in {"unknown", "unexported", "spaced"}, Plain(c))

FillSegmentWithConfig(c) ==
    Build(\/ ~ Given(c.mongodb_uri)
          \/ c.batchsize \in {"neg", "zero"}
          \/ c.fields \in {"unknown", "unexported", "spaced"}, Plain(c))

\* New of mongodb then connects and pings.
NewMongodb(c) ==
    LET r == FillSegmentWithConfig(c)
    IN Build(r.out = "nil" \/ c.mongodb_uri = "missing", r.f)

\* The default preset the documentation names is not one New knows.
NewClickhouse(c) ==
    Build(~ Given(c.dsn) \/ c.batchsize = "zero" \/ c.preset # "flowhouse", Plain(c))

NewJson(c) == Build(GetOutputFails(c), Plain(c))

NewCsv(c) ==
    Build(GetOutputFails(c) \/ c.fields \in {"unknown", "unexported"},
          [Plain(c) EXCEPT !.fields = Trimmed(@)])

NewHttp(c) == Build(c.url \in {"unset", "bad", "ftp"}, Plain(c))

\* A bad address is only logged.  Tags are trimmed for the check, not for use.
NewInflux(c) ==
    Build(\/ \E o \in {"org", "bucket", "token"} : ~ Given(c[o])
          \/ c.tags = "unknown"
          \/ c.fields \in {"unknown", "spaced"},
          [Plain(c) EXCEPT !.address = IF c.address = "bad" THEN "bad" ELSE @])

\* Faulty: the labels are not looked up in the flow message.
NewPrometheus_Unchecked(c) == Build(FALSE, [Plain(c) EXCEPT !.labels = Trimmed(@)])

\* A vacuum_interval that does not parse is no interval; export_as_pairs and
\* export_as_paths are on for the word true only.
NewPrometheus(c) ==
    Build(c.labels = "unknown", [Plain(c) EXCEPT !.labels = Trimmed(@)])

NewDelayMonitoring(c) == Build(FALSE, Plain(c))

-----------------------------------------------------------------------------
(* ------------------- Analysis, filters and printing -------------------- *)

\* The buckets must be positive; everything else has a default.
ParsePrometheusConfig(c) ==
    Build(\E o \in {"buckets", "thresholdbuckets", "reportbuckets"} : c[o] \in {"neg", "zero"},
          Plain(c))

NewToptalkersMetrics(c) == ParsePrometheusConfig(c)

\* The metric of a definition whose filter does not parse is nil.
MetricFromDefinition(definition) == IF definition = "bad" THEN "nil" ELSE Value(definition)

\* AddCustomConfig keeps every metric, nil or not.
AddCustomConfig(f, c) == [f EXCEPT !.definitions = MetricFromDefinition(c.definitions)]

\* 'metricspath' and 'flowdatapath' end up in the same field.
NewTrafficSpecificToptalkers(c) ==
    Build(FALSE, AddCustomConfig(
          [Plain(c) EXCEPT
              !.metricspath     = "default",
              !.flowdatapath    = IF Given(c.flowdatapath) THEN @ ELSE Value(c.metricspath),
              !.relevantaddress = IF Given(c.relevantaddress) THEN c.relevantaddress ELSE @], c))

NewTopTalkers(c) ==
    Build(\/ \E o \in {"window", "reportinterval"} : c[o] \in {"neg", "zero"}
          \/ GetOutputFails(c) \/ c.topn = "zero", Plain(c))

NewElephant(c) ==
    Build(\/ c.percentile = "zero" \/ c.window \in {"neg", "zero"}
          \/ c.rampuptime = "neg", Plain(c))

\* The filter must parse, and evaluate on an empty flow.
NewFlowFilter(c) == Build(c.filter \in {"bad", "badrange"}, Plain(c))

NewPrintFlowdump(c) == Build(GetOutputFails(c), Plain(c))

NewPrintDots(c) == Build(GetOutputFails(c), Plain(c))

NewCount(c) == Build(GetOutputFails(c), Plain(c))

NewBranch(c) == BuildOrDie(c["bypass-messages"] = "bad", Plain(c))

-----------------------------------------------------------------------------
(* ----------------------------- Modifiers ------------------------------- *)

NewAddCid(c) == Build(~ Given(c.filename), Plain(c))

NewAddNetId(c) == Build(~ Given(c.filename), Plain(c))

NewRemoteAddress(c) ==
    Build(\/ c.policy \notin {"cidr", "border", "user", "clear"}
          \/ c.policy = "cidr" /\ ~ Given(c.filename), Plain(c))

ModeFromConfig(c) == CASE c.mode = "unset" -> "cryptopan" [] c.mode = "bad" -> "invalid" [] OTHER -> c.mode

\* The lower bound of maskV6 is checked on maskV4.  The masks and the key are
\* read in the modes that use them.
NewAnonymize(c) ==
    LET mode   == ModeFromConfig(c)
        subnet == mode \in {"subnet", "all"}
        crypto == mode \in {"cryptopan", "all"}
    IN Build(\/ mode = "invalid"
             \/ subnet /\ c.maskV4 \in {"bad", "two", "long"}
             \/ subnet /\ c.maskV6 \in {"bad", "long"}
             \/ crypto /\ c.key \in {"unset", "short"},
             [Plain(c) EXCEPT !.maskV4 = IF subnet THEN @ ELSE "default",
                              !.maskV6 = IF subnet THEN @ ELSE "default",
                              !.key    = IF crypto THEN @ ELSE "default"])

NewDropFields(c) == BuildOrDie(c.policy \notin {"keep", "drop"}, [Plain(c) EXCEPT !.fields = Trimmed(@)])

\* A file that is no database is logged, and leaves no database.
NewAsLookup(c) == Build(c.filename \in {"unset", "missing"}, Plain(c))

NewGeoLocation(c) == Build(c.filename \in {"unset", "missing", "malformed"}, Plain(c))

\* A 'cache' that parses is refused; one that does not switches the cache off.
NewReverseDns(c) ==
    LET cache == ~ Given(c.cache)
    IN Build(c.cache \in {"true", "false"} \/ (cache /\ c.refreshinterval = "bad"),
             [Plain(c) EXCEPT !.cache           = IF cache THEN "default" ELSE "false",
                              !.refreshinterval = IF cache THEN @ ELSE "default"])

NewSnmp(c) == Build(c.connlimit = "zero" \/ c.regex = "bad", Plain(c))

NewNormalize(c) == Build(FALSE, Plain(c))

NewBgp(c) ==
    Build(\/ c.filename \in {"unset", "missing", "malformed"}
          \/ c.fallbackrouter \in {"empty", "unknown"}
          \/ c.usefallbackonly = "true" /\ ~ Given(c.fallbackrouter), Plain(c))

NewAddrStrings(c) == Build(FALSE, Plain(c))

-----------------------------------------------------------------------------
(* ------- What Run makes of the object: "ok", "panic" or "fatal" -------- *)

\* startGoFlow knows "flow" where New knows "nfl".
StartGoFlow(f) == IF f.listen = "nfl" THEN "fatal" ELSE "ok"

\* A batch of size zero has no slot for the first flow, and a BatchDebugPrintf
\* nobody set is called with the first batch.
FillBatch(f) == IF f.batchsize = "zero" \/ f.batchdebug = "default" THEN "panic" ELSE "ok"

\* FieldByName of a name with blanks, Interface() of an unexported field.
CreatePoint(f) ==
    IF \/ f.tags \in {"spaced", "unexported", "unknown"}
       \/ f.fields \in {"spaced", "unexported", "unknown"}
    THEN "panic" ELSE "ok"

LabelValues(f) == IF f.labels \in {"unexported", "unknown"} THEN "panic" ELSE "ok"

LookupAs(f) == IF f.filename = "malformed" THEN "panic" ELSE "ok"

\* Only PolicyKeep insists that the fields exist; no list is the field "".
KeepFields(f) ==
    IF f.policy = "keep" /\ f.fields \in {"default", "unknown", "unexported"} THEN "fatal" ELSE "ok"

InitDatabasesForFilter(f) == IF f.definitions = "nil" THEN "panic" ELSE "ok"

\* time.NewTicker panics unless the interval is positive.
Refresher(f) ==
    IF f.cache = "default" /\ f.refreshinterval \in {"zero", "neg"} THEN "panic" ELSE "ok"

\* The cache of the FlowExporter that New of aggregate leaves empty is a nil map.
InsertFlow == "panic"

\* bulkInsert is bound to a copy of the segment, which has no database.
BulkInsert == "panic"

-----------------------------------------------------------------------------
(* --------------------------- The registry ------------------------------ *)

\* New and Run by the name a segment is registered under.
New(kind, c, debug) ==
    CASE kind = "bpf"             -> NewBpf(c)
      [] kind = "packet"          -> NewPacket(c)
      [] kind = "stdin"           -> NewStdIn(c)
      [] kind = "goflow"          -> NewGoflow(c)
      [] kind = "replay"          -> NewReplay(c)
      [] kind = "kafkaconsumer"   -> NewKafkaConsumer(c)
      [] kind = "diskbuffer"      -> NewDiskBuffer(c, debug)
      [] kind = "filegate"        -> NewFilegate(c)
      [] kind = "kafkaproducer"   -> NewKafkaProducer(c)
      [] kind = "lumberjack"      -> NewLumberjack(c, debug)
      [] kind = "sqlite"          -> NewSqlite(c)
      [] kind = "mongodb"         -> NewMongodb(c)
      [] kind = "clickhouse"      -> NewClickhouse(c)
      [] kind = "json"            -> NewJson(c)
      [] kind = "csv"             -> NewCsv(c)
      [] kind = "http"            -> NewHttp(c)
      [] kind = "influx"          -> NewInflux(c)
      [] kind = "prometheus"      -> NewPrometheus(c)
      [] kind = "delay_monitoring" -> NewDelayMonitoring(c)
      [] kind = "toptalkers_metrics"          -> NewToptalkersMetrics(c)
      [] kind = "traffic_specific_toptalkers" -> NewTrafficSpecificToptalkers(c)
      [] kind = "toptalkers"      -> NewTopTalkers(c)
      [] kind = "elephant"        -> NewElephant(c)
      [] kind = "flowfilter"      -> NewFlowFilter(c)
      [] kind = "printflowdump"   -> NewPrintFlowdump(c)
      [] kind = "printdots"       -> NewPrintDots(c)
      [] kind = "count"           -> NewCount(c)
      [] kind = "branch"          -> NewBranch(c)
      [] kind = "addcid"          -> NewAddCid(c)
      [] kind = "addnetid"        -> NewAddNetId(c)
      [] kind = "remoteaddress"   -> NewRemoteAddress(c)
      [] kind = "anonymize"       -> NewAnonymize(c)
      [] kind = "dropfields"      -> NewDropFields(c)
      [] kind = "aslookup"        -> NewAsLookup(c)
      [] kind = "geolocation"     -> NewGeoLocation(c)
      [] kind = "reversedns"      -> NewReverseDns(c)
      [] kind = "snmp"            -> NewSnmp(c)
      [] kind = "normalize"       -> NewNormalize(c)
      [] kind = "bgp"             -> NewBgp(c)
      [] kind = "addrstrings"     -> NewAddrStrings(c)
      [] kind = "aggregate"       -> Build(FALSE, Plain(c))

FirstFlow(kind, f) ==
    CASE kind = "goflow"      -> StartGoFlow(f)
      [] kind = "lumberjack"  -> FillBatch(f)
      [] kind = "influx"      -> CreatePoint(f)
      [] kind = "prometheus"  -> LabelValues(f)
      [] kind = "aslookup"    -> LookupAs(f)
      [] kind = "dropfields"  -> KeepFields(f)
      [] kind = "traffic_specific_toptalkers" -> InitDatabasesForFilter(f)
      [] kind = "reversedns"  -> Refresher(f)
      [] kind = "aggregate"   -> InsertFlow
      [] kind = "clickhouse"  -> BulkInsert
      [] OTHER                -> "ok"

=============================================================================

------------------------------ MODULE Segments ------------------------------
(***************************************************************************)
(* From the configuration file to running segments: the entries of the     *)
(* file, their expansion, SegmentsFromRepr with jobs and the registered    *)
(* templates, and the first flow.  A pipeline here has one kind of         *)
(* segment; what New and Run of each kind do is in SegmentConfig.          *)
(***************************************************************************)
EXTENDS SegmentConfig, Functions

CONSTANTS
    Options,       \* kind -> option -> the classes of values it can have
    Minimal,       \* kind -> a configuration that New accepts
    Starts,        \* kind -> the configurations an author starts from
    TextKind,      \* the kind whose text option is expanded
    Vars,          \* environment variables a text can name
    MaxText,       \* bound: parts of a text
    MaxSet,        \* bound: options written on top of it
    MaxEntries,    \* bound: entries of the file
    MaxJobs        \* bound: the 'jobs' of an entry

VARIABLES
    kind,          \* the segment the file configures
    config,        \* options of the entry being written
    text,          \* the value of a text option, as written
    left,          \* options that can still be written
    entries,       \* entries read: their options and the objects made for them
    heap,          \* the segment objects: their fields
    process        \* "init", "rejected", "fatal", "running" or "crashed"

vars == <<kind, config, text, left, entries, heap, process>>

Kinds == DOMAIN Options

Blank(k) == [o \in DOMAIN Options[k] |-> "unset"]

Init ==
    /\ kind \in Kinds
    /\ config \in {Blank(kind), Minimal[kind]} \cup Starts[kind]
    /\ text = <<>>
    /\ left = MaxSet
    /\ entries = <<>> /\ heap = <<>>
    /\ process = "init"

-----------------------------------------------------------------------------

\* The author of the file gives an option another value.
SetOption ==
    /\ process = "init" /\ Len(entries) < MaxEntries /\ left > 0
    /\ \E o \in DOMAIN config : \E v \in Options[kind][o] \ {config[o]} :
          config' = [config EXCEPT ![o] = v]
    /\ left' = left - 1
    /\ UNCHANGED <<kind, text, entries, heap, process>>

\* A text may hold variables.  It is written for one kind, the others expand alike.
WriteText ==
    /\ process = "init" /\ entries = <<>> /\ kind = TextKind /\ Len(text) < MaxText
    /\ \E p \in {Lit} \cup {Arg(n) : n \in 0..Args} \cup {Var(v) : v \in Vars} : text' = Append(text, p)
    /\ UNCHANGED <<kind, config, left, entries, heap, process>>

\* BatchDebugPrintf of the template: nil until some entry sets it.
TemplateDebug ==
    IF kind \in {"diskbuffer", "lumberjack"} /\ heap # <<>> THEN heap[1].batchdebug ELSE "default"

\* Faulty: the template of csv is handed out as well.
SharedTemplate_Csv(k) == k \in {"diskbuffer", "lumberjack", "filegate", "csv"}

\* New of these kinds has a pointer receiver, writes to it and returns it.
SharedTemplate(k) == k \in {"diskbuffer", "lumberjack", "filegate"}

\* The heap after the jobs' calls of New with the result f, and their objects.
Allocate(f, jobs) ==
    IF SharedTemplate(kind)
      THEN [heap |-> <<f>>, refs |-> [j \in 1..jobs |-> 1]]
      ELSE [heap |-> heap \o [j \in 1..jobs |-> f],
            refs |-> [j \in 1..jobs |-> Len(heap) + j]]

\* SegmentsFromRepr: one call of New for each job of the entry.  Without a
\* segment the pipeline is not built.
NewEntry ==
    /\ process = "init" /\ Len(entries) < MaxEntries
    /\ LET r == New(kind, config, TemplateDebug)
       IN IF r.out = "ok"
            THEN \E jobs \in 1..MaxJobs :
                   /\ heap' = Allocate(r.f, jobs).heap
                   /\ entries' = Append(entries, [config |-> config,
                                                  refs   |-> Allocate(r.f, jobs).refs])
                   /\ config' = Minimal[kind]
                   /\ UNCHANGED process
            ELSE /\ process' = IF r.out = "nil" THEN "rejected" ELSE "fatal"
                 /\ UNCHANGED <<config, entries, heap>>
    /\ UNCHANGED <<kind, text, left>>

\* The pipeline starts and the first flow reaches the first entry.
Start ==
    /\ process = "init" /\ entries # <<>>
    /\ process' = LET out == FirstFlow(kind, heap[entries[1].refs[1]])
                  IN IF out = "ok" THEN "running" ELSE "crashed"
    /\ UNCHANGED <<kind, config, text, left, entries, heap>>

Next == SetOption \/ WriteText \/ NewEntry \/ Start

Spec == Init /\ [][Next]_vars

-----------------------------------------------------------------------------
(* ---------------------------- Properties ------------------------------- *)

(* Every variable in a text of the configuration file gets its value: the    *)
(* arguments that were given and the environment variables that are set,     *)
(* unless the text holds anything besides environment variables: what        *)
(* argvMapper leaves is not empty then, and ExpandEnv is not tried.          *)
VariablesAreExpanded ==
    LET full == SelectSeq(text, LAMBDA p : \/ p.kind = "lit"
                                           \/ p.kind = "arg" /\ p.name < Args
                                           \/ p.kind = "env" /\ p.name \in Env)
        variable == \E i \in 1..Len(text) : text[i].kind = "env" /\ text[i].name \in Env
        other == \E i \in 1..Len(full) : full[i].kind # "env"
    IN (ExpandedConfig(text) = full) <=> ~ (variable /\ other)

\* What a value is meant to set: itself, or the default if it is absent or bad.
Meant(o, v) ==
    CASE o \in DOMAIN DefaultMark -> IF Given(v) THEN MarkValue[v] ELSE DefaultMark[o]
      [] v = "spaced"             -> "known"
      [] OTHER                    -> Value(v)

\* Values New replaces by another, with a message, because they are out of range.
Clamped(k, o, v) ==
    \/ k \in {"diskbuffer", "lumberjack"} /\ o = "batchsize" /\ v = "neg"
    \/ k \in {"diskbuffer", "lumberjack"} /\ o = "queuesize" /\ v \in {"neg", "zero"}
    \/ k = "lumberjack" /\ o = "batchtimeout" /\ v \in {"zero", "hour"}
    \/ k = "lumberjack" /\ o = "servers" /\ v = "tcp?count=zero"

\* Options that do not matter in the mode another one selects.
Unused(k, c, o) ==
    \/ k = "stdin" /\ o = "eofcloses" /\ ~ Given(c.filename)
    \/ k = "anonymize" /\ o \in {"maskV4", "maskV6"} /\ c.mode \notin {"subnet", "all"}
    \/ k = "anonymize" /\ o = "key" /\ c.mode = "subnet"
    \/ k = "reversedns" /\ o = "refreshinterval" /\ Given(c.cache)
    \/ k = "packet" /\ o = "filter" /\ ~ CgoEnabled

\* Options whose value ends up in another field, or in none, or not as meant.
Misread(k, c, o) ==
    \/ k = "replay" /\ o = "ignoretiming" /\ Value(c[o]) # "default"
    \/ k = "diskbuffer" /\ o = "readingmemorymark" /\ Given(c[o]) /\ c[o] # c.highmemorymark
    \/ k = "diskbuffer" /\ o = "maxcachesize" /\ Given(c[o])
    \/ k = "traffic_specific_toptalkers" /\ o = "metricspath" /\ Given(c[o])
    \/ k = "traffic_specific_toptalkers" /\ o = "flowdatapath" /\ ~ Given(c[o]) /\ Given(c.metricspath)
    \/ k = "traffic_specific_toptalkers" /\ o \in {"relevantaddress", "definitions"} /\ c[o] = "bad"
    \/ k = "kafkaconsumer" /\ o = "strategy" /\ c[o] = "bad"
    \/ k = "influx" /\ o = "address" /\ c[o] = "bad"
    \/ k = "influx" /\ o = "tags" /\ c[o] = "spaced"
    \/ k = "reversedns" /\ o = "cache" /\ c[o] = "bad"

\* The options no value of which New both accepts and uses.
Dead(k, o) ==
    \/ <<k, o>> \in {<<"bpf", "inactivetimeout">>, <<"reversedns", "cache">>,
                     <<"replay", "ignoretiming">>, <<"diskbuffer", "maxcachesize">>,
                     <<"diskbuffer", "readingmemorymark">>,
                     <<"traffic_specific_toptalkers", "metricspath">>}
    \/ k = "packet" /\ o = "filter" /\ ~ CgoEnabled

\* From a configuration that New accepts, a value of the option is accepted and
\* takes effect.
Usable(k, o) ==
    \E v \in Options[k][o] \ {"unset", "bad"} :
        LET r == New(k, [Minimal[k] EXCEPT ![o] = v], "default")
        IN r.out = "ok" /\ r.f[o] = Meant(o, v)

(* A configuration New accepts means what it says: each option sets its own  *)
(* field to the value written, or leaves the default if there is none or it  *)
(* does not parse; and every option can be used.  It is otherwise for the    *)
(* listed values and options, and only those.                                *)
OptionsTakeEffect ==
    /\ \A o \in DOMAIN config : Usable(kind, o) <=> ~ Dead(kind, o)
    /\ LET r == New(kind, config, "default")
       IN r.out = "ok" =>
            \A o \in DOMAIN config :
               (r.f[o] # Meant(o, config[o])) <=>
                  \/ Misread(kind, config, o)
                  \/ Clamped(kind, o, config[o])
                  \/ Unused(kind, config, o) /\ Value(config[o]) # "default"

(* Each job of each entry has a segment of its own, configured as its entry  *)
(* says, whatever the entries after it are.  For diskbuffer, lumberjack and  *)
(* filegate all of them are the registered template: the last entry is in    *)
(* force for all, and what it does not say about batchdebug an earlier did.  *)
EntriesKeepTheirConfig ==
    LET fields(i) == New(kind, entries[i].config, "default").f
        objects(i) == Range(entries[i].refs)
        n == Len(entries)
    IN \A i \in 1..n :
         IF kind \in {"diskbuffer", "lumberjack", "filegate"}
           THEN \A o \in DOMAIN config \ {"batchdebug"} : heap[1][o] = fields(n)[o]
           ELSE /\ \A x \in objects(i) : heap[x] = fields(i)
                /\ IsInjective(entries[i].refs)
                /\ \A j \in 1..n : i # j => objects(i) \cap objects(j) = {}

\* The configurations New accepts and Run cannot work with.
CannotRun(k, c) ==
    \/ k \in {"aggregate", "clickhouse"}
    \/ k = "goflow" /\ c.listen = "nfl"
    \/ k = "influx" /\ (c.tags \in {"spaced", "unexported"} \/ c.fields = "unexported")
    \/ k = "prometheus" /\ c.labels = "unexported"
    \/ k = "aslookup" /\ c.filename = "malformed"
    \/ k = "dropfields" /\ c.policy = "keep" /\ c.fields \in {"unset", "unknown", "unexported"}
    \/ k = "traffic_specific_toptalkers" /\ c.definitions = "bad"
    \/ k = "reversedns" /\ ~ Given(c.cache) /\ c.refreshinterval \in {"zero", "neg"}

(* What New accepts, Run can work with: the process survives the first flow, *)
(* except in the listed cases.  A lumberjack also depends on its later       *)
(* entries, for they are the same object.                                    *)
AcceptedSegmentsRun ==
    process \in {"running", "crashed"} =>
        ((process = "crashed") <=>
           IF kind = "lumberjack"
             THEN \/ entries[Len(entries)].config.batchsize = "zero"
                  \/ \A i \in 1..Len(entries) : ~ Given(entries[i].config.batchdebug)
             ELSE CannotRun(kind, entries[1].config))
=============================================================================

----------------------------- MODULE MCSegments -----------------------------
(* The segments' options, with the classes of values New tells apart, and a  *)
(* configuration New accepts for each.                                       *)
EXTENDS Segments, TLC

Text == {"unset", "a"}
Bool == {"unset", "bad", "true", "false"}
Flag == {"unset", "bad", "true"}
Count == {"unset", "bad", "zero", "n"}
Number == {"unset", "bad", "neg", "zero", "n"}
Duration == {"unset", "bad", "d"}
File == {"unset", "missing", "a", "b"}
Fields == {"unset", "known", "spaced", "unexported", "unknown"}
MarkText == {"unset", "3", "8", "20", "60", "90"}

Kafka == [server |-> Text, topic |-> Text, legacy |-> Bool, tls |-> Bool, auth |-> Bool,
          user |-> Text, pass |-> Text] @@ ("kafka-version" :> {"unset", "bad", "3.0.0"})

Web == [endpoint |-> Text, metricspath |-> Text, flowdatapath |-> {"unset", "b"}]

MCOptions == [
    bpf |-> [device |-> File, buffersize |-> Number, activetimeout |-> Duration,
             inactivetimeout |-> Duration],
    packet |-> [method |-> {"unset", "bad", "pcap", "file"},
                source |-> {"unset", "missing", "iface", "capture"}, filter |-> Text,
                activetimeout |-> Duration, inactivetimeout |-> Duration],
    stdin |-> [filename |-> File, eofcloses |-> Bool],
    goflow |-> [listen |-> {"unset", "bad", "netflow", "sflow", "nfl", "flow"}, workers |-> Count],
    replay |-> [filename |-> File, ignoretiming |-> Bool],
    kafkaconsumer |-> Kafka @@ [group |-> Text, strategy |-> {"unset", "bad", "range"},
                                startat |-> {"unset", "bad", "oldest"}, timeout |-> Duration],
    diskbuffer |-> [bufferdir |-> File, highmemorymark |-> MarkText \cup {"bad"},
                    lowmemorymark |-> MarkText \cup {"bad"},
                    readingmemorymark |-> MarkText, maxcachesize |-> Duration,
                    filesize |-> Duration, batchsize |-> Number, batchdebug |-> Bool,
                    queuestatusinterval |-> Duration, queuesize |-> Number],
    filegate |-> [filename |-> File],
    kafkaproducer |-> Kafka @@ [topicsuffix |-> {"unset", "known", "unknown", "spaced", "bytes"}],
    lumberjack |-> [servers |-> {"unset", "bad", "http", "tcp", "tls", "tcp?compression=ten",
                                 "tcp?count=bad", "tcp?count=zero"},
                    compression |-> {"unset", "bad", "neg", "ten", "n"}, batchsize |-> Number,
                    batchtimeout |-> {"unset", "bad", "zero", "hour", "d"}, batchdebug |-> Bool,
                    reconnectwait |-> Duration, queuestatusinterval |-> Duration,
                    queuesize |-> Number],
    sqlite |-> [filename |-> File, batchsize |-> Number, fields |-> Fields],
    mongodb |-> [mongodb_uri |-> File, database |-> Text, collection |-> Text,
                 max_disk_usage |-> Duration, batchsize |-> Number, fields |-> Fields],
    clickhouse |-> [dsn |-> Text, preset |-> {"unset", "bad", "flowhouse"}, batchsize |-> Count],
    json |-> [filename |-> File, zstd |-> Number, pretty |-> Bool],
    csv |-> [filename |-> File, fields |-> Fields],
    http |-> [url |-> {"unset", "bad", "ftp", "http", "https"}],
    influx |-> [address |-> {"unset", "bad", "a"}, org |-> Text, bucket |-> Text, token |-> Text,
                tags |-> Fields, fields |-> Fields],
    prometheus |-> Web @@ [labels |-> Fields, vacuum_interval |-> Duration,
                           export_as_pairs |-> Flag, export_as_paths |-> Flag],
    delay_monitoring |-> [endpoint |-> Text, samplingRate |-> Number, alpha |-> Count],
    toptalkers_metrics |-> Web @@ [buckets |-> Number, thresholdbuckets |-> Number,
                                   reportbuckets |-> Number, traffictype |-> Text,
                                   thresholdbps |-> Count, thresholdpps |-> Count,
                                   relevantaddress |-> {"unset", "bad", "source", "both"}],
    traffic_specific_toptalkers |-> Web @@ [relevantaddress |-> {"unset", "bad", "source"},
                                            definitions |-> {"unset", "bad", "good"}],
    toptalkers |-> [window |-> Number, reportinterval |-> Number, filename |-> File,
                    thresholdbps |-> Count, thresholdpps |-> Count, topn |-> Count,
                    logprefix |-> Text],
    elephant |-> [aspect |-> {"unset", "bad", "packets", "bps"}, percentile |-> Count,
                  exact |-> Bool, window |-> Number, rampuptime |-> Number],
    flowfilter |-> [filter |-> {"unset", "bad", "badrange", "good"}],
    printflowdump |-> [filename |-> File, useprotoname |-> Bool, verbose |-> Bool, highlight |-> Bool],
    printdots |-> [filename |-> File, flowsperdot |-> Count],
    count |-> [filename |-> File, prefix |-> Text],
    branch |-> "bypass-messages" :> Bool,
    addcid |-> [filename |-> File, dropunmatched |-> Bool, matchboth |-> Bool],
    addnetid |-> [filename |-> File, dropunmatched |-> Bool, matchboth |-> Bool, useintids |-> Bool],
    remoteaddress |-> [policy |-> {"unset", "bad", "cidr", "border", "user", "clear"},
                       filename |-> File, dropunmatched |-> Bool],
    anonymize |-> [mode |-> {"unset", "bad", "cryptopan", "subnet", "all"},
                   maskV4 |-> {"unset", "bad", "two", "long", "n"},
                   maskV6 |-> {"unset", "bad", "two", "long", "n"},
                   key |-> {"unset", "short", "k"}, fields |-> {"unset", "known", "unknown"}],
    dropfields |-> [policy |-> {"unset", "bad", "keep", "drop"}, fields |-> Fields],
    aslookup |-> [filename |-> File \cup {"malformed"}, type |-> {"unset", "bad", "mrt"}],
    geolocation |-> [filename |-> File \cup {"malformed"}, dropunmatched |-> Bool, matchboth |-> Bool],
    reversedns |-> [cache |-> Bool, refreshinterval |-> {"unset", "bad", "zero", "neg", "d"}],
    snmp |-> [connlimit |-> Count, community |-> Text, regex |-> {"unset", "bad", "r"}],
    normalize |-> [fallback |-> Count],
    bgp |-> [filename |-> File \cup {"malformed"}, fallbackrouter |-> {"unset", "empty", "unknown", "r"},
             usefallbackonly |-> Bool],
    addrstrings |-> [macseparator |-> {"unset", "bad", "dash"}],
    aggregate |-> [x \in {} |-> {}]
]

\* The options New cannot do without.
Required == [
    bpf |-> "device" :> "a", packet |-> "source" :> "iface", stdin |-> "filename" :> "a",
    replay |-> "filename" :> "a",
    kafkaconsumer |-> [server |-> "a", topic |-> "a", group |-> "a", user |-> "a", pass |-> "a"],
    diskbuffer |-> "bufferdir" :> "a", filegate |-> "filename" :> "a",
    kafkaproducer |-> [server |-> "a", topic |-> "a", user |-> "a", pass |-> "a"],
    lumberjack |-> "servers" :> "tcp", sqlite |-> "filename" :> "a",
    mongodb |-> "mongodb_uri" :> "a", clickhouse |-> [dsn |-> "a", preset |-> "flowhouse"],
    http |-> "url" :> "http", influx |-> [org |-> "a", bucket |-> "a", token |-> "a"],
    addcid |-> "filename" :> "a", addnetid |-> "filename" :> "a",
    remoteaddress |-> [policy |-> "cidr", filename |-> "a"],
    anonymize |-> [mode |-> "all", key |-> "k"],
    dropfields |-> [policy |-> "keep", fields |-> "known"],
    aslookup |-> "filename" :> "a", geolocation |-> "filename" :> "a",
    bgp |-> [filename |-> "a", fallbackrouter |-> "r"]
]

MCMinimal == [k \in DOMAIN MCOptions |->
    (IF k \in DOMAIN Required THEN Required[k] ELSE <<>>) @@ [o \in DOMAIN MCOptions[k] |-> "unset"]]

\* All memory marks alike is the only way to give diskbuffer a readingmemorymark.
MCStarts == [k \in DOMAIN MCOptions |->
    IF k = "diskbuffer"
      THEN {[MCMinimal[k] EXCEPT !.highmemorymark = "20", !.lowmemorymark = "20"]}
      ELSE {}]
=============================================================================

----------------------------- MODULE MCStartup -------------------------------
EXTENDS Startup, TLC

Routers ==
    {"router" :> "given",
     "router" :> "given" @@ "protocol" :> "https",
     "router" :> "given" @@ "protocol" :> "ftp"}

Timings ==
    {"monitor" :> "given",
     "interval" :> 2,
     "interval" :> Malformed,
     "interval" :> 0 @@ "internet" :> 3,
     "internet" :> 1 @@ "signal" :> 0,
     "signal" :> 4 @@ "internet_enabled" :> FALSE}

Telemetries ==
    {"metrics" :> TRUE,
     "metrics" :> TRUE @@ "logs" :> TRUE @@ "authorization" :> "bad",
     "metrics" :> TRUE @@ "traces" :> TRUE @@ "logs" :> TRUE,
     "transport" :> "http/protobuf" @@ "traces" :> TRUE @@ "metrics" :> TRUE
        @@ "endpoint" :> <<"otlp", "">>,
     "transport" :> "http/protobuf" @@ "logs" :> TRUE @@ "metrics" :> TRUE
        @@ "endpoint" :> <<"v1", "metrics">>}

Whole ==
    {"router" :> "given" @@ "interval" :> 5,
     "router" :> "given" @@ "monitor" :> "given" @@ "metrics" :> FALSE,
     "router" :> "given" @@ "internet" :> 6 @@ "logs" :> TRUE,
     "router" :> "given" @@ "signal" :> 7 @@ "interval" :> 8
        @@ "transport" :> "http/protobuf" @@ "metrics" :> TRUE}

MCFiles == {<<>>} \cup Routers \cup Timings \cup Telemetries \cup Whole
=============================================================================

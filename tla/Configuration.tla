--------------------------- MODULE Configuration ---------------------------
(***************************************************************************)
(* How the two programs come to their configuration and start with it      *)
(* (internal/agent/config.go, internal/config/config.go, the beginning of  *)
(* both main functions): defaults, then the JSON file, then the            *)
(* environment, then the flags that were given.  Each source has its own   *)
(* idea of what a value looks like and of what a value it cannot read      *)
(* costs: the agent refuses to start over a bad flag, the server silently  *)
(* drops it and all flags after it; the agent skips a bad variable, the    *)
(* server stops reading variables; both ignore a file with one bad value.  *)
(*                                                                         *)
(* A value is the form it was written in.  "text" stands for any non-empty *)
(* word, "bare" for a number such as 5, "unit" for 5s, "fraction" for a    *)
(* time below a second such as 500ms, "negative" for -5s or -5.  A file    *)
(* that cannot be opened is one that cannot be parsed.  A flag is given at *)
(* most once, except under its two names -crypto-key and -s.               *)
(***************************************************************************)
EXTENDS Integers, Sequences, SequencesExt, FiniteSets

CONSTANTS
    Writable,       \* what the operator may write: [program, source, field, form]
    MaxWritten      \* bound: values in one input, the path of the file aside

AgentFields == {"ServerURL", "GRPCAddr", "PollInterval", "ReportInterval",
                "Key", "RateLimit", "CryptoKey"}

\* The fields of the server in the order of its struct, which cleanenv follows.
ServerStruct == <<"Address", "GRPCAddress", "StoreInterval", "FileStoragePath",
    "Restore", "DatabaseDSN", "HashKey", "AuditFile", "AuditURL", "ReadTimeout",
    "WriteTimeout", "IdleTimeout", "CryptoKey", "TrustedSubnet">>

Fields(program) ==
    IF program = "agent" THEN AgentFields ELSE ToSet(ServerStruct)

\* The path of the file is no field: it is needed before the fields are known.
FilePath == "ConfigFile"

\* An argument that is no flag ends the parsing without an error; so does the
\* second half of "-r false", since a boolean flag takes no separate value.
Stray == "stray"

\* The flag -s of the agent, a second name of -crypto-key.
Alias == "CryptoKeyAlias"

FlagFields(program) ==
    IF program = "agent"
    THEN AgentFields \union {Alias, FilePath, Stray}
    ELSE (ToSet(ServerStruct) \ {"ReadTimeout", "WriteTimeout", "IdleTimeout"})
             \union {FilePath, Stray}

\* What the struct the file is decoded into has; other keys are ignored.
FileFields(program) ==
    IF program = "agent"
    THEN {"ServerURL", "GRPCAddr", "PollInterval", "ReportInterval", "CryptoKey"}
    ELSE {"Address", "GRPCAddress", "StoreInterval", "FileStoragePath", "Restore",
          "DatabaseDSN", "CryptoKey", "TrustedSubnet"}

Kind(field) ==
    IF field \in {"PollInterval", "ReportInterval"} THEN "duration"
    ELSE IF field \in {"StoreInterval", "RateLimit", "ReadTimeout",
                       "WriteTimeout", "IdleTimeout"} THEN "int"
    ELSE IF field = "Restore" THEN "bool"
    ELSE "text"

ASSUME ConfigurationAssumption ==
    /\ MaxWritten \in Nat
    /\ \A v \in Writable :
          /\ v.program \in {"agent", "server"}
          /\ \/ v.source = "flag" /\ v.field \in FlagFields(v.program)
             \/ v.source = "env" /\ v.field \in Fields(v.program) \union {FilePath}
             \/ v.source = "file" /\ v.field \in Fields(v.program)

VARIABLES
    input,      \* what is written: the program, its arguments in their order, and
                \* for the environment and the file [fields set -> forms]
    stage,      \* "writing", "flags", "file", "env", "visit", "start", "done"
    seen,       \* the flags fs.Parse has accepted: [field -> form]
    cfg,        \* cfg: [field -> [from, value]]
    outcome     \* what has become of the program

vars == <<input, stage, seen, cfg, outcome>>

-----------------------------------------------------------------------------
(* Values.                                                                  *)

Numeric == {"zero", "bare", "negative"}
Times == {"zero", "unit", "fraction", "negative"}

\* The forms a source accepts.  A duration is a flag for time.ParseDuration,
\* which wants a unit, and elsewhere for parseDurationOrSeconds; store_interval
\* in the file is a jsonSeconds.
Accepts(program, source, field) ==
    CASE Kind(field) = "text" -> {"text", "empty"}
      [] Kind(field) = "bool" -> {"true", "false"}
      [] Kind(field) = "duration" ->
            (CASE source = "flag" -> Times
               [] source = "env" -> Times \union {"bare"}
               [] source = "file" -> Times \union {"bare", "empty"})
      [] Kind(field) = "int" ->
            IF source = "file" THEN Numeric \union Times ELSE Numeric

Milliseconds == [zero |-> 0, empty |-> 0, bare |-> 5000, unit |-> 5000,
                 fraction |-> 500, negative |-> -5000]

\* Every time is cut to whole seconds.
BugMeaning(field, form) ==
    IF Kind(field) = "duration" THEN 1000 * (Milliseconds[form] \div 1000)
    ELSE IF Kind(field) = "int" THEN Milliseconds[form] \div 1000
    ELSE form

\* What a form comes to: a duration keeps its milliseconds, an int is a number
\* of seconds, to which jsonSeconds cuts what the file says.
Meaning(field, form) ==
    IF Kind(field) = "duration" THEN Milliseconds[form]
    ELSE IF Kind(field) = "int" THEN Milliseconds[form] \div 1000
    ELSE form

Default(field) ==
    CASE field = "PollInterval" -> 2000
      [] field = "ReportInterval" -> 10000
      [] field = "RateLimit" -> 3
      [] field = "StoreInterval" -> 300
      [] field \in {"ReadTimeout", "WriteTimeout", "IdleTimeout"} -> 10
      [] field = "Restore" -> "true"
      [] field \in {"ServerURL", "Address", "FileStoragePath"} -> "text"
      [] OTHER -> "empty"

\* The fields that source sets get their new values.
Overlay(source, forms) ==
    cfg' = [f \in DOMAIN cfg |->
               IF f \in DOMAIN forms
               THEN [from |-> source, value |-> Meaning(f, forms[f])]
               ELSE cfg[f]]

\* forms, as far as it is about the fields in S.
Only(forms, S) == [f \in DOMAIN forms \intersect S |-> forms[f]]

Malformed(source, forms) ==
    {f \in DOMAIN forms : forms[f] \notin Accepts(input.program, source, f)}

Init ==
    /\ input \in [program : {"agent", "server"}, flags : {<<>>}, env : {<<>>}, file : {<<>>}]
    /\ stage = "writing"
    /\ seen = <<>>
    /\ cfg = [f \in Fields(input.program) |-> [from |-> "default", value |-> Default(f)]]
    /\ outcome = [state |-> "loading"]

At(s) == stage = s
GoTo(s) == stage' = s

-----------------------------------------------------------------------------
(* The operator.                                                            *)

Flagged == {input.flags[i].field : i \in DOMAIN input.flags}

WrittenValues ==
    Cardinality(Flagged \ {FilePath}) + Cardinality(DOMAIN input.file)
        + Cardinality(DOMAIN input.env \ {FilePath})

\* forms with one field more.
With(forms, field, form) ==
    [f \in DOMAIN forms \union {field} |-> IF f = field THEN form ELSE forms[f]]

Write(v) ==
    /\ At("writing")
    /\ v.program = input.program
    /\ v.field = FilePath \/ WrittenValues < MaxWritten
    /\ \/ /\ v.source = "flag" /\ v.field \notin Flagged
          /\ input' = [input EXCEPT !.flags = Append(@, [field |-> v.field, form |-> v.form])]
       \/ /\ v.source = "env" /\ v.field \notin DOMAIN input.env
          /\ input' = [input EXCEPT !.env = With(@, v.field, v.form)]
       \/ /\ v.source = "file" /\ v.field \notin DOMAIN input.file
          /\ input' = [input EXCEPT !.file = With(@, v.field, v.form)]
    /\ UNCHANGED <<stage, seen, cfg, outcome>>

Execute ==
    /\ At("writing")
    /\ GoTo("flags")
    /\ UNCHANGED <<input, seen, cfg, outcome>>

-----------------------------------------------------------------------------
(* The four sources.                                                        *)

\* The argument at i is an error for fs.Parse.
BadFlag(flags, i) ==
    /\ flags[i].field # Stray
    /\ flags[i].form \notin Accepts(input.program, "flag", flags[i].field)

\* The argument at i ends the parsing.
Ends(flags, i) == flags[i].field = Stray \/ BadFlag(flags, i)

\* The first n arguments are the ones that are parsed.
Parsed(flags, n) ==
    /\ \A i \in 1..n : ~Ends(flags, i)
    /\ n < Len(flags) => Ends(flags, n + 1)

\* fs.Parse.  The agent's error is fatal (GetConfig), the server's is dropped.
ParseFlags ==
    /\ At("flags")
    /\ \E n \in 0..Len(input.flags) :
       LET flags == input.flags
           refused == n < Len(flags) /\ BadFlag(flags, n + 1)
       IN /\ Parsed(flags, n)
          /\ seen' = [f \in {flags[i].field : i \in 1..n} |->
                         flags[CHOOSE i \in 1..n : flags[i].field = f].form]
          /\ IF input.program = "agent" /\ refused
             THEN GoTo("done") /\ outcome' = [state |-> "refused"]
             ELSE GoTo("file") /\ UNCHANGED outcome
    /\ UNCHANGED <<input, cfg>>

\* -c or -config, and CONFIG when there is no such flag or it is empty.
NamesFile ==
    \/ FilePath \in DOMAIN seen /\ seen[FilePath] = "text"
    \/ FilePath \in DOMAIN input.env /\ input.env[FilePath] = "text"

\* loadFromJSON: one malformed value of a known key makes json.Unmarshal fail,
\* and then nothing of the file is used.
LoadFromJSON ==
    /\ At("file")
    /\ LET forms == Only(input.file, FileFields(input.program))
       IN IF NamesFile /\ Malformed("file", forms) = {}
          THEN Overlay("file", forms)
          ELSE UNCHANGED cfg
    /\ GoTo("env")
    /\ UNCHANGED <<input, seen, outcome>>

\* The variables the agent treats as not set when they are empty.
UnsetWhenEmpty == {"ServerURL", "PollInterval", "ReportInterval", "RateLimit"}

\* The agent stops at a malformed variable as well.
BugAgentEnv(forms) == IF Malformed("env", forms) = {} THEN DOMAIN forms ELSE {}

\* applyEnv: a malformed variable is skipped with a warning.
AgentEnv(forms) ==
    {f \in DOMAIN forms \ Malformed("env", forms) :
        ~(f \in UnsetWhenEmpty /\ forms[f] = "empty")}

\* cleanenv.ReadEnv goes through the struct and stops at the first malformed
\* variable; those before it are set, and the error is only logged.
ServerEnv(forms) ==
    {ServerStruct[i] : i \in
        {k \in DOMAIN ServerStruct :
            /\ ServerStruct[k] \in DOMAIN forms
            /\ \A j \in 1..k : ServerStruct[j] \notin Malformed("env", forms)}}

ReadEnv ==
    /\ At("env")
    /\ LET forms == Only(input.env, Fields(input.program))
           taken == IF input.program = "agent" THEN AgentEnv(forms)
                                               ELSE ServerEnv(forms)
       IN Overlay("env", Only(forms, taken))
    /\ GoTo("visit")
    /\ UNCHANGED <<input, seen, outcome>>

\* The flags as fs.Visit applies them: -s counts as -crypto-key unless that was
\* given too.
Visited ==
    [f \in {IF g = Alias THEN "CryptoKey" ELSE g : g \in DOMAIN seen \ {FilePath}} |->
        IF f \in DOMAIN seen THEN seen[f] ELSE seen[Alias]]

VisitFlags ==
    /\ At("visit")
    /\ Overlay("flag", Visited)
    /\ GoTo("start")
    /\ UNCHANGED <<input, seen, outcome>>

-----------------------------------------------------------------------------
(* Start-up.                                                                *)

Value(f) == cfg[f].value
Given(f) == Value(f) # "empty"

\* agent main and Agent.Start: the HTTP sender wants a local address, and a readable
\* key when one is named, the gRPC sender a target it can parse; time.NewTicker panics
\* unless the interval is positive, and make for a channel of negative capacity.
StartAgent ==
    /\ At("start")
    /\ input.program = "agent"
    /\ \E ready \in BOOLEAN :
          LET grpc == Given("GRPCAddr")
          IN outcome' =
                IF ~ready
                THEN [state |-> "refused"]
                ELSE IF Value("PollInterval") <= 0 \/ Value("ReportInterval") <= 0
                           \/ Value("RateLimit") < 0
                THEN [state |-> "panic"]
                ELSE [state |-> "running",
                      sender |-> IF grpc THEN "grpc" ELSE "http",
                      workers |-> Value("RateLimit")]
    /\ GoTo("done")
    /\ UNCHANGED <<input, seen, cfg>>

\* GetConnect: the environment decides before the argument it is given, which
\* main fills with the configured DSN.
ConnectsTo ==
    IF "DatabaseDSN" \in DOMAIN input.env /\ input.env["DatabaseDSN"] # "empty"
    THEN "env" ELSE cfg["DatabaseDSN"].from

\* server main: an unreachable database (db.Init fails) is replaced by the memory
\* storage; a trusted subnet that is no CIDR stops the server, in main when
\* there is a gRPC address, in NewRouter otherwise; NewRouter then wants the key that
\* is named to be readable.
StartServer ==
    /\ At("start")
    /\ input.program = "server"
    /\ \E reachable, validSubnet, readableKey \in BOOLEAN :
          LET postgres == Given("DatabaseDSN") /\ reachable
              file == ~postgres /\ Given("FileStoragePath")
              grpc == Given("GRPCAddress")
          IN outcome' =
                IF Given("TrustedSubnet") /\ ~validSubnet
                THEN [state |-> IF grpc THEN "refused" ELSE "panic"]
                ELSE IF Given("CryptoKey") /\ ~readableKey
                THEN [state |-> "refused"]
                ELSE [state |-> "running",
                      store |-> IF postgres THEN "postgres" ELSE "memory",
                      dialled |-> IF Given("DatabaseDSN") THEN ConnectsTo ELSE "nothing",
                      restores |-> file /\ Value("Restore") = "true",
                      saving |-> IF ~file THEN "none"
                                 ELSE IF Value("StoreInterval") > 0 THEN "periodic"
                                 ELSE "synchronous",
                      grpc |-> grpc]
    /\ GoTo("done")
    /\ UNCHANGED <<input, seen, cfg>>

Terminated == At("done") /\ UNCHANGED vars

Next == (\E v \in Writable : Write(v)) \/ Execute
            \/ ParseFlags \/ LoadFromJSON \/ ReadEnv \/ VisitFlags \/ StartAgent \/ StartServer
            \/ Terminated

Spec == Init /\ [][Next]_vars

-----------------------------------------------------------------------------
(* Properties.                                                              *)

Rank == [default |-> 0, file |-> 1, env |-> 2, flag |-> 3]

\* An argument that ends the parsing stands before one of these.
CutBefore(names) ==
    \E i, k \in DOMAIN input.flags :
        /\ i < k
        /\ input.flags[k].field \in names
        /\ Ends(input.flags, i)

\* The forms source s was given for field f, as far as s can express f at all;
\* -s counts for CryptoKey unless -crypto-key was given, or may have been cut off.
FormsGiven(s, f) ==
    CASE s = "flag" ->
            {input.flags[i].form : i \in {k \in DOMAIN input.flags :
                \/ input.flags[k].field = f
                \/ /\ f = "CryptoKey" /\ input.flags[k].field = Alias
                   /\ f \in Flagged => CutBefore({f})}}
      [] s = "env" -> IF f \in DOMAIN input.env THEN {input.env[f]} ELSE {}
      [] s = "file" -> IF f \in DOMAIN input.file \intersect FileFields(input.program)
                       THEN {input.file[f]} ELSE {}
      [] s = "default" -> {}

\* s says something readable about f: a well-formed value, in the environment of
\* the agent a non-empty one, and in the file only if somebody names it.
Says(s, f) ==
    /\ FormsGiven(s, f) \intersect Accepts(input.program, s, f) # {}
    /\ s = "env" /\ input.program = "agent" /\ f \in UnsetWhenEmpty
          => FormsGiven(s, f) # {"empty"}
    /\ s = "file" =>
          \/ FilePath \in DOMAIN input.env /\ input.env[FilePath] = "text"
          \/ \E i \in DOMAIN input.flags :
                input.flags[i].field = FilePath /\ input.flags[i].form = "text"

Unreadable(s, f) == FormsGiven(s, f) \ Accepts(input.program, s, f) # {}

\* What else must be wrong for a readable value to be lost.
Excused(s, f) ==
    CASE s = "flag" -> CutBefore(IF f = "CryptoKey" THEN {f, Alias} ELSE {f})
      [] s = "file" -> CutBefore({FilePath}) \/ \E g \in FileFields(input.program) : Unreadable("file", g)
      [] s = "env" -> /\ input.program = "server"
                      /\ \E i, j \in DOMAIN ServerStruct :
                            /\ i < j /\ ServerStruct[j] = f
                            /\ Unreadable("env", ServerStruct[i])

\* Each field comes from the highest source that says something readable about
\* it, flags over environment over file over defaults, and what a malformed
\* value may cost beside itself stays within its own source: nothing in the
\* agent's environment, later variables in the server's, the rest of the file,
\* the other arguments (config.go:90-104, agent/config.go:226-267).
HighestReadableWins ==
    At("start") =>
        \A f \in DOMAIN cfg :
            LET says == {s \in {"file", "env", "flag"} : Says(s, f)}
                from == cfg[f].from
            IN /\ from # "default" =>
                     /\ from \in says
                     /\ \E form \in FormsGiven(from, f) : cfg[f].value = Meaning(f, form)
               /\ \A s \in says : Rank[s] > Rank[from] => Excused(s, f)

\* How the value in force was written.
Written(f) == FormsGiven(cfg[f].from, f)

\* Only what the operator wrote as zero, negative or empty stops the agent with a
\* panic; and the server saves after every update only if the interval was
\* written as zero or negative or, in the file, as a time below a second, which
\* jsonSeconds cuts to 0 (agent.go:41, main.go:127, config.go:44).
StartsAsAsked ==
    At("done") =>
        /\ outcome.state = "panic" /\ input.program = "agent" =>
              \E f \in {"PollInterval", "ReportInterval", "RateLimit"} :
                  Written(f) \intersect {"zero", "negative", "empty"} # {}
        /\ outcome.state = "running" /\ input.program = "server"
              /\ outcome.saving = "synchronous" =>
              \/ Written("StoreInterval") \intersect {"zero", "negative"} # {}
              \/ cfg["StoreInterval"].from = "file" /\ "fraction" \in Written("StoreInterval")

\* What config.go:104 says of flags, for the database: a DSN given as a flag is
\* the one that is dialled.  GetConnect asks the environment first: see the run
\* configuration_dsn.
FlagDecidesTheDatabase ==
    At("done") /\ outcome.state = "running" /\ input.program = "server"
        /\ "DatabaseDSN" \in DOMAIN seen /\ seen["DatabaseDSN"] = "text"
        => outcome.dialled = "flag"

=============================================================================

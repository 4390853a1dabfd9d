-------------------------- MODULE MCConfiguration --------------------------
(***************************************************************************)
(* What the operator may write.  Fields the code treats alike are           *)
(* represented by one of them.                                             *)
(***************************************************************************)
EXTENDS Configuration

\* [source, field, form] for the forms of one field.
Values(source, field, forms) ==
    {[source |-> source, field |-> field, form |-> form] : form \in forms}

Times3(field) ==
    Values("flag", field, {"unit", "bare", "zero"})
        \union Values("env", field, {"bare", "fraction", "text", "empty", "negative"})
        \union Values("file", field, {"bare", "fraction", "text", "empty"})

AgentValues ==
    Times3("PollInterval")
        \union Values("flag", "ReportInterval", {"fraction"})
        \union Values("env", "ReportInterval", {"unit", "text"})
        \union Values("file", "ReportInterval", {"unit"})
        \union Values("flag", "RateLimit", {"bare", "text"})
        \union Values("env", "RateLimit", {"bare", "zero", "negative", "empty"})
        \union Values("file", "RateLimit", {"bare"})
        \union Values("flag", "GRPCAddr", {"text"})
        \union Values("env", "ServerURL", {"text", "empty"})
        \union Values("env", "CryptoKey", {"text", "empty"})
        \union Values("file", "CryptoKey", {"text"})
        \union Values("flag", "CryptoKey", {"text"})
        \union Values("flag", Alias, {"text", "empty"})
        \union Values("flag", Stray, {"text"})

ServerValues ==
    Values("flag", "StoreInterval", {"bare", "zero", "text"})
        \union Values("env", "StoreInterval", {"bare", "negative", "empty"})
        \union Values("file", "StoreInterval", {"bare", "unit", "fraction", "text"})
        \union Values("flag", "DatabaseDSN", {"text", "empty"})
        \union Values("env", "DatabaseDSN", {"text", "empty"})
        \union Values("file", "DatabaseDSN", {"text"})
        \union Values("flag", "Restore", {"false"})
        \union Values("env", "Restore", {"false", "text"})
        \union Values("file", "Restore", {"false", "text"})
        \union Values("flag", "FileStoragePath", {"text", "empty"})
        \union Values("env", "FileStoragePath", {"empty"})
        \union Values("env", "ReadTimeout", {"bare", "text"})
        \union Values("file", "HashKey", {"text"})
        \union Values("env", "TrustedSubnet", {"text"})
        \union Values("env", "CryptoKey", {"text"})
        \union Values("flag", "GRPCAddress", {"text"})
        \union Values("flag", Stray, {"text"})

PathOfTheFile ==
    Values("flag", FilePath, {"text"}) \union Values("env", FilePath, {"text"})

For(program, values) ==
    {[program |-> program, source |-> v.source, field |-> v.field, form |-> v.form]
        : v \in values}

MCWritable ==
    For("agent", AgentValues \union PathOfTheFile)
        \union For("server", ServerValues \union PathOfTheFile)

=============================================================================

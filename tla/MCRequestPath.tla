--------------------------- MODULE MCRequestPath ---------------------------
(***************************************************************************)
(* RequestPath with a small catalogue of requests.                         *)
(***************************************************************************)
EXTENDS RequestPath, TLC

Metric(id, type, valued) == [id |-> id, type |-> type, valued |-> valued]

M1 == Metric("m1", "gauge", TRUE)
C1 == Metric("m1", "counter", TRUE)     \* the other type under the same name
M2 == Metric("m2", "counter", TRUE)
Untyped == Metric("m2", "", TRUE)
Valueless == Metric("m2", "gauge", FALSE)
Nameless == Metric("", "gauge", TRUE)

Http(path, form, items, url) ==
    [via |-> "http", path |-> path, header |-> "inside", remote |-> "inside",
     layers |-> <<>>, gzip |-> FALSE, encrypted |-> "", chunked |-> FALSE,
     form |-> form, items |-> items, url |-> url]

Object(path, m) == Http(path, "object", <<m>>, NoMetric)
Both == Http("/update/{}", "object", <<M1>>, M2)
Batch(items) == Http("/updates/", "array", items, NoMetric)
Text(m) == Http("/update/{}", "empty", <<>>, m)
Lookups == {Http("/value/{}", "empty", <<>>, m) : m \in {M1, C1, Untyped}}
               \union {Http(p, "empty", <<>>, NoMetric) : p \in {"/", "/ping"}}
Grpc(items) == [Batch(items) EXCEPT !.via = "grpc"]

From(q, header, remote) == [q EXCEPT !.header = header, !.remote = remote]
Encoded(q, layers, gzip, encrypted) ==
    [q EXCEPT !.layers = layers, !.gzip = gzip, !.encrypted = encrypted]
Chunked(q) == [q EXCEPT !.chunked = TRUE]
Cut(q) == [q EXCEPT !.form = "cut", !.items = <<>>]

Updates ==
    {Text(M1), Text(Valueless), Text(Nameless),
     Batch(<<M1, M2>>), Batch(<<M1, Valueless>>), Batch(<<>>),
     Grpc(<<M1, M2>>), Grpc(<<Untyped, M1>>), Grpc(<<Nameless>>),
     Grpc(<<Untyped>>), Grpc(<<M1, C1>>), Text(C1)}

\* The forms only the handlers' own router lets through, and reads.
HandlerRequests ==
    Updates \union Lookups
    \union {Object(p, m) : p \in {"/update", "/value", "/value/"}, m \in {M1, Untyped}}
    \union {Both, Chunked(Both), Http("/updates", "array", <<M1>>, NoMetric),
            Http("/update", "junk", <<>>, NoMetric), Cut(Batch(<<>>)),
            Chunked(Object("/update", M1))}

\* Where requests come from, and how bodies are wrapped.
ProductionRequests ==
    {From(q, h, "inside") : q \in {Text(M1), Grpc(<<M1>>), Batch(<<M1>>)},
                            h \in {"", "outside", "garbled"}}
    \union {From(Text(M1), "", "outside"), Text(M1), Grpc(<<M1, M2>>)}
    \union {Encoded(Batch(<<M1>>), l, g, e) :
               l \in {<<>>, <<"gzip">>, <<"rsa", "gzip">>, <<"gzip", "rsa">>},
               g \in BOOLEAN, e \in {"", "rsa"}}
    \union {Encoded(Text(M1), <<>>, TRUE, "rsa"),
            Encoded(Batch(<<M1>>), <<>>, FALSE, "other"), Batch(<<>>),
            Object("/value/", M1), Object("/update", M1),
            Chunked(Encoded(Text(M1), <<>>, TRUE, "")), Cut(Object("/update", M1)),
            Cut(Encoded(Batch(<<M1>>), <<"gzip">>, TRUE, "")),
            Cut(Encoded(Batch(<<M1>>), <<"rsa">>, FALSE, "rsa"))}

Handlers(database, fails) ==
    [chain |-> "handlers", trustedSubnet |-> FALSE, privateKey |-> FALSE,
     database |-> database, storeFails |-> fails]

Production(configured) ==
    [chain |-> "production", trustedSubnet |-> configured,
     privateKey |-> configured, database |-> FALSE, storeFails |-> FALSE]

AllRequests == HandlerRequests \union ProductionRequests
HandlerSettings == {Handlers(FALSE, FALSE), Handlers(TRUE, FALSE), Handlers(TRUE, TRUE)}
ProductionSettings == {Production(FALSE), Production(TRUE)}
AllSettings == HandlerSettings \union ProductionSettings

=============================================================================

------------------------ MODULE ConfigurationProofs ------------------------
(***************************************************************************)
(* Whatever the operator may write, and however much of it: each field     *)
(* comes from the highest source that says something readable about it,    *)
(* and the programs start as they were asked to.                           *)
(*                                                                         *)
(* The argument has two halves.  The invariant says what the configuration *)
(* is at each stage, as a function of what was written: the sources that   *)
(* have been read so far, the later ones over the earlier.  Two lemmas on  *)
(* each source then say that it takes only what it says readably, and that *)
(* what it loses has the excuse the property allows.                       *)
(***************************************************************************)
EXTENDS Configuration, TLAPS

USE ConfigurationAssumption

\* What may stand in a list of arguments.
Arguments == [field : {v.field : v \in Writable}, form : {v.form : v \in Writable}]

\* A flag stands in the arguments once, and is one the program has.
InputOK ==
    /\ input = [program |-> input.program, flags |-> input.flags,
                env |-> input.env, file |-> input.file]
    /\ input.program \in {"agent", "server"}
    /\ input.flags \in Seq(Arguments)
    /\ \A i \in DOMAIN input.flags : input.flags[i].field \in FlagFields(input.program)
    /\ \A i, j \in DOMAIN input.flags :
          input.flags[i].field = input.flags[j].field => i = j

\* The first n arguments have been read, and the next one did not stop the agent.
ReadFlags(n) ==
    /\ Parsed(input.flags, n)
    /\ DOMAIN seen = {input.flags[i].field : i \in 1..n}
    /\ \A i \in 1..n : seen[input.flags[i].field] = input.flags[i].form
    /\ input.program = "agent" /\ n < Len(input.flags) => ~BadFlag(input.flags, n + 1)

FlagsRead ==
    stage \in {"file", "env", "visit", "start"} =>
        \E n \in 0..Len(input.flags) : ReadFlags(n)

\* What the file and the environment have to say to the program, and what is used
\* of it.
FileForms == Only(input.file, FileFields(input.program))
FileUsed(f) ==
    NamesFile /\ Malformed("file", FileForms) = {} /\ f \in DOMAIN FileForms

EnvForms == Only(input.env, Fields(input.program))
EnvTaken == IF input.program = "agent" THEN AgentEnv(EnvForms) ELSE ServerEnv(EnvForms)
EnvUsed(f) == f \in DOMAIN EnvForms /\ f \in EnvTaken

FlagUsed(f) == f \in DOMAIN Visited

\* The value of a field once the sources in S have been read.
Settled(S, f) ==
    IF "flag" \in S /\ FlagUsed(f)
    THEN [from |-> "flag", value |-> Meaning(f, Visited[f])]
    ELSE IF "env" \in S /\ EnvUsed(f)
    THEN [from |-> "env", value |-> Meaning(f, input.env[f])]
    ELSE IF "file" \in S /\ FileUsed(f)
    THEN [from |-> "file", value |-> Meaning(f, input.file[f])]
    ELSE [from |-> "default", value |-> Default(f)]

Loaded(S) == cfg = [f \in Fields(input.program) |-> Settled(S, f)]

CfgAsRead ==
    /\ stage \in {"writing", "flags", "file"} => Loaded({})
    /\ stage = "env" => Loaded({"file"})
    /\ stage = "visit" => Loaded({"file", "env"})
    /\ stage = "start" => Loaded({"file", "env", "flag"})

ConfigurationInv ==
    /\ stage \in {"writing", "flags", "file", "env", "visit", "start", "done"}
    /\ InputOK
    /\ FlagsRead
    /\ CfgAsRead
    /\ StartsAsAsked

-----------------------------------------------------------------------------
(* Fields and forms.                                                        *)

LEMMA StructFields ==
    ToSet(ServerStruct) =
        {"Address", "GRPCAddress", "StoreInterval", "FileStoragePath", "Restore",
         "DatabaseDSN", "HashKey", "AuditFile", "AuditURL", "ReadTimeout",
         "WriteTimeout", "IdleTimeout", "CryptoKey", "TrustedSubnet"}
  <1>1. DOMAIN ServerStruct = 1..14
    BY DEF ServerStruct
  <1>2. ToSet(ServerStruct) = {ServerStruct[i] : i \in 1..14}
    BY <1>1 DEF ToSet
  <1> QED BY <1>2 DEF ServerStruct

\* The path of the file, a stray argument and the second name are no fields; the
\* second name is one of the agent only.
LEMMA NoFields ==
    ASSUME NEW program \in {"agent", "server"}
    PROVE  /\ FilePath \notin Fields(program) /\ Stray \notin Fields(program)
           /\ Alias \notin Fields(program)
           /\ Alias # FilePath /\ Stray # FilePath /\ Alias # Stray /\ Alias # "CryptoKey"
           /\ program = "server" => Alias \notin FlagFields(program)
  BY StructFields DEF Fields, FlagFields, AgentFields, FilePath, Stray, Alias

LEMMA TextForms ==
    ASSUME NEW program, NEW source, NEW field \in {"CryptoKey", Alias, FilePath}
    PROVE  Accepts(program, source, field) = {"text", "empty"}
  <1>1. Kind(field) = "text"
    BY DEF Kind, Alias, FilePath
  <1> QED BY <1>1 DEF Accepts

-----------------------------------------------------------------------------
(* The flags.                                                               *)

\* A flag the program has accepted is readable.
LEMMA FlagTaken ==
    ASSUME InputOK, NEW n \in 0..Len(input.flags), ReadFlags(n),
           NEW f \in Fields(input.program), FlagUsed(f)
    PROVE  /\ Says("flag", f)
           /\ Visited[f] \in FormsGiven("flag", f)
           /\ Visited[f] \in Accepts(input.program, "flag", f)
  <1> DEFINE F == input.flags
  <1>1. /\ Len(F) \in Nat /\ DOMAIN F = 1..Len(F) /\ n \in Nat /\ 1..n \subseteq DOMAIN F
        /\ input.program \in {"agent", "server"}
    BY DEF InputOK
  <1>2. f # FilePath /\ f # Stray /\ f # Alias
    BY <1>1, NoFields
  <1>3. \A i \in 1..n : F[i].field # Stray /\ ~BadFlag(F, i)
    BY DEF ReadFlags, Parsed, Ends
  <1>4. \A i \in 1..n : F[i].form \in Accepts(input.program, "flag", F[i].field)
    BY <1>3 DEF BadFlag
  <1>5. FormsGiven("flag", f) =
            {F[i].form : i \in {k \in DOMAIN F :
                \/ F[k].field = f
                \/ /\ f = "CryptoKey" /\ F[k].field = Alias
                   /\ f \in Flagged => CutBefore({f})}}
    BY DEF FormsGiven
  <1>6. /\ Visited[f] \in FormsGiven("flag", f)
        /\ Visited[f] \in Accepts(input.program, "flag", f)
    <2>1. CASE f \in DOMAIN seen
      <3>1. PICK i \in 1..n : F[i].field = f
        BY <2>1 DEF ReadFlags
      <3>2. seen[f] = F[i].form
        BY <3>1 DEF ReadFlags
      <3>3. Visited[f] = F[i].form
        BY <2>1, <3>2 DEF FlagUsed, Visited
      <3> QED BY <3>1, <3>3, <1>1, <1>4, <1>5
    <2>2. CASE f \notin DOMAIN seen
      <3>1. f = "CryptoKey" /\ Alias \in DOMAIN seen
        BY <2>2 DEF FlagUsed, Visited
      <3>2. Visited[f] = seen[Alias]
        BY <2>2 DEF FlagUsed, Visited
      <3>3. PICK i \in 1..n : F[i].field = Alias
        BY <3>1 DEF ReadFlags
      <3>4. Visited[f] = F[i].form
        BY <3>2, <3>3 DEF ReadFlags
      <3>5. ASSUME f \in Flagged PROVE CutBefore({f})
        <4>1. PICK k \in DOMAIN F : F[k].field = f
          BY <3>5 DEF Flagged
        <4>2. k \notin 1..n
          BY <4>1, <2>2 DEF ReadFlags
        <4>3. k > n /\ n < Len(F) /\ n + 1 \in DOMAIN F /\ k \in Nat
          BY <4>1, <4>2, <1>1
        <4>4. Ends(F, n + 1)
          BY <4>3 DEF ReadFlags, Parsed
        <4>5. input.program = "agent"
          <5>1. F[i].field \in FlagFields(input.program)
            BY <3>3, <1>1 DEF InputOK
          <5> QED BY <5>1, <3>3, <1>1, NoFields
        <4>6. F[n + 1].field = Stray
          BY <4>3, <4>4, <4>5 DEF Ends, ReadFlags
        <4>7. n + 1 # k
          BY <4>1, <4>6, <1>2
        <4>8. n + 1 < k
          BY <4>3, <4>7
        <4> QED BY <4>1, <4>3, <4>4, <4>8 DEF CutBefore
      <3>6. F[i].form \in FormsGiven("flag", f)
        BY <3>1, <3>3, <3>5, <1>1, <1>5
      <3>7. F[i].form \in Accepts(input.program, "flag", f)
        <4>1. F[i].form \in Accepts(input.program, "flag", Alias)
          BY <3>3, <1>4
        <4> QED BY <4>1, <3>1, TextForms
      <3> QED BY <3>4, <3>6, <3>7
    <2> QED BY <2>1, <2>2
  <1>7. Says("flag", f)
    BY <1>6 DEF Says
  <1> QED BY <1>6, <1>7

\* An argument that is well-formed and was not read stands behind one that ends the
\* parsing.
LEMMA BehindTheEnd ==
    ASSUME InputOK, NEW n \in 0..Len(input.flags), ReadFlags(n),
           NEW k \in DOMAIN input.flags, k \notin 1..n, input.flags[k].field # Stray,
           input.flags[k].form
               \in Accepts(input.program, "flag", input.flags[k].field),
           NEW names, input.flags[k].field \in names
    PROVE  CutBefore(names)
  <1> DEFINE F == input.flags
  <1>1. Len(F) \in Nat /\ DOMAIN F = 1..Len(F) /\ n \in Nat /\ k \in Nat
    BY DEF InputOK
  <1>2. k > n /\ n < Len(F) /\ n + 1 \in DOMAIN F
    BY <1>1
  <1>3. Ends(F, n + 1)
    BY <1>2 DEF ReadFlags, Parsed
  <1>4. ~Ends(F, k)
    BY DEF Ends, BadFlag
  <1>5. n + 1 # k
    BY <1>3, <1>4
  <1>6. n + 1 < k
    BY <1>1, <1>2, <1>5
  <1> QED BY <1>2, <1>3, <1>6 DEF CutBefore

\* A readable flag that was not read has been cut off.
LEMMA FlagLost ==
    ASSUME InputOK, NEW n \in 0..Len(input.flags), ReadFlags(n),
           NEW f \in Fields(input.program), ~FlagUsed(f), Says("flag", f)
    PROVE  Excused("flag", f)
  <1> DEFINE F == input.flags
             names == IF f = "CryptoKey" THEN {f, Alias} ELSE {f}
  <1>1. input.program \in {"agent", "server"}
    BY DEF InputOK
  <1>2. f # FilePath /\ f # Stray /\ f # Alias /\ Alias # Stray /\ Alias # FilePath
    BY <1>1, NoFields
  <1>3. PICK k \in DOMAIN F :
           /\ F[k].field = f \/ (f = "CryptoKey" /\ F[k].field = Alias)
           /\ F[k].form \in Accepts(input.program, "flag", f)
    BY DEF Says, FormsGiven
  <1>4. F[k].field \in names /\ F[k].field # Stray /\ F[k].field # FilePath
    BY <1>2, <1>3
  <1>5. F[k].form \in Accepts(input.program, "flag", F[k].field)
    <2>1. CASE F[k].field = f
      BY <2>1, <1>3
    <2>2. CASE f = "CryptoKey" /\ F[k].field = Alias
      BY <2>2, <1>3, TextForms
    <2> QED BY <2>1, <2>2, <1>3
  <1>6. k \notin 1..n
    <2> SUFFICES ASSUME k \in 1..n PROVE FALSE
      OBVIOUS
    <2>1. F[k].field \in DOMAIN seen
      BY DEF ReadFlags
    <2>2. F[k].field \in DOMAIN seen \ {FilePath}
      BY <2>1, <1>4
    <2>3. (IF F[k].field = Alias THEN "CryptoKey" ELSE F[k].field) \in DOMAIN Visited
      BY <2>2 DEF Visited
    <2>4. (IF F[k].field = Alias THEN "CryptoKey" ELSE F[k].field) = f
      BY <1>2, <1>3
    <2> QED BY <2>3, <2>4 DEF FlagUsed
  <1>7. CutBefore(names)
    BY <1>4, <1>5, <1>6, BehindTheEnd
  <1> QED BY <1>7 DEF Excused

-----------------------------------------------------------------------------
(* The environment.                                                         *)

LEMMA EnvForm ==
    ASSUME NEW f
    PROVE  /\ DOMAIN EnvForms = DOMAIN input.env \intersect Fields(input.program)
           /\ f \in DOMAIN EnvForms => EnvForms[f] = input.env[f]
  BY DEF EnvForms, Only

\* A variable the program has taken is readable.
LEMMA EnvTakenSays ==
    ASSUME InputOK, NEW f \in Fields(input.program), EnvUsed(f)
    PROVE  /\ Says("env", f)
           /\ input.env[f] \in FormsGiven("env", f)
           /\ input.env[f] \in Accepts(input.program, "env", f)
  <1>1. f \in DOMAIN EnvForms /\ f \in DOMAIN input.env /\ EnvForms[f] = input.env[f]
    BY EnvForm DEF EnvUsed
  <1>2. FormsGiven("env", f) = {input.env[f]}
    BY <1>1 DEF FormsGiven
  <1>3. /\ f \notin Malformed("env", EnvForms)
        /\ input.program = "agent" =>
              ~(f \in UnsetWhenEmpty /\ EnvForms[f] = "empty")
    <2>1. CASE input.program = "agent"
      BY <2>1 DEF EnvUsed, EnvTaken, AgentEnv
    <2>2. CASE input.program # "agent"
      <3>1. f \in ServerEnv(EnvForms)
        BY <2>2 DEF EnvUsed, EnvTaken
      <3>2. PICK k \in DOMAIN ServerStruct :
               /\ f = ServerStruct[k]
               /\ \A j \in 1..k : ServerStruct[j] \notin Malformed("env", EnvForms)
        BY <3>1 DEF ServerEnv
      <3>3. k \in 1..k
        BY DEF ServerStruct
      <3> QED BY <2>2, <3>2, <3>3
    <2> QED BY <2>1, <2>2
  <1>4. input.env[f] \in Accepts(input.program, "env", f)
    BY <1>1, <1>3 DEF Malformed
  <1>5. Says("env", f)
    BY <1>1, <1>2, <1>3, <1>4 DEF Says
  <1> QED BY <1>2, <1>4, <1>5

\* A readable variable is lost only by the server, and only to a malformed one in
\* front of it.
LEMMA EnvLost ==
    ASSUME InputOK, NEW f \in Fields(input.program), ~EnvUsed(f), Says("env", f)
    PROVE  Excused("env", f)
  <1>1. /\ FormsGiven("env", f) = {input.env[f]} /\ f \in DOMAIN input.env
        /\ input.env[f] \in Accepts(input.program, "env", f)
    BY DEF Says, FormsGiven
  <1>2. f \in DOMAIN EnvForms /\ EnvForms[f] = input.env[f]
    BY <1>1, EnvForm
  <1>3. f \notin Malformed("env", EnvForms) /\ f \notin EnvTaken
    BY <1>1, <1>2 DEF Malformed, EnvUsed
  <1>4. input.program # "agent"
    <2> SUFFICES ASSUME input.program = "agent" PROVE FALSE
      OBVIOUS
    <2>1. f \in UnsetWhenEmpty => EnvForms[f] # "empty"
      BY <1>1, <1>2 DEF Says
    <2>2. f \in AgentEnv(EnvForms)
      BY <1>2, <1>3, <2>1 DEF AgentEnv
    <2> QED BY <2>2, <1>3 DEF EnvTaken
  <1>5. input.program = "server" /\ f \notin ServerEnv(EnvForms)
    BY <1>3, <1>4 DEF InputOK, EnvTaken
  <1>6. PICK k \in DOMAIN ServerStruct : ServerStruct[k] = f
    BY <1>5 DEF Fields, ToSet
  <1>7. PICK j \in 1..k : ServerStruct[j] \in Malformed("env", EnvForms)
    BY <1>2, <1>5, <1>6 DEF ServerEnv
  <1>8. j # k
    BY <1>3, <1>6, <1>7
  <1>9. DOMAIN ServerStruct = 1..14
    BY DEF ServerStruct
  <1>10. j \in DOMAIN ServerStruct /\ j < k
    BY <1>7, <1>8, <1>9
  <1>11. Unreadable("env", ServerStruct[j])
    <2> DEFINE g == ServerStruct[j]
    <2>1. g \in DOMAIN EnvForms /\ EnvForms[g] \notin Accepts(input.program, "env", g)
      BY <1>7 DEF Malformed
    <2> HIDE DEF g
    <2>2. g \in DOMAIN input.env /\ EnvForms[g] = input.env[g]
      BY <2>1, EnvForm
    <2>3. Unreadable("env", g)
      BY <2>1, <2>2 DEF Unreadable, FormsGiven
    <2> QED BY <2>3 DEF g
  <1> QED BY <1>5, <1>6, <1>10, <1>11 DEF Excused

-----------------------------------------------------------------------------
(* The file.                                                                *)

LEMMA FileForm ==
    ASSUME NEW f
    PROVE  /\ DOMAIN FileForms = DOMAIN input.file \intersect FileFields(input.program)
           /\ f \in DOMAIN FileForms => FileForms[f] = input.file[f]
  BY DEF FileForms, Only

\* A value the program has taken from the file is readable, and the file is named.
LEMMA FileTakenSays ==
    ASSUME InputOK, NEW n \in 0..Len(input.flags), ReadFlags(n),
           NEW f \in Fields(input.program), FileUsed(f)
    PROVE  /\ Says("file", f)
           /\ input.file[f] \in FormsGiven("file", f)
           /\ input.file[f] \in Accepts(input.program, "file", f)
  <1>1. /\ f \in DOMAIN FileForms /\ FileForms[f] = input.file[f]
        /\ f \in DOMAIN input.file \intersect FileFields(input.program)
    BY FileForm DEF FileUsed
  <1>2. FormsGiven("file", f) = {input.file[f]}
    BY <1>1 DEF FormsGiven
  <1>3. input.file[f] \in Accepts(input.program, "file", f)
    BY <1>1 DEF FileUsed, Malformed
  <1>4. \/ FilePath \in DOMAIN input.env /\ input.env[FilePath] = "text"
        \/ \E i \in DOMAIN input.flags :
              input.flags[i].field = FilePath /\ input.flags[i].form = "text"
    <2>1. ASSUME FilePath \in DOMAIN seen, seen[FilePath] = "text"
          PROVE  \E i \in DOMAIN input.flags :
                    input.flags[i].field = FilePath /\ input.flags[i].form = "text"
      <3>1. PICK i \in 1..n : input.flags[i].field = FilePath
        BY <2>1 DEF ReadFlags
      <3>2. input.flags[i].form = "text"
        BY <2>1, <3>1 DEF ReadFlags
      <3>3. i \in DOMAIN input.flags
        BY DEF InputOK
      <3> QED BY <3>1, <3>2, <3>3
    <2> QED BY <2>1 DEF FileUsed, NamesFile
  <1>5. Says("file", f)
    BY <1>2, <1>3, <1>4 DEF Says
  <1> QED BY <1>2, <1>3, <1>5

\* A readable value of the file is lost when the flag that names the file is cut off,
\* or when another value of the file is malformed.
LEMMA FileLost ==
    ASSUME InputOK, NEW n \in 0..Len(input.flags), ReadFlags(n),
           NEW f \in Fields(input.program), ~FileUsed(f), Says("file", f)
    PROVE  Excused("file", f)
  <1>1. f \in DOMAIN FileForms
    <2>1. f \in DOMAIN input.file \intersect FileFields(input.program)
      BY DEF Says, FormsGiven
    <2> QED BY <2>1, FileForm
  <1>2. CASE ~NamesFile
    <2>1. PICK i \in DOMAIN input.flags :
             input.flags[i].field = FilePath /\ input.flags[i].form = "text"
      BY <1>2 DEF Says, NamesFile
    <2>2. i \notin 1..n
      <3> SUFFICES ASSUME i \in 1..n PROVE FALSE
        OBVIOUS
      <3>1. FilePath \in DOMAIN seen /\ seen[FilePath] = "text"
        BY <2>1 DEF ReadFlags
      <3> QED BY <3>1, <1>2 DEF NamesFile
    <2>3. input.flags[i].form \in Accepts(input.program, "flag", input.flags[i].field)
      BY <2>1, TextForms
    <2>4. input.flags[i].field # Stray /\ input.flags[i].field \in {FilePath}
      BY <2>1, NoFields DEF InputOK
    <2>5. CutBefore({FilePath})
      BY <2>2, <2>3, <2>4, BehindTheEnd
    <2> QED BY <2>5 DEF Excused
  <1>3. ASSUME NEW g \in Malformed("file", FileForms) PROVE Excused("file", f)
    <2>1. g \in DOMAIN FileForms /\ FileForms[g] \notin Accepts(input.program, "file", g)
      BY DEF Malformed
    <2>2. /\ g \in DOMAIN input.file \intersect FileFields(input.program)
          /\ FileForms[g] = input.file[g]
      BY <2>1, FileForm
    <2>3. Unreadable("file", g)
      BY <2>1, <2>2 DEF Unreadable, FormsGiven
    <2> QED BY <2>2, <2>3 DEF Excused
  <1> QED BY <1>1, <1>2, <1>3 DEF FileUsed

-----------------------------------------------------------------------------
(* The configuration that has been read.                                    *)

\* Where each field is from once all sources have been read, and why.
LEMMA ValueInForce ==
    ASSUME ConfigurationInv, stage = "start", NEW f \in Fields(input.program)
    PROVE  /\ cfg[f].from \in {"default", "file", "env", "flag"}
           /\ cfg[f].from = "default" => cfg[f].value = Default(f)
           /\ cfg[f].from # "default" =>
                 /\ Says(cfg[f].from, f)
                 /\ \E form \in FormsGiven(cfg[f].from, f)
                                  \intersect Accepts(input.program, cfg[f].from, f) :
                       cfg[f].value = Meaning(f, form)
           /\ cfg[f].from # "flag" => ~FlagUsed(f)
           /\ cfg[f].from \notin {"flag", "env"} => ~EnvUsed(f)
           /\ cfg[f].from \notin {"flag", "env", "file"} => ~FileUsed(f)
  <1>1. InputOK /\ cfg[f] = Settled({"file", "env", "flag"}, f)
    BY DEF ConfigurationInv, CfgAsRead, Loaded
  <1>2. PICK n \in 0..Len(input.flags) : ReadFlags(n)
    BY DEF ConfigurationInv, FlagsRead
  <1>3. CASE FlagUsed(f)
    <2>1. cfg[f].from = "flag" /\ cfg[f].value = Meaning(f, Visited[f])
      BY <1>1, <1>3 DEF Settled
    <2> QED BY <2>1, <1>1, <1>2, <1>3, FlagTaken
  <1>4. CASE ~FlagUsed(f) /\ EnvUsed(f)
    <2>1. cfg[f].from = "env" /\ cfg[f].value = Meaning(f, input.env[f])
      BY <1>1, <1>4 DEF Settled
    <2> QED BY <2>1, <1>1, <1>4, EnvTakenSays
  <1>5. CASE ~FlagUsed(f) /\ ~EnvUsed(f) /\ FileUsed(f)
    <2>1. cfg[f].from = "file" /\ cfg[f].value = Meaning(f, input.file[f])
      BY <1>1, <1>5 DEF Settled
    <2> QED BY <2>1, <1>1, <1>2, <1>5, FileTakenSays
  <1>6. CASE ~FlagUsed(f) /\ ~EnvUsed(f) /\ ~FileUsed(f)
    <2>1. cfg[f].from = "default" /\ cfg[f].value = Default(f)
      BY <1>1, <1>6 DEF Settled
    <2> QED BY <2>1, <1>6
  <1> QED BY <1>3, <1>4, <1>5, <1>6

LEMMA HighestFromInv == ConfigurationInv => HighestReadableWins
  <1> SUFFICES ASSUME ConfigurationInv, stage = "start", NEW f \in DOMAIN cfg
               PROVE  LET says == {s \in {"file", "env", "flag"} : Says(s, f)}
                          from == cfg[f].from
                      IN /\ from # "default" =>
                               /\ from \in says
                               /\ \E form \in FormsGiven(from, f) :
                                     cfg[f].value = Meaning(f, form)
                         /\ \A s \in says : Rank[s] > Rank[from] => Excused(s, f)
    BY DEF HighestReadableWins, At
  <1>1. f \in Fields(input.program) /\ InputOK
    BY DEF ConfigurationInv, CfgAsRead, Loaded
  <1>2. PICK n \in 0..Len(input.flags) : ReadFlags(n)
    BY DEF ConfigurationInv, FlagsRead
  <1>3. PICK from \in {"default", "file", "env", "flag"} : from = cfg[f].from
    BY <1>1, ValueInForce
  <1>4. from # "default" =>
           /\ from \in {s \in {"file", "env", "flag"} : Says(s, f)}
           /\ \E form \in FormsGiven(from, f) : cfg[f].value = Meaning(f, form)
    BY <1>1, <1>3, ValueInForce
  <1>5. ASSUME NEW s \in {"file", "env", "flag"}, Says(s, f), Rank[s] > Rank[from]
        PROVE  Excused(s, f)
    <2>1. /\ Rank["default"] = 0 /\ Rank["file"] = 1
          /\ Rank["env"] = 2 /\ Rank["flag"] = 3
      BY DEF Rank
    <2>2. CASE s = "flag"
      <3>1. from # "flag"
        BY <1>5, <2>1, <2>2
      <3>2. ~FlagUsed(f)
        BY <3>1, <1>1, <1>3, ValueInForce
      <3> QED BY <3>2, <2>2, <1>1, <1>2, <1>5, FlagLost
    <2>3. CASE s = "env"
      <3>1. from \notin {"flag", "env"}
        BY <1>5, <2>1, <2>3
      <3>2. ~EnvUsed(f)
        BY <3>1, <1>1, <1>3, ValueInForce
      <3> QED BY <3>2, <2>3, <1>1, <1>5, EnvLost
    <2>4. CASE s = "file"
      <3>1. from \notin {"flag", "env", "file"}
        BY <1>5, <2>1, <2>4
      <3>2. ~FileUsed(f)
        BY <3>1, <1>1, <1>3, ValueInForce
      <3> QED BY <3>2, <2>4, <1>1, <1>2, <1>5, FileLost
    <2> QED BY <2>2, <2>3, <2>4
  <1> QED BY <1>3, <1>4, <1>5

-----------------------------------------------------------------------------
(* What the programs start with.                                            *)

LEMMA InMilliseconds ==
    /\ Milliseconds["zero"] = 0 /\ Milliseconds["empty"] = 0
    /\ Milliseconds["bare"] = 5000 /\ Milliseconds["unit"] = 5000
    /\ Milliseconds["fraction"] = 500 /\ Milliseconds["negative"] = -5000
  BY DEF Milliseconds

\* A value that is not above zero was written as such: but for what the file may say
\* of the save interval, a time below a second, which is cut.
LEMMA NotAboveZero ==
    ASSUME NEW program, NEW source \in {"file", "env", "flag"},
           NEW field \in {"PollInterval", "ReportInterval", "RateLimit", "StoreInterval"},
           NEW form \in Accepts(program, source, field)
    PROVE  /\ Meaning(field, form) \in Int
           /\ field \in {"PollInterval", "ReportInterval"} /\ Meaning(field, form) <= 0
                => form \in {"zero", "negative", "empty"}
           /\ Meaning(field, form) < 0 => form = "negative"
           /\ field = "StoreInterval" /\ Meaning(field, form) <= 0
                => \/ form \in {"zero", "negative"}
                   \/ source = "file" /\ form = "fraction"
  <1>1. CASE field \in {"PollInterval", "ReportInterval"}
    <2>1. Kind(field) = "duration"
      BY <1>1 DEF Kind
    <2>2. form \in {"zero", "unit", "fraction", "negative", "bare", "empty"}
      BY <2>1 DEF Accepts, Times
    <2>3. Meaning(field, form) = Milliseconds[form]
      BY <2>1 DEF Meaning
    <2> QED BY <1>1, <2>2, <2>3, InMilliseconds
  <1>2. CASE field \in {"RateLimit", "StoreInterval"}
    <2>1. Kind(field) = "int"
      BY <1>2 DEF Kind
    <2>2. /\ form \in {"zero", "bare", "negative", "unit", "fraction"}
          /\ source # "file" => form \in {"zero", "bare", "negative"}
      BY <2>1 DEF Accepts, Times, Numeric
    <2>3. Meaning(field, form) = Milliseconds[form] \div 1000
      BY <2>1 DEF Meaning
    <2>4. /\ 0 \div 1000 = 0 /\ 5000 \div 1000 = 5 /\ 500 \div 1000 = 0
          /\ (-5000) \div 1000 = -5
      OBVIOUS
    <2> QED BY <1>2, <2>2, <2>3, <2>4, InMilliseconds
  <1> QED BY <1>1, <1>2

\* A field in force that is not above zero was written so.
LEMMA WrittenSo ==
    ASSUME ConfigurationInv, stage = "start",
           NEW field \in {"PollInterval", "ReportInterval", "RateLimit", "StoreInterval"},
           field \in Fields(input.program)
    PROVE  /\ Value(field) \in Int
           /\ field \in {"PollInterval", "ReportInterval"} /\ Value(field) <= 0
                => Written(field) \intersect {"zero", "negative", "empty"} # {}
           /\ field = "RateLimit" /\ Value(field) < 0
                => Written(field) \intersect {"zero", "negative", "empty"} # {}
           /\ field = "StoreInterval" /\ Value(field) <= 0
                => \/ Written(field) \intersect {"zero", "negative"} # {}
                   \/ cfg[field].from = "file" /\ "fraction" \in Written(field)
  <1>1. PICK from \in {"default", "file", "env", "flag"} : from = cfg[field].from
    BY ValueInForce
  <1>2. CASE from = "default"
    <2>1. Value(field) = Default(field)
      BY <1>1, <1>2, ValueInForce DEF Value
    <2>2. Default(field) \in {2000, 10000, 3, 300}
      BY DEF Default
    <2> QED BY <2>1, <2>2
  <1>3. CASE from # "default"
    <2>1. PICK form \in FormsGiven(from, field) \intersect Accepts(input.program, from, field) :
             Value(field) = Meaning(field, form)
      BY <1>1, <1>3, ValueInForce DEF Value
    <2>2. form \in Written(field)
      BY <1>1, <2>1 DEF Written
    <2>3. from \in {"file", "env", "flag"} /\ form \in Accepts(input.program, from, field)
      BY <1>3, <2>1
    <2>4. /\ Meaning(field, form) \in Int
          /\ field \in {"PollInterval", "ReportInterval"} /\ Meaning(field, form) <= 0
               => form \in {"zero", "negative", "empty"}
          /\ Meaning(field, form) < 0 => form = "negative"
          /\ field = "StoreInterval" /\ Meaning(field, form) <= 0
               => \/ form \in {"zero", "negative"}
                  \/ from = "file" /\ form = "fraction"
      BY <2>3, NotAboveZero
    <2> QED BY <1>1, <2>1, <2>2, <2>4
  <1> QED BY <1>2, <1>3

-----------------------------------------------------------------------------
(* The steps.                                                               *)

\* What the operator does next goes into the input; nothing has been read yet.
LEMMA WriteStep ==
    ASSUME ConfigurationInv, NEW v \in Writable, Write(v)
    PROVE  ConfigurationInv'
  <1>1. /\ stage = "writing" /\ stage' = stage /\ seen' = seen /\ cfg' = cfg
        /\ v.program = input.program
    BY DEF Write, At
  <1>2. InputOK
    BY DEF ConfigurationInv
  <1>3. InputOK' /\ input'.program = input.program
    <2>1. CASE /\ v.source = "flag" /\ v.field \notin Flagged
               /\ input' = [input EXCEPT !.flags =
                               Append(@, [field |-> v.field, form |-> v.form])]
      <3> DEFINE a == [field |-> v.field, form |-> v.form]
                 F == input.flags
      <3>1. a \in Arguments /\ F \in Seq(Arguments)
        <4>1. v.field \in {w.field : w \in Writable} /\ v.form \in {w.form : w \in Writable}
          OBVIOUS
        <4> QED BY <4>1, <1>2 DEF Arguments, InputOK
      <3>2. PICK G \in Seq(Arguments) : G = Append(F, a)
        <4>1. \A s \in Seq(Arguments), b \in Arguments : Append(s, b) \in Seq(Arguments)
          OBVIOUS
        <4> HIDE DEF a, F
        <4> QED BY <4>1, <3>1
      <3>3. input' = [program |-> input.program, flags |-> G, env |-> input.env,
                      file |-> input.file]
        BY <1>2, <2>1, <3>2 DEF InputOK
      <3>4. /\ input'.program = input.program /\ input'.flags = G
            /\ input'.env = input.env /\ input'.file = input.file
        BY <3>3
      <3>5. /\ DOMAIN F = 1..Len(F) /\ Len(F) \in Nat
            /\ DOMAIN G = 1..(Len(F) + 1) /\ G[Len(F) + 1] = a
            /\ \A i \in DOMAIN F : i \in DOMAIN G /\ G[i] = F[i]
        BY <3>1, <3>2
      <3>6. v.field \in FlagFields(input.program)
        BY <1>1, <2>1
      <3>7. \A i \in DOMAIN G : i \in DOMAIN F \/ i = Len(F) + 1
        BY <3>5
      <3> HIDE DEF F
      <3>8. \A i \in DOMAIN F : F[i].field # v.field
        BY <2>1 DEF Flagged, F
      <3>9. /\ \A i \in DOMAIN F : F[i].field \in FlagFields(input.program)
            /\ \A i, j \in DOMAIN F : F[i].field = F[j].field => i = j
        BY <1>2 DEF InputOK, F
      <3>10. \A i \in DOMAIN G : G[i].field \in FlagFields(input.program)
        BY <3>5, <3>6, <3>7, <3>9
      <3>11. \A i, j \in DOMAIN G : G[i].field = G[j].field => i = j
        BY <3>5, <3>7, <3>8, <3>9
      <3>12. InputOK'
        BY <3>3, <3>4, <3>10, <3>11, <1>2 DEF InputOK
      <3> QED BY <3>4, <3>12
    <2>2. CASE \/ /\ v.source = "env"
                  /\ input' = [input EXCEPT !.env = With(@, v.field, v.form)]
               \/ /\ v.source = "file"
                  /\ input' = [input EXCEPT !.file = With(@, v.field, v.form)]
      <3>1. PICK e, d : input' = [program |-> input.program, flags |-> input.flags,
                                  env |-> e, file |-> d]
        BY <1>2, <2>2 DEF InputOK
      <3>2. /\ input'.program = input.program /\ input'.flags = input.flags
            /\ input'.env = e /\ input'.file = d
        BY <3>1
      <3>3. InputOK'
        BY <1>2, <3>1, <3>2 DEF InputOK
      <3> QED BY <3>2, <3>3
    <2> QED BY <2>1, <2>2 DEF Write
  <1>4. CfgAsRead'
    <2>1. cfg = [f \in Fields(input.program) |-> [from |-> "default", value |-> Default(f)]]
      BY <1>1 DEF ConfigurationInv, CfgAsRead, Loaded, Settled
    <2> QED BY <1>1, <1>3, <2>1 DEF CfgAsRead, Loaded, Settled
  <1>5. FlagsRead' /\ StartsAsAsked'
    BY <1>1 DEF FlagsRead, StartsAsAsked, At
  <1> QED BY <1>1, <1>3, <1>4, <1>5 DEF ConfigurationInv

LEMMA ExecuteStep ==
    ASSUME ConfigurationInv, Execute
    PROVE  ConfigurationInv'
  <1>1. /\ stage = "writing" /\ stage' = "flags" /\ input' = input /\ cfg' = cfg
    BY DEF Execute, At, GoTo
  <1>2. InputOK'
    BY <1>1 DEF ConfigurationInv, InputOK
  <1>3. CfgAsRead'
    BY <1>1 DEF ConfigurationInv, CfgAsRead, Loaded, Settled
  <1>4. FlagsRead' /\ StartsAsAsked'
    BY <1>1 DEF FlagsRead, StartsAsAsked, At
  <1> QED BY <1>1, <1>2, <1>3, <1>4 DEF ConfigurationInv

\* fs.Parse reads the arguments up to one that ends the parsing.
LEMMA ParseFlagsStep ==
    ASSUME ConfigurationInv, ParseFlags
    PROVE  ConfigurationInv'
  <1> DEFINE F == input.flags
  <1>1. stage = "flags" /\ input' = input /\ cfg' = cfg /\ InputOK
    BY DEF ParseFlags, At, ConfigurationInv
  <1>2. PICK n \in 0..Len(F) :
           /\ Parsed(F, n)
           /\ seen' = [f \in {F[i].field : i \in 1..n} |->
                          F[CHOOSE i \in 1..n : F[i].field = f].form]
           /\ IF input.program = "agent" /\ n < Len(F) /\ BadFlag(F, n + 1)
              THEN stage' = "done" /\ outcome' = [state |-> "refused"]
              ELSE stage' = "file"
    BY DEF ParseFlags, GoTo
  <1>3. InputOK'
    BY <1>1 DEF InputOK
  <1>4. CfgAsRead'
    BY <1>1, <1>2 DEF ConfigurationInv, CfgAsRead, Loaded, Settled
  <1>5. FlagsRead'
    <2> SUFFICES ASSUME stage' = "file" PROVE ReadFlags(n)'
      BY <1>1, <1>2 DEF FlagsRead
    <2>1. DOMAIN seen' = {F[i].field : i \in 1..n}
      BY <1>2
    <2>2. ASSUME NEW i \in 1..n PROVE seen'[F[i].field] = F[i].form
      <3>1. 1..n \subseteq DOMAIN F
        BY <1>1 DEF InputOK
      <3>2. (CHOOSE j \in 1..n : F[j].field = F[i].field) = i
        BY <3>1, <1>1 DEF InputOK
      <3> QED BY <3>2, <1>2
    <2>3. input.program = "agent" /\ n < Len(F) => ~BadFlag(F, n + 1)
      BY <1>2
    <2>4. Parsed(F, n)' /\ BadFlag(F, n + 1)' = BadFlag(F, n + 1)
      BY <1>1, <1>2 DEF Parsed, Ends, BadFlag
    <2> QED BY <1>1, <2>1, <2>2, <2>3, <2>4 DEF ReadFlags
  <1>6. StartsAsAsked'
    BY <1>1, <1>2 DEF StartsAsAsked, At
  <1> QED BY <1>1, <1>2, <1>3, <1>4, <1>5, <1>6 DEF ConfigurationInv

\* What was read, and what there is to read, stays as it was.
LEMMA ReadingKept ==
    ASSUME ConfigurationInv, input' = input, seen' = seen,
           stage \in {"file", "env", "visit", "start"}
    PROVE  /\ InputOK' /\ FlagsRead' /\ Fields(input.program)' = Fields(input.program)
           /\ \A S, f : Settled(S, f)' = Settled(S, f)
  <1>1. InputOK' /\ Fields(input.program)' = Fields(input.program)
    BY DEF ConfigurationInv, InputOK
  <1>2. FlagsRead'
    <2>1. PICK n \in 0..Len(input.flags) : ReadFlags(n)
      BY DEF ConfigurationInv, FlagsRead
    <2>2. ReadFlags(n)'
      BY <2>1 DEF ReadFlags, Parsed, Ends, BadFlag
    <2> QED BY <2>2 DEF FlagsRead
  <1>3. ASSUME NEW S, NEW f PROVE Settled(S, f)' = Settled(S, f)
    <2>1. FlagUsed(f)' = FlagUsed(f) /\ Visited' = Visited
      BY DEF FlagUsed, Visited
    <2>2. EnvUsed(f)' = EnvUsed(f)
      BY DEF EnvUsed, EnvForms, EnvTaken, AgentEnv, ServerEnv, Malformed
    <2>3. FileUsed(f)' = FileUsed(f)
      BY DEF FileUsed, FileForms, NamesFile, Malformed
    <2> QED BY <2>1, <2>2, <2>3 DEF Settled
  <1> QED BY <1>1, <1>2, <1>3

LEMMA LoadFromJSONStep ==
    ASSUME ConfigurationInv, LoadFromJSON
    PROVE  ConfigurationInv'
  <1>1. stage = "file" /\ stage' = "env" /\ input' = input /\ seen' = seen
    BY DEF LoadFromJSON, At, GoTo
  <1>2. /\ InputOK' /\ FlagsRead' /\ Fields(input.program)' = Fields(input.program)
        /\ \A S, f : Settled(S, f)' = Settled(S, f)
    BY <1>1, ReadingKept
  <1>3. cfg = [f \in Fields(input.program) |-> Settled({}, f)]
    BY <1>1 DEF ConfigurationInv, CfgAsRead, Loaded
  <1>4. cfg' = [f \in Fields(input.program) |-> Settled({"file"}, f)]
    <2>1. CASE NamesFile /\ Malformed("file", FileForms) = {}
      <3>1. cfg' = [f \in DOMAIN cfg |->
                       IF f \in DOMAIN FileForms
                       THEN [from |-> "file", value |-> Meaning(f, FileForms[f])]
                       ELSE cfg[f]]
        BY <2>1 DEF LoadFromJSON, FileForms, Overlay
      <3>2. ASSUME NEW f \in Fields(input.program)
            PROVE  cfg'[f] = Settled({"file"}, f)
        <4>1. CASE f \in DOMAIN FileForms
          <5>1. cfg'[f] = [from |-> "file", value |-> Meaning(f, input.file[f])]
            BY <3>1, <4>1, <1>3, FileForm
          <5> QED BY <5>1, <2>1, <4>1 DEF Settled, FileUsed
        <4>2. CASE f \notin DOMAIN FileForms
          BY <3>1, <4>2, <1>3 DEF Settled, FileUsed
        <4> QED BY <4>1, <4>2
      <3> QED BY <3>1, <3>2, <1>3
    <2>2. CASE ~(NamesFile /\ Malformed("file", FileForms) = {})
      <3>1. cfg' = cfg
        BY <2>2 DEF LoadFromJSON, FileForms
      <3>2. \A f : Settled({"file"}, f) = Settled({}, f)
        BY <2>2 DEF Settled, FileUsed
      <3> QED BY <3>1, <3>2, <1>3
    <2> QED BY <2>1, <2>2
  <1>5. CfgAsRead'
    BY <1>1, <1>2, <1>4 DEF CfgAsRead, Loaded
  <1>6. StartsAsAsked'
    BY <1>1 DEF StartsAsAsked, At
  <1> QED BY <1>1, <1>2, <1>5, <1>6 DEF ConfigurationInv

LEMMA ReadEnvStep ==
    ASSUME ConfigurationInv, ReadEnv
    PROVE  ConfigurationInv'
  <1>1. stage = "env" /\ stage' = "visit" /\ input' = input /\ seen' = seen
    BY DEF ReadEnv, At, GoTo
  <1>2. /\ InputOK' /\ FlagsRead' /\ Fields(input.program)' = Fields(input.program)
        /\ \A S, f : Settled(S, f)' = Settled(S, f)
    BY <1>1, ReadingKept
  <1>3. cfg = [f \in Fields(input.program) |-> Settled({"file"}, f)]
    BY <1>1 DEF ConfigurationInv, CfgAsRead, Loaded
  <1>4. cfg' = [f \in Fields(input.program) |-> Settled({"file", "env"}, f)]
    <2> DEFINE forms == Only(EnvForms, EnvTaken)
    <2>1. cfg' = [f \in DOMAIN cfg |->
                     IF f \in DOMAIN forms
                     THEN [from |-> "env", value |-> Meaning(f, forms[f])]
                     ELSE cfg[f]]
      BY DEF ReadEnv, EnvForms, EnvTaken, Overlay
    <2>2. ASSUME NEW f \in Fields(input.program)
          PROVE  cfg'[f] = Settled({"file", "env"}, f)
      <3>1. f \in DOMAIN forms <=> EnvUsed(f)
        BY DEF Only, EnvUsed
      <3>2. CASE EnvUsed(f)
        <4>1. forms[f] = input.env[f]
          BY <3>2, EnvForm DEF Only, EnvUsed
        <4>2. cfg'[f] = [from |-> "env", value |-> Meaning(f, input.env[f])]
          BY <2>1, <3>1, <3>2, <4>1, <1>3
        <4> QED BY <4>2, <3>2 DEF Settled
      <3>3. CASE ~EnvUsed(f)
        <4>1. cfg'[f] = cfg[f]
          BY <2>1, <3>1, <3>3, <1>3
        <4> QED BY <4>1, <3>3, <1>3 DEF Settled
      <3> QED BY <3>2, <3>3
    <2> HIDE DEF forms
    <2> QED BY <2>1, <2>2, <1>3
  <1>5. CfgAsRead'
    BY <1>1, <1>2, <1>4 DEF CfgAsRead, Loaded
  <1>6. StartsAsAsked'
    BY <1>1 DEF StartsAsAsked, At
  <1> QED BY <1>1, <1>2, <1>5, <1>6 DEF ConfigurationInv

LEMMA VisitFlagsStep ==
    ASSUME ConfigurationInv, VisitFlags
    PROVE  ConfigurationInv'
  <1>1. stage = "visit" /\ stage' = "start" /\ input' = input /\ seen' = seen
    BY DEF VisitFlags, At, GoTo
  <1>2. /\ InputOK' /\ FlagsRead' /\ Fields(input.program)' = Fields(input.program)
        /\ \A S, f : Settled(S, f)' = Settled(S, f)
    BY <1>1, ReadingKept
  <1>3. cfg = [f \in Fields(input.program) |-> Settled({"file", "env"}, f)]
    BY <1>1 DEF ConfigurationInv, CfgAsRead, Loaded
  <1>4. cfg' = [f \in Fields(input.program) |-> Settled({"file", "env", "flag"}, f)]
    <2>1. cfg' = [f \in DOMAIN cfg |->
                     IF FlagUsed(f)
                     THEN [from |-> "flag", value |-> Meaning(f, Visited[f])]
                     ELSE cfg[f]]
      BY DEF VisitFlags, Overlay, FlagUsed
    <2>2. ASSUME NEW f \in Fields(input.program)
          PROVE  cfg'[f] = Settled({"file", "env", "flag"}, f)
      BY <2>1, <1>3 DEF Settled
    <2> QED BY <2>1, <2>2, <1>3
  <1>5. CfgAsRead'
    BY <1>1, <1>2, <1>4 DEF CfgAsRead, Loaded
  <1>6. StartsAsAsked'
    BY <1>1 DEF StartsAsAsked, At
  <1> QED BY <1>1, <1>2, <1>5, <1>6 DEF ConfigurationInv

\* How a value was written does not change once it has been.
LEMMA SameWritten ==
    ASSUME input' = input, cfg' = cfg, NEW f
    PROVE  Written(f)' = Written(f)
  <1>1. \A names : CutBefore(names)' = CutBefore(names)
    BY DEF CutBefore, Ends, BadFlag
  <1>2. Flagged' = Flagged
    BY DEF Flagged
  <1>3. \A s : FormsGiven(s, f)' = FormsGiven(s, f)
    BY <1>1, <1>2 DEF FormsGiven
  <1> QED BY <1>3 DEF Written

\* The agent panics only over an interval that is not positive, or over a rate limit
\* that is negative.
LEMMA StartAgentStep ==
    ASSUME ConfigurationInv, StartAgent
    PROVE  ConfigurationInv'
  <1>1. /\ stage = "start" /\ stage' = "done" /\ input.program = "agent"
        /\ input' = input /\ cfg' = cfg
    BY DEF StartAgent, At, GoTo
  <1>2. {"PollInterval", "ReportInterval", "RateLimit"} \subseteq Fields(input.program)
    BY <1>1 DEF Fields, AgentFields
  <1>3. ASSUME outcome'.state = "panic"
        PROVE  \E f \in {"PollInterval", "ReportInterval", "RateLimit"} :
                   Written(f) \intersect {"zero", "negative", "empty"} # {}
    <2>1. \/ Value("PollInterval") <= 0
          \/ Value("ReportInterval") <= 0
          \/ Value("RateLimit") < 0
      BY <1>3 DEF StartAgent
    <2> QED BY <1>1, <1>2, <2>1, WrittenSo
  <1>4. \A f : Written(f)' = Written(f)
    BY <1>1, SameWritten
  <1>5. StartsAsAsked'
    BY <1>1, <1>3, <1>4 DEF StartsAsAsked
  <1>6. InputOK'
    BY <1>1 DEF ConfigurationInv, InputOK
  <1> QED BY <1>1, <1>5, <1>6 DEF ConfigurationInv, FlagsRead, CfgAsRead

\* The server saves after every update only with an interval that is not positive.
LEMMA StartServerStep ==
    ASSUME ConfigurationInv, StartServer
    PROVE  ConfigurationInv'
  <1>1. /\ stage = "start" /\ stage' = "done" /\ input.program = "server"
        /\ input' = input /\ cfg' = cfg
    BY DEF StartServer, At, GoTo
  <1>2. "StoreInterval" \in Fields(input.program)
    BY <1>1, StructFields DEF Fields
  <1>3. ASSUME outcome'.state = "running", outcome'.saving = "synchronous"
        PROVE  \/ Written("StoreInterval") \intersect {"zero", "negative"} # {}
               \/ /\ cfg["StoreInterval"].from = "file"
                  /\ "fraction" \in Written("StoreInterval")
    <2>1. ~(Value("StoreInterval") > 0)
      BY <1>3 DEF StartServer
    <2>2. Value("StoreInterval") \in Int
      BY <1>1, <1>2, WrittenSo
    <2>3. Value("StoreInterval") <= 0
      BY <2>1, <2>2
    <2> QED BY <1>1, <1>2, <2>3, WrittenSo
  <1>4. \A f : Written(f)' = Written(f)
    BY <1>1, SameWritten
  <1>5. StartsAsAsked'
    BY <1>1, <1>3, <1>4 DEF StartsAsAsked
  <1>6. InputOK'
    BY <1>1 DEF ConfigurationInv, InputOK
  <1> QED BY <1>1, <1>5, <1>6 DEF ConfigurationInv, FlagsRead, CfgAsRead

-----------------------------------------------------------------------------
(* The specification.                                                       *)

LEMMA ConfigurationInvInit == Init => ConfigurationInv
  <1> SUFFICES ASSUME Init PROVE ConfigurationInv
    OBVIOUS
  <1>1. PICK program \in {"agent", "server"} :
           input = [program |-> program, flags |-> <<>>, env |-> <<>>, file |-> <<>>]
    BY DEF Init
  <1>2. /\ input.program = program /\ input.flags = <<>>
        /\ input.env = <<>> /\ input.file = <<>> /\ stage = "writing"
    BY <1>1 DEF Init
  <1>3. InputOK
    BY <1>1, <1>2 DEF InputOK
  <1>4. CfgAsRead
    <2>1. cfg = [f \in Fields(input.program) |-> [from |-> "default", value |-> Default(f)]]
      BY DEF Init
    <2> QED BY <1>2, <2>1 DEF CfgAsRead, Loaded, Settled
  <1>5. FlagsRead /\ StartsAsAsked
    BY <1>2 DEF FlagsRead, StartsAsAsked, At
  <1> QED BY <1>2, <1>3, <1>4, <1>5 DEF ConfigurationInv

LEMMA ConfigurationInvNext == ConfigurationInv /\ [Next]_vars => ConfigurationInv'
  <1> SUFFICES ASSUME ConfigurationInv, [Next]_vars PROVE ConfigurationInv'
    OBVIOUS
  <1>1. CASE UNCHANGED vars
    <2>1. stage' = stage /\ input' = input /\ seen' = seen /\ cfg' = cfg /\ outcome' = outcome
      BY <1>1 DEF vars
    <2>2. InputOK'
      BY <2>1 DEF ConfigurationInv, InputOK
    <2>3. FlagsRead'
      <3> SUFFICES ASSUME stage \in {"file", "env", "visit", "start"} PROVE FlagsRead'
        BY <2>1 DEF FlagsRead
      <3> QED BY <2>1, ReadingKept
    <2>4. CfgAsRead'
      <3>1. CASE stage \in {"writing", "flags"}
        BY <2>1, <3>1 DEF ConfigurationInv, CfgAsRead, Loaded, Settled
      <3>2. CASE stage \in {"file", "env", "visit", "start"}
        <4>1. \A S : Loaded(S)' = Loaded(S)
          BY <2>1, <3>2, ReadingKept DEF Loaded
        <4> QED BY <2>1, <3>2, <4>1 DEF ConfigurationInv, CfgAsRead
      <3>3. CASE stage = "done"
        BY <2>1, <3>3 DEF CfgAsRead
      <3> QED BY <3>1, <3>2, <3>3 DEF ConfigurationInv
    <2>5. StartsAsAsked'
      <3>1. \A f : Written(f)' = Written(f)
        BY <2>1 DEF Written, FormsGiven, CutBefore, Ends, BadFlag, Flagged
      <3> QED BY <2>1, <3>1 DEF ConfigurationInv, StartsAsAsked, At
    <2> QED BY <2>1, <2>2, <2>3, <2>4, <2>5 DEF ConfigurationInv
  <1>2. ASSUME NEW v \in Writable, Write(v) PROVE ConfigurationInv'
    BY <1>2, WriteStep
  <1>3. CASE Terminated
    BY <1>1, <1>3 DEF Terminated
  <1> QED
    BY <1>1, <1>2, <1>3, ExecuteStep, ParseFlagsStep, LoadFromJSONStep, ReadEnvStep,
       VisitFlagsStep, StartAgentStep, StartServerStep DEF Next

LEMMA AlwaysConfigurationInv == Spec => []ConfigurationInv
  BY ConfigurationInvInit, ConfigurationInvNext, PTL DEF Spec

\* Each field comes from the highest source that says something readable about it, and
\* what a malformed value costs beside itself stays within its own source.
THEOREM HighestWins == Spec => []HighestReadableWins
  BY AlwaysConfigurationInv, HighestFromInv, PTL

\* The agent panics, and the server saves after every update, only when the operator
\* wrote a value that asks for it.
THEOREM StartsAsWritten == Spec => []StartsAsAsked
  BY AlwaysConfigurationInv, PTL DEF ConfigurationInv

=============================================================================

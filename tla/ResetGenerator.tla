--------------------------- MODULE ResetGenerator ---------------------------
(***************************************************************************)
(* cmd/reset, the generator of Reset() methods for structures marked       *)
(* "generate:reset", in the life of a source tree: a developer edits it,   *)
(* and runs of the generator read it and rewrite one file per package.     *)
(* A run decides by the methods it finds what a method may call, and it    *)
(* finds the ones an earlier run has generated too.                        *)
(***************************************************************************)
EXTENDS Naturals, Sequences, FiniteSets, SequencesExt

CONSTANTS
    Structs,        \* names of structures
    Packages,       \* import paths, in the order of sort.Strings
    PkgOf,          \* [Structs -> packages]
    AllFields,      \* [Structs -> [names of fields -> types]]
    Embedded,       \* [Structs -> SUBSET names], the embedded ones
    AfterGenerated, \* structures with their handwritten methods in a file that the
                    \* type checker reads after reset.gen.go
    MaxEdits        \* bound: edits of the developer

\* What a type is, behind pointers to it (they only add tests for nil), when it is
\* not a structure; "other" is an interface, a channel or a function.
PlainTypes == {"basic", "slice", "map", "array", "other"}

ASSUME GeneratorAssumption ==
    /\ Structs \intersect PlainTypes = {}
    /\ \A s \in Structs :
          /\ PkgOf[s] \in ToSet(Packages)
          /\ \A f \in DOMAIN AllFields[s] : AllFields[s][f] \in Structs \union PlainTypes
          /\ Embedded[s] \subseteq {f \in DOMAIN AllFields[s] : AllFields[s][f] \in Structs}
          /\ \A f \in Embedded[s] : Embedded[AllFields[s][f]] = {}
    /\ AfterGenerated \subseteq Structs
    /\ MaxEdits \in Nat

NoFile == <<>>      \* no reset.gen.go, and a file without methods

VARIABLES
    marked,     \* the structures with the marker
    manual,     \* [Structs -> "none", "plain", "args"], a Reset written by hand
    fields,     \* [Structs -> SUBSET names], the fields they have now
    file,       \* [packages -> [structures -> [fields -> how]]], reset.gen.go
    pending,    \* positions in Packages the current run still has to write
    output,     \* [packages -> contents of reset.gen.go], what the run has found
    intact,     \* the current run has written every file it came to
    fresh,      \* complete runs since the last edit or failure, at most 2
    edits

source == <<marked, manual, fields>>
run == <<pending, output, intact>>
vars == <<source, file, run, fresh, edits>>

Init ==
    /\ marked \in SUBSET Structs
    /\ manual = [s \in Structs |-> "none"]
    /\ fields = [s \in Structs |-> DOMAIN AllFields[s]]
    /\ file = [p \in ToSet(Packages) |-> NoFile]
    /\ pending = {}
    /\ output = file
    /\ intact = TRUE
    /\ fresh = 0
    /\ edits = 0

Generated == UNION {DOMAIN file[p] : p \in ToSet(Packages)}

-----------------------------------------------------------------------------
(* What a run finds.                                                        *)

\* The methods of the generated file count.
BugHasManual(s) == manual[s] # "none" \/ s \in Generated

\* findManualResetMethods: a method of that name outside reset.gen.go, whatever
\* its parameters.
HasManual(s) == manual[s] # "none"

BugTargets(p) == {s \in marked : PkgOf[s] = p}

\* The structures of a package the run generates a method for.
Targets(p) == {s \in marked : PkgOf[s] = p /\ ~HasManual(s)}

\* The structures whose own method can be called as Reset().  Of two declarations
\* the type checker keeps the one in the file it reads first.
Owners ==
    {s \in Structs :
        \/ manual[s] = "plain"
        \/ s \in Generated /\ (manual[s] = "none" \/ s \in AfterGenerated)}

Declares(s) == manual[s] # "none" \/ s \in Generated

\* hasResetMethod: its own method, or one promoted from one embedded field.
HasReset(s) ==
    LET promoting == {f \in Embedded[s] \intersect fields[s] : AllFields[s][f] \in Owners}
    IN s \in Owners \/ (~Declares(s) /\ Cardinality(promoting) = 1)

\* resetValueLines and resetCallExpr, for the type behind the pointers.
How(type) ==
    CASE type \in Structs ->
            IF HasReset(type) THEN "call" ELSE "literal"
      [] type = "array" -> "literal"
      [] type = "basic" -> "zero"
      [] type = "slice" -> "truncate"
      [] type = "map"   -> "clear"
      [] OTHER          -> "nil"

\* emitResetMethod.
Method(s) == [f \in fields[s] |-> How(AllFields[s][f])]

\* generateForPackage, before it writes.
Contents(p) == [s \in Targets(p) |-> Method(s)]

-----------------------------------------------------------------------------
(* A run of the generator.                                                  *)

CountRun ==
    fresh' = IF pending' = {} /\ intact' /\ fresh < 2 THEN fresh + 1 ELSE fresh

\* packages.Load, and the search for marked structures: a package without any
\* to generate for is not in byPkg.
Load ==
    /\ pending = {}
    /\ pending' = {n \in DOMAIN Packages : Targets(Packages[n]) # {}}
    /\ output' = [p \in ToSet(Packages) |-> Contents(p)]
    /\ intact' = TRUE
    /\ CountRun
    /\ UNCHANGED <<source, file, edits>>

\* for _, k := range pkgKeys
IsNext(n) == n \in pending /\ \A m \in pending : n <= m

WriteFile ==
    /\ \E n \in pending :
          /\ IsNext(n)
          /\ pending' = pending \ {n}
          /\ file' = [file EXCEPT ![Packages[n]] = output[Packages[n]]]
    /\ UNCHANGED <<source, output, intact, edits>>
    /\ CountRun

\* An error of format.Source or of the write is logged, and the next package is
\* written; a run may be interrupted too.  os.WriteFile truncates first, so a write that
\* does not end leaves the methods it came to, of which the parser reads the last one
\* as far as it goes.
Stopped ==
    /\ \E n \in pending : \E written \in SUBSET DOMAIN output[Packages[n]] :
          /\ IsNext(n)
          /\ pending' \in {pending \ {n}, {}}
          /\ \/ UNCHANGED file
             \/ file' = [file EXCEPT ![Packages[n]] = Restrict(output[Packages[n]], written)]
    /\ intact' = FALSE
    /\ fresh' = 0
    /\ UNCHANGED <<source, output, edits>>

-----------------------------------------------------------------------------
(* The developer, between the runs.                                         *)

Edit ==
    /\ pending = {}
    /\ edits < MaxEdits
    /\ edits' = edits + 1
    /\ fresh' = 0
    /\ UNCHANGED <<file, run>>

Mark(s) ==
    /\ Edit
    /\ marked' = IF s \in marked THEN marked \ {s} ELSE marked \union {s}
    /\ UNCHANGED <<manual, fields>>

WriteManual(s) ==
    /\ Edit
    /\ \E kind \in {"none", "plain", "args"} \ {manual[s]} :
          manual' = [manual EXCEPT ![s] = kind]
    /\ UNCHANGED <<marked, fields>>

ChangeField(s) ==
    /\ Edit
    /\ \E f \in DOMAIN AllFields[s] :
          fields' = [fields EXCEPT ![s] = IF f \in @ THEN @ \ {f} ELSE @ \union {f}]
    /\ UNCHANGED <<marked, manual>>

Next ==
    \/ Load \/ WriteFile \/ Stopped
    \/ \E s \in Structs : Mark(s) \/ WriteManual(s) \/ ChangeField(s)

Spec == Init /\ [][Next]_vars

-----------------------------------------------------------------------------
(* Properties.                                                              *)

\* What the comment on top of main.go asks of reset.gen.go.
UpToDate(p) ==
    /\ DOMAIN file[p] = {s \in marked : PkgOf[s] = p /\ manual[s] = "none"}
    /\ \A s \in DOMAIN file[p] :
          /\ DOMAIN file[p][s] = fields[s]
          /\ \A f \in fields[s] :
                (file[p][s][f] = "call")
                    <=> (AllFields[s][f] \in Structs /\ HasReset(AllFields[s][f]))

Abandoned(p) == \A s \in marked : PkgOf[s] = p => manual[s] # "none"

\* The first run after an edit may generate calls of methods it is about to
\* remove, and may not yet call the ones it adds, since it decides by the methods
\* it has loaded.  The second run repairs that: every file is then up to date, for
\* the source as it is, except in a package without structures to generate for.
TwoRunsSettle ==
    fresh = 2 => \A p \in ToSet(Packages) : UpToDate(p) \/ Abandoned(p)

\* After a run no structure has both a generated and a handwritten Reset (it would
\* not compile), whatever was generated before the handwritten one was added,
\* except in a package the generator has nothing left to generate for: its old
\* file stays.
DeclaredOnce ==
    fresh > 0 => \A s \in Generated : manual[s] # "none" => Abandoned(PkgOf[s])

=============================================================================

# moovlint: specifications and proofs

moovlint is a Go linter: 31 `go/analysis` analyzers run by a driver over the
packages of a module (as a golangci-lint plugin or as `moovlint ./...`), and
five repository checkers over SQL, protobuf, `go.mod` and Go files
(`moovlint repo [path]`).  This directory models its algorithms in TLA+,
model-checks them on small instances with TLC and proves the central results
with TLAPS.  Paths below are relative to the repository's root; `l.` is a line
of the file just named.

## The system

| Part | Source | State it keeps | Operations | What makes it correct |
|---|---|---|---|---|
| Registration and settings | `plugin.go`, `analyzers.go` | one settings value per plugin instance, one analyzer object per configuration | decode settings, build the analyzer list | two instances share no settings |
| Command line | `cmd/moovlint/main.go` | none | dispatch to the driver or to the repository checks, choose the exit code | exit code 0 means clean |
| writegate | `analyzers/writegate` | marks, function values, facts shared with importing packages | collect, mark to a fixpoint, spread over interfaces, export, report | marks are exactly what can reach a write, whatever the map order; the report covers API handlers and spares event handlers |
| spanrequired | `analyzers/spanrequired` | set of functions being visited, summary of work | summarise a method through its callees, decide exemptions | counts do not depend on order or on how recursion is cut |
| ctornilguard | `analyzers/ctornilguard` | checked, guarded and invalid fields | passes over constructors, writes and methods | a check called redundant cannot fail; the two halves agree |
| mockcheck | `analyzers/mockcheck` | interface uses by object | match test doubles with interfaces | what is reported does not depend on the map order |
| oteltags | `analyzers/oteltags` | where the recursion over a type is | classify attribute types | the recursion ends; the verdict is right behind any names and pointers |
| closure analyzers | requiregoroutine, subtestassert | exempt literals, local names | walk closures inside closures | each call is examined where it runs, once |
| span and cancel analyzers | contextcancel, spanlifecycle, spancontext, spanerrors | names created, deferred, mentioned per function | match creations with ends by name | a report is never wrong; what is lost is found unless a name is used twice |
| error and event analyzers | httpdecodeflag, repoerrorflags, grpcstatus, validationflag, spanevents | none | walk below branches, methods and closures | no unflagged return leaves unreported, no log call is reported twice |
| clock and enum analyzers | timeinject, enumcast | positions called | find calls in some functions | the right functions are left alone |
| pattern analyzers | the other directories of `analyzers/` | none | match one syntax shape each | the shape |
| repository pipeline | `repocheck/repocheck.go` | the diagnostics so far | run the checkers in order, walk the tree | nothing found is lost without an error |
| protobuf, migrations, gomodreplace | `repocheck/*` | line-by-line parser state | scan one kind of file | the state is what the lines so far say |
| sqlnow, structtags | `repocheck/*` | none | test one line, one tag | the pattern |
| helpers | `internal/moovutil`, `internal/placement` | none | classify packages, types, names | the predicate |

How the parts interact: the driver (golang.org/x/tools, external) runs the
passes of one package after those of the packages it imports; the only thing
one pass leaves for another is writegate's `dbWriteFact`.  Everything else is
independent: analyzers share no state with each other, checkers share only the
list of diagnostics and the error that ends it.

### Where the difficulty lies

* writegate computes a fixpoint over Go maps: two loops range over maps in an
  arbitrary order and one of them inserts into the map it ranges over.  Marks,
  closures held in variables and interface methods depend on each other, and
  the collection of closures happens before and after the fixpoint but not
  inside it.  The marks and the report walk the same bodies by different rules.
* spanrequired recurses through calls and interface implementations, cuts
  cycles and must still count a helper that is reached twice; loops multiply.
* ctornilguard's first half needs all evidence and all counter-evidence of the
  package before it may say anything of a single field.
* mockcheck ranges over a map of interfaces and stops at the first match.
* Most other analyzers walk a file twice, the second walk started by the first
  at every node of a kind.  These nodes nest: what is below two of them is seen
  twice, what one walk cuts another may see, and what is matched by name may
  belong to another scope.
* oteltags recurses over types, which may contain themselves, and counts only
  some of the steps.
* Facts go from package to package: whether one is there depends on every
  package in between having been analysed, and on the driver's order.
* The repository checkers are line-driven state machines: what one line means
  depends on state left by earlier lines (an open block, a nested message, a
  ticket comment, the expected sequence number).
* The pipeline stops at the first checker that fails.

There is no concurrency, no persistence and no network inside the program: the
nondeterminism is the order of Go's maps, the input and what the file system
answers, and the order in which the driver takes independent packages.
`PROJECT.json` lists each hazard at its line.

## Modules

| Module | What it is |
|---|---|
| `WriteMarking` | abstract: marking a graph, that does not change meanwhile, to its least closed set |
| `WriteMarkingProofs` | what that protocol promises, proved |
| `WriteGate` | one writegate pass over one package; refines `WriteMarking` |
| `WriteGateProofs` | type correctness, justified marks and reports, complete facts and handlers, the refinement, order independence, the second collection |
| `SpanRequired` | the examination of a package's exported methods |
| `CtorNilGuard`, `CtorNilGuardProofs` | both halves of ctornilguard over one package; its three properties, proved |
| `MockCheck` | both passes of mockcheck over one package |
| `PackageAnalyzerProofs` | every safety property of `SpanRequired` and `MockCheck`, proved for any package |
| `GoModReplace` | the scan of `go.mod` |
| `Migrations`, `MigrationsProofs` | the check of migration directories; what silence means, gaps and contents, proved |
| `Protobuf` | the parse of a `.proto` file into scopes, and the checks of each |
| `LineCheckerProofs` | every safety property of `GoModReplace` and `Protobuf`, proved for files of any length |
| `NestedWalk` | one walk inside another over any file |
| `FileAnalyzers` | thirteen analyzers as such walks, and what their reports say of the file |
| `AttrTypes` | oteltags at one field |
| `WriteFacts` | the facts of writegate through the packages of a program |
| `AnalyzerPass` | the driver: the run of one analyzer, composed of the four modules above |
| `AnalyzerPassProofs` | every safety property of the four modules, proved for any file, type and program |
| `RepoCheck`, `RepoCheckProofs` | `moovlint repo`: the checkers one after the other, walks, errors, exit code; its three properties, proved for any tree |
| `MC…` | the instances for TLC: families of packages, files, directories, trees |

Every module has the same shape: the input is a constant set from which `Init`
chooses, `pc` or `phase` says which loop of the code runs, one action is one
iteration of a loop or one branch of it, and `Next` is their disjunction (with a
prefix, as `SpanNext` and `ProtoNext`, where two modules share their proofs).  The
input is data the code reads (syntax, types, lines); it is reduced to what the
code asks of it.  Operators and actions have the names of the functions they
translate where TLA+ allows.  An operator whose comment begins with "Mutant
of" is a wrong version of the definition after it and is used by nothing: with
it in the place of the right one the property named in `PROJECT.json` fails,
which shows that the property says something about the code.

### WriteGate (`analyzers/writegate/writegate.go`)

`prog` is the package: the calls each body makes outside nested literals, the
literals it nests, the assignments of functions and closures to variables in
source order, who implements what, imported facts, and what each signature
shows.  `phase` follows `run` (l. 55-132): *collect* (`collectFuncValues`,
assignment by assignment), *direct* and *range* (a round of the fixpoint:
`todo` holds the entries the range over the map has still to produce, any of
which comes next), *interfaces* (`markInterfaceMethods`: entries inserted while
ranging may or may not be produced, so both happen), *recollect*, *export*,
*report* (`reportHTTPWrites`: `agenda` holds the bodies to walk with the API
and event context each inherits).  The type predicates (`isResponseWriter`,
`signatureLooksLikeEventHandler`, `embedsUnimplementedServer`,
`isObsSQLPackage`, `types.Implements`) are given with the package; how their
answers combine (`applySig`, `frameFrom`, `frameFromLit`) is modelled.

`WriteMarking` is what the pass promises about marks.  Under the mapping
`graph <- CallGraph`, `marks <- localWrites`, `stage <- Stage` each step of the
pass is a step of the protocol: reading settles the graph, marking never marks
what the graph does not justify, and the loop is left only when the marks are
closed.  "Settles" is the subtle part: the second collection may change what
counts as a call that writes, and it must come after the marking.

### SpanRequired (`analyzers/spanrequired/spanrequired.go`)

`pending` are the exported methods not yet examined (in any order, the source's among them);
`stack` is the call stack of `summarizeWork`, one record an activation with
the call it is at, the implementations still to follow (a map again) and the
worst summary so far.  `visiting` of the code is the set of functions on the
stack.  `summary` in the properties defines the same counts by recursion on the
set of visited functions, without stack or order: `sums` adds the calls of a
body up, `workOf` takes the worst of what a call may reach.

### CtorNilGuard (`analyzers/ctornilguard`)

`collect` reads constructors statement by statement (`CheckParam`,
`ReturnLiteral`, `NextCtor`), `EndCollect` combines their literals,
`invalidate` removes fields that other code may fill, `report` compares methods
with what remains (methods.go), and `ctors` is the older half, which reports
constructors that never compare a parameter they keep (ctornilguard.go).

### MockCheck (`analyzers/mockcheck/mockcheck.go`)

`uses` visits the places where a double meets an interface (`interfaceUses`),
`types` visits the doubles; `left` holds the interfaces the range over the map
has still to produce.

### GoModReplace, Migrations, Protobuf (`repocheck/...`)

One action per kind of line and state of the scan.  `GoModReplace` keeps the
code's three flags.  `Migrations` sorts names byte by byte as `sort.Strings`
does, reads numbers as `strconv.Atoi` does (stopping at the largest int) and
adds one as an int does.  `Protobuf` keeps scope objects in `heap` because the
code's result list holds references: an inner scope is listed when it opens and
again when it closes, and filled in between.

### NestedWalk, FileAnalyzers (`analyzers/requiregoroutine` and twelve others)

A file is its nodes in the order of `ast.Inspect`, each with the end of its
subtree.  `PassNode` and `EnterTrigger` are the outer callback, `InspectNode`
the inner one, which jumps to the end of a node where the code returns `false`,
and `LeaveTrigger` returns to the outer walk, which goes on *below* the node it
stopped at.  `FileAnalyzers` says for each analyzer where the outer walk stops,
what the inner walk cuts and what it reports, with the names of the code's
helpers (`collectLocalDefs`, `managedElsewhere`, `isSpanFromContextVar`,
`hasFlagInBody`, ...).  What a node is (a fatal call, a span being created, a
flagged return) is its kind and role, an input.  Where the code matches by name
the properties match by scope (`binding`), and the difference is what they are
about.

### AttrTypes (`analyzers/oteltags/oteltags.go`)

The field's type is a graph with at most one edge from each type to what it is
made of.  `StripPointer` is the loop of `isTimeType`, `ExemptOrWalk` the order
of the exemptions in `hasBadType`, `LookupTraceAttributes` what
`types.LookupFieldOrMethod` finds of a type or behind a pointer, `Descend` and `Conclude` the recursion of
`isBadAttrType`: `depth` is raised by slices and arrays only.

### WriteFacts (writegate and the go/analysis driver)

`AnalysePackage` is one pass: `marksOf` is what the fixpoint ends with (that
every order of Go's maps ends with it is what `WriteGate` shows), `factsOf`
what `ExportObjectFact` keeps of it.  The driver may take any package whose
imports are analysed.

### RepoCheck (`cmd/moovlint/main.go`, `repocheck/repocheck.go`)

A tree is the sequence of entries in the order `filepath.Walk` visits them.
`StartWalk`, `Visit`, `EndWalk` are the walk each checker makes with its own
rule for what it skips; `Look` asks the checker about one file; `Fail` is
`RunAll` returning on the first error; `Exit` prints and chooses the code.
What a checker says of one file is an input; `GoModReplace`, `Migrations` and
`Protobuf` model it.

## Runs

Each run checks every initial state of its instance.  "Bound" says what is
limited and why the limit loses little.

| Run | Shows | Bound |
|---|---|---|
| `writegate_graph` | marks are never spurious; every function that reaches a write has a fact; the pass refines `WriteMarking`; the marks do not depend on map order; the loop ends | no variables (the proof of `MarksJustified` includes them, the next run has one); three methods with at most one call each (any graph of writes needs one call per method to spread), two interfaces, one of another package, one imported fact: chains of length three with an interface in the middle, and cycles, occur |
| `writegate_literals` | an API handler that is marked gets a diagnostic; reports lie in API code, never in the body of an event handler, and are real; collecting twice keeps every variable's function | one handler, one helper, one variable with up to two assignments, three literals nested two deep, every signature |
| `spanrequired` | counts equal their definition without stack or order; the two exemptions are given as documented; the analysis ends | three functions (one examined first, two that implement the interface) with up to two calls and loops one deep: recursion direct, mutual and through the interface occurs |
| `gomodreplace` | what is reported is an untracked directive; what passes is tracked or covered by the last comment above the blocks | every file of up to three lines of ten kinds, up to five lines of a block with comments, up to six lines of four kinds (two blocks fit) |
| `gomodreplace_block` | finding: a ticket above a block covers the directive after it | four lines |
| `migrations` | a silent directory is numbered 1, 2, 3...; one gap is reported once; contents are looked at whatever the name says | three files, seven numbers (one that does not fit the instance's int, one that would be 1 if it were cut to its width), two separators; two statements a file |
| `protobuf` | reuse is reported only when real, in nested files too; in plain files reuse, gaps and personal data are reported exactly | a message of three lines plus one of two; six lines of nested messages |
| `protobuf_outer` | finding: the message around a nested one is not checked | six lines |
| `repocheck` | exit code 0 means every walk succeeded and no file looked at is faulty; an error prints nothing, success prints everything once; which errors count | trees three deep with every combination of skipped, migrations and fixture directories, unlistable and unreadable places |
| `ctornilguard` | a check called redundant cannot fail; redundant checks are found; both halves agree | two constructors of up to three statements, two parameters, two struct types, literals with keys and without, five ways for other code to interfere |
| `mockcheck` | the doubles reported are the same for every map order and place order; the interface named is one the settings and the module allow | two doubles, five interfaces of every origin, up to three places |
| `analysis` | every walk reports what it has in sight; in thirteen analyzers what is reported is what the names and scopes stand for; oteltags' verdict is exact; facts are justified and independent of the driver's order; every run ends | functions with up to four nodes of the ten or so kinds an analyzer tells apart (a closure in a closure with a definition and a use fits), two functions side by side for spans; every kind of package for three of them; chains of up to five types, with loops, and a method of either receiver on the first named one; three packages, two calls, five ways to implement interfaces |

Deadlock is checked where a `Terminated` (`Finished`) step marks the states in which the
program has returned: a scan that gets stuck before is an error.  `WriteGate`
and `SpanRequired` really stop, their configurations say `CHECK_DEADLOCK FALSE`,
and the runs `writegate_graph` and `spanrequired` check `Termination` instead.

### Fairness

Only `Termination` and `RunsEnd` need it.  `FairSpec` adds `WF_vars(Next)`, and
`Spec` of `AnalyzerPass` weak fairness of the steps of a run: a pass is
sequential code without blocking operations, run by a goroutine the Go
scheduler does not starve.  No fairness between actions is assumed: which entry
a range over a map produces next stays arbitrary.

### Findings

1. `gomodreplace.go:69`: opening a block does not clear `prevCommentTicket`, so
   the ticket above the block also silences the first directive below it.
2. `protobuf.go:278`: a nested message replaces the current scope and its
   closing brace drops it; the outer message is never checked.

### Known limits of the code that the properties state as preconditions

Each was met while modelling; the property that would otherwise fail excludes
exactly this case, in its comment or in its formula.

* writegate: the report walk does not look into the operand of a call
  (writegate.go:358) nor at a function named, rather than written out, in
  `InTxScope`'s arguments (l. 334), though both count for marks
  (`HandlersReported`).  `varWrites` is computed with no marks before the
  fixpoint and not inside it (l. 116): a method that calls a closure over a marked
  method is not marked, and an API handler that calls it is not reported, so
  `ExportsComplete` says nothing of packages with functions in variables.
  `markInterfaceMethods` goes over the marks of this
  package only (l. 209), so an interface method implemented by an imported type
  that has a fact is not marked (`ExportsComplete` excludes that too).  An event handler
  that is a method of a gRPC server type counts as an event handler (l. 332), and
  nothing is reported in its own body; but only the innermost function's context
  counts (l. 421, 460), so a plain literal it hands on has its API context (l. 352)
  and is reported.
* spanrequired: of the implementations of an interface the worst is taken
  field by field (l. 198), so the sum may be that of no implementation;
  `CountsExactly` states what the code computes.  The analyzer exempts
  forwarding decorators by what they reach (l. 185), not by their type.
* gomodreplace: a closing bracket followed by a comment does not close the
  block (l. 41).  `InBlock`, which says what a line of a block is, recognises
  brackets as the code does.
* migrations: a file that cannot be read keeps its number and is reported for
  nothing (l. 102); words of different statements combine, ALTER TABLE in one and
  RENAME in another are a rename (l. 115); up and down files of one number are a repeat (l. 89); a `DEFAULT`
  anywhere in a file excuses every `NOT NULL` column of it (l. 123).
* protobuf: `reserved 2, 3;` reserves nothing, only single numbers and ranges
  are read (l. 56).  An inner scope is checked twice and its diagnostics are
  printed twice (l. 277).
* moovlint repo: exit code 0 says nothing of files that cannot be read or parsed
  (sqlnow.go:28, structtags.go:34).
* ctornilguard: a literal without keys, `&svc{p}`, establishes nothing
  (methods.go:165-168; `RedundantFound` asks for keys), and comparisons are matched
  by the parameter's name (ctornilguard.go:131).  Zero values without syntax of their own (a field of another
  struct, an element of a slice) do not count as constructions
  (`RedundantNeverNil`), and the older half accepts a comparison that comes
  after the parameter was stored (ctornilguard.go:131).
* mockcheck: `types.Implements` counts promoted methods (l. 80), so a wrapper the
  repository's README.md:90 exempts is reported if its name says mock.
* moovutil: a package path that ends in `test` is no service package (l. 41), so
  requiregoroutine and subtestassert never see external test packages; `/client`
  and `/admin` are looked for anywhere in a path.
* requiregoroutine: a fatal call in nested closures is reported once per closure;
  the closures of a `Cleanup` inside a goroutine are gone into.
* subtestassert: names defined in inner closures, and names that are only assigned
  to, hide outer ones (`collectLocalDefs`); an Assertions in a field is reported although the subtest
  made it.
* contextcancel, spanlifecycle, spancontext: names are matched over the whole
  function, so a second object of a name hides the first (`onlyNamed`).
* spanerrors: `return svc.Do(ctx)` with several results has a tuple type and
  counts as no error (l. 92), an error a closure returns counts as one.
* httpdecodeflag: a return without results counts as unflagged.  grpcstatus: so
  does an unflagged return of a nested literal.  repoerrorflags: only the sides
  of a binary condition are looked at, so `if errors.Is(err, sql.ErrNoRows)` is
  not an expected error (l. 66), and one flagged return clears a branch.
* oteltags: one pointer is taken off and the lookup looks behind another (l. 153-156),
  so `**T` is exempt if `T` has `TraceAttributes` with either receiver, where the
  comment (l. 148) speaks of a value receiver of `t` or of the struct `t` points to
  (`ownAttributes`).  Anonymous structs and aliases pass; `type P *P` makes the recursion
  endless (`RunsEnd` excepts it).
* writegate, over packages: a package the analyzer leaves alone passes no facts
  on, and the mark of another package's interface method ends with the pass
  (`FactsWhateverOrder`).
* Met while reading, not modelled: structtags reports a tag that ends in `Id`
  with the advice to end it in `Id` (structtags.go:63, against README.md:110,
  which says that `ID` casing is preserved); mapderef takes an indexed slice of
  pointers for a map (mapderef.go:58).

## Proofs

Eight modules hold theorems; each theorem holds for every value of the constants
that the named assumptions allow.  The assumptions say what the compiler, the
type checker or the file system let through (`ProgramsAssumption`,
`PackagesAssumption`, `FieldsAssumption`, `WholeProgramsAssumption`,
`TreesAssumption`, `FileNames`, `ProtoFilesAreLines`), that a package declares
finitely many functions and that a library is not the package that calls it
(`DeclAssumption` and `CalleesDiffer` of `SpanRequired`) and, in `FewFiles`, that
no directory holds as many files as the largest int; TLC evaluates them on every
instance.

* **WriteMarking.**  `IInv` is: while marking, the marks lie in every closed set
  of the graph.  It is inductive because a mark is only added when one it
  depends on is there, and closed sets are closed under just that.  With the
  guard of `Finish` it gives `MarkingEndsWithLeast`: every behaviour ends with
  the least closed set, so no two orders end differently.
* **WriteGate.**  `WriteGateTypeOK` is inductive on its own, given
  `ProgramsAssumption` and that the kinds of names are disjoint.
  `MarksJustified` is not inductive: it says nothing of `funcValues`, on which
  the next mark may depend, nor of the entries a range still has to produce.
  `JustInv` adds `ValuesAssigned` (a variable holds a function only if some
  assignment stores it) and `RangesOverMarks` (the interface loop produces
  marked entries only).  For the refinement, `FixInv` says in which phases the
  call graph stands still and what `changed = FALSE` means at each point of a
  round: nothing asked so far would be marked now.  `ExitIsClosed` draws from
  it that the loop is left only when the marks are closed, `StepImplements` maps
  each action to `Read`, `Mark`, `Skip`, `Finish`, `Forget` or a stutter, and
  `WriteGateOrderIndependent` follows from the abstract theorem.  Two lemmas
  about the search carry it: `SearchMonotone` and `SearchNeedsOne` (a body that
  writes given a set of marks writes given one of them), which is what lets a
  set of marks be replaced by edges of a graph.
  `ReportsJustified` follows from `ReportInv`: a frame says API only in a body of
  `ApiBodies`, which is closed under what the walk hands on, and says event in
  every body whose own signature does (`FrameSays`).  For
  `ExportsComplete`, `ExportInv` keeps that the marks are `Settled` after the
  loop; then the marks, with all that is imported and the literals that write,
  are closed under everything a write is reached by, so the least closed set lies
  in them.  `HandlersReported` relates three times: `ValueInv` says that the
  marks are computed with the last function each variable is given, and that
  after the second collection it is there again (in between the values are a
  mixture; `RecollectStable` is the end of it); `WitnessInv` that a marked
  declaration has a call by which its search finds a write; and `Covered` how
  far the report has got: some of the bodies of the search are on the agenda or
  reported with the literals they hand on.  When the agenda is empty these are
  all of them, for the search is the least such set.  `TxArgsAssumption` is
  needed: a literal in `InTxScope` is no event handler, because its type is that
  of a transaction.
* **GoModReplace**, in `LineCheckerProofs`.  The two properties speak of the file, the code of flags.
  The invariant ties them: `BlockExact`, `CommentKnown`, `BlockKnown` say what
  each flag tells of the lines read so far, from both sides.
  `CommentKnown` is deliberately not an equivalence; its slack is finding 1.
* **Migrations.**  `CleanIsSequential` needs `ExpectedIsIndex`: as long as
  nothing is reported the number expected is the index of the file.  `FewFiles`
  keeps the increment from wrapping, and a number that does not fit an int from
  being taken for the one expected.  `GapsReportedOnce` needs `GapInv` (the
  number expected is the one after the file before, whether or not that was
  reported) and `Fresh` (nothing is reported of files to come), and that the
  files come in the order of their numbers.  The latter is an argument about
  data: a sort by bytes (`SortedSorts`: such an order exists and is unique)
  orders digit strings of one width as their values (`ValueReads`, `WidthOrder`,
  over the fold that reads the digits).  `ContentComplete` is `ContentInv`: every
  file passed is reported for all its text shows.
* **CtorNilGuard.**  `GuardInv` says at every place of the code what has been
  collected: the parameters checked before a statement that the collection got
  to (`CollectInv`), evidence for a literal and no more, all of it where the
  collection got there (`GuardedInv`), what literals leave out and operations
  spoil (`InvalidInv`).  `RedundantNeverNil` and `HalvesAgree` need the upper
  bound, `RedundantFound` the lower.
* **MockCheck**, in `PackageAnalyzerProofs`.  `UsesInv` ties the interface remembered of a double to the
  places passed, in both directions; `RunInv` says of the range over the map that
  what it has produced so far did not fit, so that stopping at the first match
  loses nothing.
* **Protobuf**, in `LineCheckerProofs`.  The code keeps a depth, the properties
  speak of braces before a line (`open`, `enclosing`).  `ScopeInv` holds of every
  file: the scope being filled was opened by a message line since which no brace
  has closed it and no message line was read (`OpenedBy`), so the fields of one
  scope stand in the same messages (`Together`).  `ReuseReal` follows because a
  sort permutes the fields (`SortingIs`): a duplicate in the sorted list is a
  number of two lines.  In a file of plain messages more is true, and `FlatInv`
  says it: the scopes are the messages read, one each (`Starts`), each handed out
  once (`OneByOne`), with all that stands in the message and nothing else
  (`Collected`), and a scope that has been checked is reported for exactly the
  faults of its sorted fields (`CheckedSoFar`).  `GapsExact` and `PIIExact` read
  the reports from there; `ReuseCounted` needs in addition that in a sorted list
  the fields that repeat the number before them are as many as the fields less
  the numbers (`ReusesCount`, an induction over the list).
* **SpanRequired**, in `PackageAnalyzerProofs`.  `SpanInv` says of every activation on the
  stack, with the functions below it as the visited ones, that its sum is that of
  the calls it has passed, and its worst that of the implementations neither left
  to follow nor above it (`Fits`, `WorstIs`).  The step that matters is the
  return: the summary handed down was made with just the functions visited that
  the definition has there, since none but the first activation starts a span.
  At the end nothing is left, the worst of all is the maximum of the definition
  (`WorstIsWork`) and `CountsExactly` follows.  The other two properties speak of what a
  method reaches, by a least closed set, the counts cut recursion.  `Reach(d, V)` is
  what d reaches without entering V again, and `ReachStep` takes it apart as
  `summary` is taken apart; `SummaryPositive` concludes by `VisitedInduction` that
  a count is positive for exactly the functions that reach a call it counts:
  cutting recursion hides nothing.  For `LoopsAreNotThin`, `UntracedInLoop` and
  `UntracedUnderLoop` show in the same way where a count is 2 at least; the
  second needs that what d reaches does not reach itself (`ReachAll`: then nothing
  is cut), which is why the property excepts recursion.  `Weight` is that a loop
  doubles.
* **RepoCheck.**  The walk jumps, the properties speak of directories around a
  file.  The lemmas on trees connect the two: what is beyond a directory is the
  first entry no deeper (`AfterIs`), the parents of the entry visited next
  (`ParentsNext`, `ParentsPast`), and that a jump leaves out just what the
  checker does not reach (`SkipLosesNothing`).  With them `WalkInv` says that
  the walk has found what the checker is to look at up to here, each file once,
  `LookInv` that what was returned and what is left are the checker's faults,
  `DiagsInv` that the diagnostics are those of the checkers before.  `ErrorInv`
  holds because the first checker skips no directory that another one enters:
  its walk meets every error.
* **NestedWalk**, in `AnalyzerPassProofs`.  At the end each trigger has reported
  all it has in sight, and the walks stay in the file, for every tree, any
  triggers, cuts and hits.  `WalkInv` adds `ReportsSoFar` (what is reported while
  the walks are under way) and `WalkPosition`, whose last part is the point: what
  is cut and lies behind the inner walk has ended, so the walk is never below a
  cut.  It needs that subtrees nest (`IsJob`).
* **FileAnalyzers**, in `AnalyzerPassProofs`.  `PassInv` is `WalkInv` for the job
  of the analyzer, over a file the parser lets through (`IsFile`).  What is
  reported is then a set that the job defines, and each property is an argument
  about trees: which closures lie between a call and a trigger, what a cut hides,
  which definition a name means (`binding`) against which ones the code matches
  by name.
* **AttrTypes**, in `AnalyzerPassProofs`.  `heldBy` is a least closed set, so what
  a type holds needs no induction.  `Stripped` says that the first loop has only
  pointers behind it; `Visited` that all the recursion has been at decides
  nothing and leads to where it is now, and that its depth counts the lists met,
  more than once only on a circle.  `AttrVerdictExact` follows at the type where it
  concludes, for every finite graph of types.
* **WriteFacts**, in `AnalyzerPassProofs`.  `FactsJustified` is inductive with its
  types: a set that holds all functions that reach a write holds all facts, so
  it is closed for the next pass too, and the marks of the pass are the least
  closed set.  For `FactsWhateverOrder`, `OrderInv` adds that an analysed package
  is `Settled`: no fact that came after it would make it mark anything else.
  That holds because a call needs an import (`WholeProgramsAssumption`) and
  imports come first; at the end the packages' marks together are an agreement.
  Both are stated of `WriteFacts` itself and, with `DriverInv`, of every run of
  `AnalyzerPass`.

Every invariant and action property that a passing run checks is stated by a
theorem.  Only model-checked are

* liveness, `Termination` (of `WriteGate` and `SpanRequired`) and `RunsEnd`:
  temporal reasoning under fairness is beyond the prover;
* the two findings: a counterexample needs no proof.

What could not be proved about a definition by recursion as it was first written
can be once the recursion is that of a function: `open` of `Protobuf`, `sums` and
`summary` of `SpanRequired` are such, and the proofs show first that a function
that satisfies the recursion exists (`CountExists`, `AddsExists`, `SummaryIs`).
Induction over a formula is not available as a theorem to cite (the library
states it with an operator as parameter).  Where a proof needs it, it goes over a
set: `SetInduction` says that a set that contains 0 and with n also n + 1 contains
all numbers, and follows from the well-foundedness of the order;
`VisitedInduction` says that a set of sets of functions that contains V whenever
it contains V with any one function more contains all of them, because a package
declares finitely many.

## Not modelled

* The Go type checker, `ast.Inspect`, regular expressions, `filepath.Walk`
  beyond its order and errors: the models take their answers.
* The wording, position and suggested fixes of diagnostics.
* `internal/placement`, the `structtags` and `sqlnow` line tests, most of
  `internal/moovutil` and the remaining pattern analyzers (blankdiscard,
  controllerassert, fixtureplacement, grpcserver, logformat, mapderef, midusage,
  modelplacement, moneyfloat, nolintguard, spanname, testsleep, uuidgen):
  predicates without state, which a model would only repeat.
* Settings and registration: a table.  Optional analyzers are enabled in the
  models.
* The cost of the algorithms (spanrequired visits every path; a `reserved` range
  fills a map number by number).
* That protobuf diagnostics of inner scopes are printed twice: the properties
  look at the set of what is reported.

## Plan

Done, in this order: `WriteMarking` and its proofs, `WriteGate` with its proofs,
`SpanRequired`, `GoModReplace`, `Migrations`, `Protobuf`, `RepoCheck`,
`CtorNilGuard`, `MockCheck`, `NestedWalk`, `FileAnalyzers`, `AttrTypes`,
`WriteFacts`, `AnalyzerPass`; then the proofs of `Migrations`, `CtorNilGuard`,
`MockCheck`, `RepoCheck`, of all that `AnalyzerPass` composes, and of `Protobuf`
and `SpanRequired`.

Next, modelling: grpcserver and controllerassert (which of several servers a
struct must embed); a package left alone between two others, with foreign
interfaces, in one `WriteGate` instance with `WriteFacts`.

Next, proofs: an abstract runner that either fails or collects every
checker's diagnostics, which `RepoCheck` implements; and that one `WriteGate`
pass ends with `marksOf` of `WriteFacts`.

----------------------------- MODULE FileAnalyzers -----------------------------
(* The analyzers that walk a file twice, one inside the other (NestedWalk): what each *)
(* of them makes of a file, and what its reports say of the program.                  *)
EXTENDS NestedWalk, Sequences, FiniteSetsExt

CONSTANT Passes     \* the passes of the instance, for each analyzer

(* A pass is an analyzer at one file of a package.                                    *)
(* The optional analyzers are enabled.                                                *)
(*   path     of the package: moov (under an organisation root), excluded (/cmd/,     *)
(*            /client, /admin, ... somewhere in it), test (it ends in "test", which   *)
(*            the external test package of every package does)                        *)
(*   test     the file is a _test.go file                                             *)
(*   nodes    the nodes some analyzer looks at, in the order of ast.Inspect, with the *)
(*            end of the subtree (NestedWalk), a kind, a name and a role:             *)
(*     func     a method or function     grpc (of a gRPC controller), ctx (it takes a *)
(*                                       context), error (it returns one), validate   *)
(*                                       (it is called Validate and does too), mapper *)
(*                                       (by its name), clocked (a field of the       *)
(*                                       receiver is a TimeService) or plain          *)
(*     lit      a function literal       deferred, cleanup (argument of Cleanup),     *)
(*                                       subtest (it takes a testing.T and is handed  *)
(*                                       to Run), T (it takes one and is not), bench  *)
(*                                       (it takes a testing.B or F),                 *)
(*                                       ctx or plain                                 *)
(*     if       an if statement, its body below it                                    *)
(*                                       decode (of a request body) or expected       *)
(*                                       (ErrCode compared with NotFound, ...)        *)
(*     fatal    require.X or t.FatalX                                                 *)
(*     define   x := require.New(t), x := setup(t), var x = require.New(t)            *)
(*     assign   x = require.New(t), to the x defined before                           *)
(*     use      x.Equal (ident) or x.Assert.Equal (field), on testify Assertions      *)
(*     make     ctx, x := StartSpan(ctx), ctx, x := context.WithCancel(ctx)           *)
(*     fromctx  x := trace.SpanFromContext(ctx)                                       *)
(*     defer    defer x.End(), defer x()                                              *)
(*     call     x.End(), x(); without a name trace.SpanFromContext(ctx).End()         *)
(*     discard  _ = x                                                                 *)
(*     mention  any other use of x                                                    *)
(*     return   empty, nil, bare (an error), flagged, wrapped (flagged inside another *)
(*              call), status (GrpcErrorStatus), struct (ValidateStruct) or tuple (all *)
(*              results of one call)                                                  *)
(*     log      logger.Info().Log                                                     *)
(*     start    StartSpan, whatever becomes of the span; record: RecordError, SetStatus *)
(*     clock    call (time.Now(), time.Since(t)) or value (time.Now)                  *)
(*     cast     a conversion to the enum of that name, of a raw string or a constant  *)
(*     switch   of any kind; table: a map literal whose elements are the enum         *)

VARIABLE pass

vars == <<pass, walk>>

node(n) == pass.nodes[n]
all == Nodes(Len(pass.nodes))
ofKind(kind) == {n \in all : node(n).kind = kind}
ofRole(kind, roles) == {n \in ofKind(kind) : node(n).role \in roles}

below(n) == n + 1 .. node(n).end - 1
names(S) == {node(n).name : n \in S}

-----------------------------------------------------------------------------
(* The gate at the head of every run *)

IsMoovPackage == pass.path.moov

IsServicePackage == IsMoovPackage /\ ~pass.path.excluded /\ ~pass.path.test

applies ==
    /\ IsServicePackage \/ (pass.analyzer = "validationflag" /\ IsMoovPackage)
    /\ pass.test <=> pass.analyzer \in {"requiregoroutine", "subtestassert"}

inspect(triggers, cut, hits) ==
    LET started == IF applies THEN triggers ELSE {} IN
    [size     |-> Len(pass.nodes),
     end      |-> [n \in all |-> node(n).end],
     triggers |-> started,
     cut      |-> cut,
     hits     |-> [t \in started |-> hits[t]]]

-----------------------------------------------------------------------------
(* requiregoroutine, subtestassert *)

collectExemptFuncLits == ofRole("lit", {"deferred", "cleanup"})
hasTestingTParam == ofRole("lit", {"subtest", "T", "bench"})

\* Mutant of requiregoroutine: the walk of a closure skips the exempt literals inside it.
requiregoroutineCut ==
    inspect((ofKind("lit") \ collectExemptFuncLits) \ hasTestingTParam, collectExemptFuncLits,
            [lit \in all |-> ofKind("fatal")])

requiregoroutine ==
    inspect((ofKind("lit") \ collectExemptFuncLits) \ hasTestingTParam, {},
            [lit \in all |-> ofKind("fatal")])

\* Whatever is defined or assigned to below the literal, in literals inside it too.
collectLocalDefs(lit) == names((ofKind("define") \union ofKind("assign")) \intersect below(lit))

\* Mutant of subtestassert: the walk of a subtest goes into the subtests inside it.
subtestassertUncut ==
    inspect(ofRole("lit", {"subtest"}), {},
            [lit \in all |-> {u \in ofKind("use") :
                            node(u).role = "field" \/ node(u).name \notin collectLocalDefs(lit)}])

subtestassert ==
    inspect(ofRole("lit", {"subtest"}), ofRole("lit", {"subtest", "T"}),
            [lit \in all |-> {u \in ofKind("use") :
                            node(u).role = "field" \/ node(u).name \notin collectLocalDefs(lit)}])

-----------------------------------------------------------------------------
(* contextcancel, spanlifecycle, spancontext *)

findDeferred(fn) == names(ofKind("defer") \intersect below(fn))

\* Mutant of managedElsewhere: the blank discards count.
managedAnywhere(fn, m) == \E n \in below(fn) \ {m} : node(n).name = node(m).name

\* Any other identifier of that name, unless it is discarded.
managedElsewhere(fn, m) ==
    \E n \in below(fn) \ (ofKind("discard") \union {m}) : node(n).name = node(m).name

contextcancel ==
    inspect(ofKind("func"), {},
            [fn \in all |-> {m \in ofKind("make") : /\ node(m).name \notin findDeferred(fn)
                                                /\ ~managedElsewhere(fn, m)}])

\* Mutant of spanlifecycle: the report is for the name of the first span of the function.
spanlifecycleFirst ==
    inspect(ofKind("func"), {},
            [fn \in all |-> {m \in ofKind("make") :
                            /\ node(m).name \notin findDeferred(fn)
                            /\ \A k \in ofKind("make") \intersect below(fn) : m <= k}])

spanlifecycle ==
    inspect(ofKind("func"), {},
            [fn \in all |-> {m \in ofKind("make") : node(m).name \notin findDeferred(fn)}])

\* Mutant of isSpanFromContextVar: the names of the whole file.
isFileSpanFromContextVar(fn, name) == name \in names(ofKind("fromctx"))

isSpanFromContextVar(fn, name) == name \in names(ofKind("fromctx") \intersect below(fn))

spancontext ==
    inspect(ofKind("func"), {},
            [fn \in all |-> {c \in ofKind("call") \union ofKind("defer") :
                            node(c).name = "" \/ isSpanFromContextVar(fn, node(c).name)}])

-----------------------------------------------------------------------------
(* httpdecodeflag, repoerrorflags, grpcstatus, spanevents, spanerrors, validationflag *)

\* Mutant of httpdecodeflag: only the returns of the branch itself are looked at.
httpdecodeflagCut ==
    inspect(ofRole("if", {"decode"}), ofKind("if"),
            [i \in all |-> ofKind("return") \ ofRole("return", {"flagged"})])

\* A return without results is not flagged either; nor is one flagged inside another call.
httpdecodeflag ==
    inspect(ofRole("if", {"decode"}), {},
            [i \in all |-> ofKind("return") \ ofRole("return", {"flagged"})])

\* One flagged return below the statement is enough.
hasFlagInBody(i) == ofRole("return", {"flagged", "wrapped"}) \intersect below(i) /= {}

repoerrorflags ==
    inspect(ofRole("if", {"expected"}), {}, [i \in all |-> IF hasFlagInBody(i) THEN {} ELSE {i}])

grpcstatus ==
    inspect(ofRole("func", {"grpc"}), {},
            [fn \in all |-> ofKind("return") \ ofRole("return", {"empty", "nil", "status"})])

functions == ofKind("func") \union ofKind("lit")
around(n) == {f \in functions : n \in below(f)}

\* Mutant of hasContext: a literal does not inherit the context.
hasOwnContext(f) == node(f).role = "ctx"

\* hasCtx of walk: a parameter of the function or of one around it.
hasContext(f) == \E g \in around(f) \union {f} : node(g).role = "ctx"

\* Every literal is walked by a call of walk that its function's walk makes instead of
\* going into it; literals outside function declarations are not walked.
spanevents ==
    inspect({f \in functions : (around(f) \union {f}) \intersect ofKind("func") /= {}}, ofKind("lit"),
            [f \in all |-> IF hasContext(f) THEN ofKind("log") ELSE {}])

returnsError(fn) == ofRole("return", {"bare"}) \intersect below(fn) /= {}
createsSpan(fn) == ofKind("start") \intersect below(fn) /= {}
recordsError(fn) == ofKind("record") \intersect below(fn) /= {}

\* What a closure returns counts, the results of a call returned as they are do not.
spanerrors ==
    inspect(ofRole("func", {"error", "validate"}), {},
            [fn \in all |-> IF returnsError(fn) /\ createsSpan(fn) /\ ~recordsError(fn) THEN {fn} ELSE {}])

validationflag == inspect(ofRole("func", {"validate"}), {}, [fn \in all |-> ofRole("return", {"struct"})])

-----------------------------------------------------------------------------
(* timeinject, enumcast *)

\* The values of checkTimeNowAsValue are looked for in all of the file.
timeinject ==
    inspect(ofRole("func", {"clocked"}) \union ofRole("clock", {"value"}), {},
            [t \in all |-> IF t \in ofKind("clock") THEN {t} ELSE ofRole("clock", {"call"})])

funcHasSwitch(fn) == ofKind("switch") \intersect below(fn) /= {}
funcHasMapperMap(fn, enum) == \E t \in ofKind("table") \intersect below(fn) : node(t).name = enum

enumcast ==
    inspect({fn \in ofKind("func") \ ofRole("func", {"validate", "mapper"}) : ~funcHasSwitch(fn)}, {},
            [fn \in all |-> {c \in ofRole("cast", {"raw"}) : ~funcHasMapperMap(fn, node(c).name)}])

-----------------------------------------------------------------------------
jobOf(analyzer) ==
    CASE analyzer = "requiregoroutine" -> requiregoroutine
      [] analyzer = "subtestassert"    -> subtestassert
      [] analyzer = "contextcancel"    -> contextcancel
      [] analyzer = "spanlifecycle"    -> spanlifecycle
      [] analyzer = "spancontext"      -> spancontext
      [] analyzer = "httpdecodeflag"   -> httpdecodeflag
      [] analyzer = "repoerrorflags"   -> repoerrorflags
      [] analyzer = "grpcstatus"       -> grpcstatus
      [] analyzer = "spanevents"       -> spanevents
      [] analyzer = "spanerrors"       -> spanerrors
      [] analyzer = "validationflag"   -> validationflag
      [] analyzer = "timeinject"       -> timeinject
      [] analyzer = "enumcast"         -> enumcast
      [] OTHER                         -> inspect({}, {}, [n \in all |-> {}])

-----------------------------------------------------------------------------
(* What the names stand for *)

\* A name means the last definition before it in a scope around it.
scopes(n) == {s \in functions \union ofKind("if") : n \in below(s)}
definitions == ofKind("define") \union ofKind("make") \union ofKind("fromctx")
binding(n) == Max({0} \union {d \in definitions : /\ d < n
                                                  /\ node(d).name = node(n).name
                                                  /\ scopes(d) \subseteq scopes(n)})

\* What the parser and the type checker let through.  Functions are declared outside
\* functions, the other statements are inside one, at the least inside a literal.  A
\* span or a cancel function is no testify object, no type and no table.
IsFile ==
    /\ \A f \in ofKind("func") : around(f) = {}
    /\ \A n \in ofKind("return") \union definitions : around(n) /= {}
    /\ \A d \in definitions : node(d).name /= ""
    /\ \A n \in all \ definitions :
          binding(n) \in ofKind("make") \union ofKind("fromctx") =>
              node(n).kind \in {"call", "defer", "discard", "mention"}
    /\ \A l \in ofKind("lit") :
          node(l).role \in {"deferred", "cleanup", "subtest", "T", "bench", "ctx", "plain"}
    /\ \A n \in all : node(n).role \in {"grpc", "validate"} => node(n).kind = "func"
    /\ \A n \in ofKind("clock") : node(n).role \in {"call", "value"}

-----------------------------------------------------------------------------
(* Properties *)

finished(analyzer) == pass.analyzer = analyzer /\ applies /\ WalkDone
reported == {r[2] : r \in reports}
timesReported(n) == Cardinality({r \in reports : r[2] = n})

\* A deferred closure runs where the function around it returns, a closure that is
\* handed to anything but Cleanup and Run runs wherever it is called.
OffTestGoroutine(n) ==
    LET closures == (around(n) \intersect ofKind("lit")) \ ofRole("lit", {"deferred"}) IN
    closures /= {} /\ node(Max(closures)).role \in {"plain", "ctx"}

\* Every fatal call that runs off the test goroutine is reported, in a deferred closure
\* inside a goroutine too; and no call is reported that has no such closure around it.
OffGoroutineReported ==
    finished("requiregoroutine") =>
        /\ {n \in ofKind("fatal") : OffTestGoroutine(n)} \subseteq reported
        /\ \A n \in reported : \E l \in around(n) : node(l).role \in {"plain", "ctx"}

\* Whose subtest a node is in: the innermost literal that takes a testing.T.
subtestOf(n) == Max({0} \union (around(n) \intersect ofRole("lit", {"subtest", "T"})))

\* However subtests are nested, a use is examined once, in its own subtest.  An assertion
\* object of the outer test is reported unless its name is defined or assigned to inside
\* the subtest; one the subtest made itself, in a variable of its own or in the outer
\* one, only if a field holds it.
OuterAssertionsReported ==
    finished("subtestassert") =>
        \A u \in ofKind("use") :
            LET t == subtestOf(u)
                inside == t /= 0 /\ node(t).role = "subtest"
                namesake == \E d \in (ofKind("define") \union ofKind("assign")) \intersect below(t) :
                               node(d).name = node(u).name
                remade == \E a \in ofKind("assign") \intersect below(t) :
                             node(a).name = node(u).name /\ binding(a) = binding(u)
            IN  /\ timesReported(u) <= 1
                /\ inside /\ binding(u) < t /\ ~namesake => u \in reported
                /\ u \in reported => inside /\ ((binding(u) < t /\ ~remade) \/ node(u).role = "field")

\* Nobody but a discard uses the cancel function, or the span is not ended by a defer.
unreleased(m, uses) == \A n \in ofKind("defer") \union uses : binding(n) /= m

\* No other thing in the function has the name of m.
onlyNamed(fn, m) ==
    \A n \in below(fn) \ {m} : node(n).name = node(m).name => n \notin definitions /\ binding(n) = m

\* What is reported is lost, and what is lost is reported unless the function uses
\* its name for something else: a second cancel function of that name, in any scope.
LostCancelsReported ==
    finished("contextcancel") =>
        \A fn \in ofKind("func") : \A m \in ofKind("make") \intersect below(fn) :
            LET lost == unreleased(m, ofKind("call") \union ofKind("mention")) IN
            /\ m \in reported => lost
            /\ lost /\ onlyNamed(fn, m) => m \in reported

\* The function a return leaves.
leaves(r) == Max(around(r))

\* spanlifecycle: the same for spans that no defer ends.  spancontext: whoever ends a
\* span that came from the context is reported, whatever scope of the function it is in.
\* spanerrors: so is a function that creates a span, returns an error itself and records
\* none, and no other that records or returns none.
SpanFaultsReported ==
    /\ finished("spanlifecycle") =>
          \A fn \in ofKind("func") : \A m \in ofKind("make") \intersect below(fn) :
              /\ m \in reported => unreleased(m, {})
              /\ unreleased(m, {}) /\ onlyNamed(fn, m) => m \in reported
    /\ finished("spancontext") =>
          \A fn \in ofKind("func") : \A c \in (ofKind("call") \union ofKind("defer")) \intersect below(fn) :
              binding(c) \in ofKind("fromctx") => c \in reported
    /\ finished("spanerrors") =>
          \A fn \in ofRole("func", {"error"}) :
              LET inside(kind) == ofKind(kind) \intersect below(fn)
                  errors == {r \in ofRole("return", {"bare"}) : leaves(r) = fn}
              IN  /\ inside("start") /= {} /\ errors /= {} /\ inside("record") = {} => fn \in reported
                  /\ fn \in reported => inside("record") = {} /\ inside("return") /= {}

\* A function that ends every span it starts by a defer and none of the context's gets
\* no report from either analyzer, unless it gives one name to two of its spans: the
\* functions beside it may do as they like.
CorrectFunctionSilent ==
    pass.analyzer \in {"spanlifecycle", "spancontext"} /\ WalkDone =>
        \A fn \in ofKind("func") :
            LET ends == (ofKind("call") \union ofKind("defer")) \intersect below(fn)
                spans == definitions \intersect below(fn)
                correct == /\ \A m \in spans \intersect ofKind("make") : ~unreleased(m, {})
                           /\ \A e \in ends : binding(e) \in ofKind("make")
            IN  correct /\ Cardinality(names(spans)) = Cardinality(spans) =>
                    reported \intersect below(fn) = {}

\* No unflagged error leaves the handler from the branch of a failed decode, however deep
\* in it the return is, or a gRPC method without a status, or Validate with what
\* ValidateStruct found, unreported; an expected error is reported where no return of
\* its branch flags it.
UnflaggedReturnsReported ==
    /\ finished("httpdecodeflag") =>
          \A r \in ofRole("return", {"bare", "wrapped"}) :
              (\E i \in ofRole("if", {"decode"}) : r \in below(i)) => r \in reported
    /\ finished("grpcstatus") =>
          \A r \in ofRole("return", {"bare", "flagged", "wrapped"}) :
              node(leaves(r)).role = "grpc" => r \in reported
    /\ finished("validationflag") =>
          \A r \in ofRole("return", {"struct"}) :
              node(leaves(r)).role = "validate" => r \in reported
    /\ finished("repoerrorflags") =>
          \A i \in ofRole("if", {"expected"}) :
              (\A r \in ofKind("return") : r \in below(i) => node(r).role = "bare") => i \in reported

\* What is reported is reported once, however deep in closures it is.  A log call exactly
\* if its function or one around it takes a context: boot code is left alone, closures
\* inside a handler are not.  A clock read in the methods of a type with an injected
\* clock, and time.Now as a value anywhere, at package level too.  A conversion of a raw
\* string to an enum, unless its function maps to that very enum or has a switch.
CallsReportedOnce ==
    LET top(n) == around(n) \intersect ofKind("func")
        role(n) == {node(f).role : f \in top(n)}
        once(n, expected) == timesReported(n) = IF expected THEN 1 ELSE 0
    IN
    /\ finished("spanevents") =>
          \A n \in ofKind("log") :
              once(n, top(n) /= {} /\ \E f \in around(n) : node(f).role = "ctx")
    /\ finished("timeinject") =>
          \A n \in ofKind("clock") : once(n, node(n).role = "value" \/ role(n) = {"clocked"})
    /\ finished("enumcast") =>
          \A n \in ofKind("cast") :
              LET checks == {c \in ofKind("switch") \union ofKind("table") :
                                top(c) = top(n) /\ (node(c).kind = "switch" \/ node(c).name = node(n).name)}
                  examined == top(n) /= {} /\ role(n) \intersect {"validate", "mapper"} = {}
              IN  once(n, node(n).role = "raw" /\ examined /\ checks = {})
=============================================================================

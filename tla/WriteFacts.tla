------------------------------ MODULE WriteFacts ------------------------------
(* writegate over a whole program.  The driver analyses a package after the packages  *)
(* it imports and hands the facts of one pass (dbWriteFact) to the later ones; what a *)
(* single pass marks, whatever order its maps come in, is the subject of WriteGate.   *)
EXTENDS Naturals

CONSTANTS
    Function,       \* functions, methods and interface methods
    Package,
    WholePrograms   \* the programs of the instance

(* A program has                                                                      *)
(*   home      the package a function is declared in                                  *)
(*   service   the packages the analyzer does not leave alone (IsServicePackage)      *)
(*   imports   <<p, q>>: p needs q, at first hand or through others                   *)
(*   writes    the functions that call a write of observability/sql                   *)
(*   calls     <<f, g>>: f calls g                                                    *)
(*   impls     for each package the pairs <<m, i>> of a method and the method it      *)
(*             implements of an interface type declared in that package; i belongs to *)
(*             another package if the interface type embeds one of there              *)
WholeProgram ==
    [home    : [Function -> Package],
     service : SUBSET Package,
     imports : SUBSET (Package \X Package),
     writes  : SUBSET Function,
     calls   : SUBSET (Function \X Function),
     impls   : [Package -> SUBSET (Function \X Function)]]

\* A call needs the package of what it calls: Go programs that build are such.
ASSUME WholeProgramsAssumption ==
    /\ WholePrograms \subseteq WholeProgram
    /\ \A w \in WholePrograms : \A c \in w.calls :
          w.home[c[1]] = w.home[c[2]] \/ <<w.home[c[1]], w.home[c[2]]>> \in w.imports

VARIABLES
    program,
    analysed,       \* the packages the driver is done with
    facts           \* the functions with a dbWriteFact

driver == <<program, analysed, facts>>

FactsInit ==
    /\ program \in WholePrograms
    /\ analysed = {}
    /\ facts = {}

own(p) == {f \in Function : program.home[f] = p}

\* Mutant of MarksClosed: an interface method is marked whether or not a method that
\* implements it is.
MarksClosedImplementing(p, M) ==
    /\ own(p) \intersect program.writes \subseteq M
    /\ \A c \in program.calls : c[1] \in own(p) /\ c[2] \in M \union facts => c[1] \in M
    /\ \A m \in program.impls[p] : m[1] \in own(p) => m[2] \in M

\* M holds what a pass over p marks, given the facts of the packages before it: the
\* functions of p that write or call a function marked or with a fact, and what the
\* marked methods implement.
MarksClosed(p, M) ==
    /\ own(p) \intersect program.writes \subseteq M
    /\ \A c \in program.calls : c[1] \in own(p) /\ c[2] \in M \union facts => c[1] \in M
    /\ \A m \in program.impls[p] : m[1] \in M => m[2] \in M

\* The loop of run ends with the least such set (WriteGate).
marksOf(p) == {f \in Function : \A M \in SUBSET Function : MarksClosed(p, M) => f \in M}

\* A fact is exported for a function of the package itself; the marks of other packages'
\* interface methods end with the pass.
factsOf(p) == IF p \in program.service THEN marksOf(p) \intersect own(p) ELSE {}

\* Mutant of importsOf: the driver takes the packages as they come.
importsOfNone(p) == {}

importsOf(p) == {q \in Package : <<p, q>> \in program.imports}

AnalysePackage(p) ==
    /\ p \notin analysed
    /\ importsOf(p) \subseteq analysed
    /\ analysed' = analysed \union {p}
    /\ facts' = facts \union factsOf(p)
    /\ UNCHANGED program

FactsNext == \E p \in Package : AnalysePackage(p)

\* In the run of another analyzer.
FactsIdle ==
    /\ program = [home    |-> [f \in Function |-> CHOOSE p \in Package : TRUE],
                  service |-> {}, imports |-> {}, writes |-> {}, calls |-> {},
                  impls   |-> [p \in Package |-> {}]]
    /\ analysed = Package
    /\ facts = {}

FactsSpec == FactsInit /\ [][FactsNext]_driver

-----------------------------------------------------------------------------
(* Properties *)

\* S holds every function of the program from which a write can be reached, by calls and
\* through interfaces, in whatever packages.
Reaching(S) ==
    /\ program.writes \subseteq S
    /\ \A c \in program.calls : c[2] \in S => c[1] \in S
    /\ \A p \in Package : \A m \in program.impls[p] : m[1] \in S => m[2] \in S

\* A fact is never spurious, however many packages it has come through: no function has
\* one from which no write can be reached in the whole program.
FactsJustified == \A f \in facts : \A S \in SUBSET Function : Reaching(S) => f \in S

\* What a pass over a package can mark at all.
markable == {m \in Package \X Function : m[2] \in own(m[1]) \/ \E i \in program.impls[m[1]] : i[2] = m[2]}

\* S holds, as pairs of a package and a function, what the passes over all packages mark
\* if each looks at its own functions and takes from the others what is theirs.
Agreed(S) ==
    \A p \in program.service :
        /\ \A f \in own(p) \intersect program.writes : <<p, f>> \in S
        /\ \A c \in program.calls :
              c[1] \in own(p) /\ (<<p, c[2]>> \in S \/ <<program.home[c[2]], c[2]>> \in S) => <<p, c[1]>> \in S
        /\ \A m \in program.impls[p] : <<p, m[1]>> \in S => <<p, m[2]>> \in S

\* Once all packages are analysed the facts are the functions marked in their own package
\* by any such agreement: they do not depend on the order of the passes, and nothing is
\* lost on the way from package to package but the marks of other packages' interfaces
\* and what goes through a package the analyzer leaves alone.
FactsWhateverOrder ==
    analysed = Package =>
        facts = {f \in Function : \A S \in SUBSET markable :
                    Agreed(S) => <<program.home[f], f>> \in S}
=============================================================================

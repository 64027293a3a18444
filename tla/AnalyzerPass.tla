----------------------------- MODULE AnalyzerPass -----------------------------
(* What the driver runs: an analyzer that walks a file (FileAnalyzers), oteltags at    *)
(* the types of its fields (AttrTypes), or writegate at one package after the other   *)
(* (WriteFacts).                                                                      *)
EXTENDS FileAnalyzers, AttrTypes, WriteFacts

Init ==
    /\ \E analyzer \in DOMAIN Passes : pass \in Passes[analyzer]
    /\ IsFile
    /\ job = jobOf(pass.analyzer)
    /\ WalkInit
    /\ IF pass.analyzer = "oteltags" /\ IsMoovPackage /\ ~pass.test
       THEN AttrInit
       ELSE AttrIdle
    /\ IF pass.analyzer = "writegate" THEN FactsInit ELSE FactsIdle

Walk == WalkNext /\ UNCHANGED <<pass, attr, driver>>

Attr == AttrNext /\ UNCHANGED <<vars, driver>>

Facts == FactsNext /\ UNCHANGED <<vars, attr>>

Over == WalkDone /\ phase \in {"idle", "done"} /\ analysed = Package

Finished == Over /\ UNCHANGED <<vars, attr, driver>>

Next == Walk \/ Attr \/ Facts \/ Finished

\* A run goes on until it returns.
Spec == /\ Init
        /\ [][Next]_<<vars, attr, driver>>
        /\ WF_<<vars, attr, driver>>(Walk \/ Attr \/ Facts)

-----------------------------------------------------------------------------
(* Properties *)

\* Whatever the file and its types, a run comes to its end, in spite of walks that start
\* again below each of their own triggers and types that contain themselves; the
\* exception is a type with one in it that is nothing but a pointer to itself (type P *P).
RunsEnd == <>(Over \/ (phase = "walk" /\ pointsToItself(field.type)))
=============================================================================

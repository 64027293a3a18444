------------------------------ MODULE AttrTypes ------------------------------
(* oteltags: whether the type of a tagged field makes a span attribute.  The walk     *)
(* goes down the type as the type checker gives it, which may lead back to itself.    *)
EXTENDS Naturals, FiniteSets

CONSTANT Fields     \* the fields of the instance

(* A field has                                                                        *)
(*   embedded  whether it has no name of its own                                      *)
(*   tag       what its otel tag holds: skip, omitempty, upper (not snake case)       *)
(*   type      its type, an element of the domain of types                            *)
(*   types     for each type its kind, what it is made of and its methods             *)
(* Kinds are named (made of its underlying type, never named itself), pointer, slice, *)
(* array, map, struct, alias and basic (and all the others).  Methods of a named type *)
(* are time (it is time.Time), value and pointer (AttributeString or Value), and      *)
(* traces and ptrTraces (TraceAttributes), the first of each in the method set of the *)
(* type, the second, with a pointer receiver, only in that of a pointer to it.        *)

\* The kinds of types made of one other type that a value holds values of.
containers == {"named", "pointer", "slice", "array"}

\* Types as the type checker gives them; time.Time is a struct.
ASSUME FieldsAssumption ==
    \A f \in Fields :
        /\ f.tag \subseteq {"skip", "omitempty", "upper"}
        /\ IsFiniteSet(DOMAIN f.types) /\ f.type \in DOMAIN f.types
        /\ \A t \in DOMAIN f.types : LET made == f.types[t] IN
              /\ made.kind \in containers \union {"map", "struct", "alias", "basic"}
              /\ made.kind \in containers => made.elem \in DOMAIN f.types
              /\ made.kind = "named" /\ "time" \in made.methods => f.types[made.elem].kind = "struct"

VARIABLES
    field,      \* the field
    phase,      \* strip (isTimeType), walk (isBadAttrType), done, or idle
    type,       \* the type the loop or the call is at
    depth,      \* the depth parameter of isBadAttrType
    faults      \* what is reported of the field

attr == <<field, phase, type, depth, faults>>

kindOf(t) == field.types[t].kind
elem(t) == field.types[t].elem
has(t, method) == kindOf(t) = "named" /\ method \in field.types[t].methods
pointsTo(t, method) == kindOf(t) = "pointer" /\ has(elem(t), method)

AttrInit ==
    /\ field \in Fields
    /\ faults = IF "skip" \in field.tag THEN {} ELSE field.tag
    /\ phase = IF field.embedded \/ "skip" \in field.tag THEN "done" ELSE "strip"
    /\ type = field.type
    /\ depth = 0

\* In the run of another analyzer.
AttrIdle ==
    /\ field = [type |-> 0]
    /\ phase = "idle"
    /\ type = 0
    /\ depth = 0
    /\ faults = {}

\* isTimeType takes every pointer off.
StripPointer ==
    /\ phase = "strip"
    /\ kindOf(type) = "pointer"
    /\ type' = elem(type)
    /\ UNCHANGED <<field, phase, depth, faults>>

\* The pointer type has the methods of both receivers.
implementsScalar(t) == has(t, "value") \/ pointsTo(t, "value") \/ pointsTo(t, "pointer")

\* LookupFieldOrMethod looks behind a pointer, where it finds the methods of both receivers.
LookupTraceAttributes(t) ==
    has(t, "traces") \/ pointsTo(t, "traces") \/ pointsTo(t, "ptrTraces")

\* Mutant of definesTraceAttributes: no pointer is taken off before the lookup.
definesTraceAttributesItself(t) == LookupTraceAttributes(t)

\* One pointer is taken off, another one by the lookup.
definesTraceAttributes(t) ==
    LookupTraceAttributes(IF kindOf(t) = "pointer" THEN elem(t) ELSE t)

ExemptOrWalk ==
    /\ phase = "strip"
    /\ kindOf(type) /= "pointer"
    /\ type' = field.type
    /\ phase' = IF \/ has(type, "time")
                   \/ implementsScalar(field.type)
                   \/ definesTraceAttributes(field.type)
                THEN "done" ELSE "walk"
    /\ UNCHANGED <<field, depth, faults>>

\* The Named and Pointer cases, in which a struct is bad.
isStruct(t) == kindOf(t) = "named" /\ kindOf(elem(t)) = "struct"

bad == \/ depth > 2
       \/ isStruct(type)
       \/ kindOf(type) = "map"
       \/ kindOf(type) = "pointer" /\ isStruct(elem(type))

\* No case of the switch: an alias and a struct without a name too.
good == ~bad /\ kindOf(type) \in {"basic", "struct", "alias"}

Conclude ==
    /\ phase = "walk"
    /\ bad \/ good
    /\ phase' = "done"
    /\ faults' = faults \union (IF bad THEN {"type"} ELSE {})
    /\ UNCHANGED <<field, type, depth>>

\* Mutant of Descend: slices do not count.
DescendUncounted ==
    /\ phase = "walk"
    /\ ~bad /\ ~good
    /\ type' = elem(type)
    /\ UNCHANGED <<field, phase, depth, faults>>

\* The recursive call.
Descend ==
    /\ phase = "walk"
    /\ ~bad /\ ~good
    /\ type' = elem(type)
    /\ depth' = depth + (IF kindOf(type) \in {"slice", "array"} THEN 1 ELSE 0)
    /\ UNCHANGED <<field, phase, faults>>

AttrNext == StripPointer \/ ExemptOrWalk \/ Conclude \/ Descend

-----------------------------------------------------------------------------
(* Properties *)

\* The types that a value of type t holds without a key or a field name in between.
closed(S) == \A s \in S : kindOf(s) \in containers => elem(s) \in S
heldBy(t) == {s \in DOMAIN field.types :
                 \A S \in SUBSET DOMAIN field.types : t \in S /\ closed(S) => s \in S}
lists(t) == {s \in heldBy(t) : kindOf(s) \in {"slice", "array"}}
cycle(t) == {s \in heldBy(t) : kindOf(s) \in containers /\ s \in heldBy(elem(s))}
pointsToItself(t) == cycle(t) /= {} /\ cycle(t) \intersect lists(t) = {}

\* The type has a conversion of its own: it is time.Time behind pointers, or it or what
\* it points to has a method that makes an attribute, or it points to a pointer to a
\* type with TraceAttributes, whatever its receiver.
ownAttributes(t) ==
    \/ \E m \in {"time", "value", "traces"} : has(t, m) \/ pointsTo(t, m)
    \/ pointsTo(t, "pointer")
    \/ kindOf(t) = "pointer" /\ \E m \in {"traces", "ptrTraces"} : pointsTo(elem(t), m)
    \/ \E s \in heldBy(t) : /\ has(s, "time")
                            /\ \A r \in heldBy(t) : s \in heldBy(r) /\ s /= r => kindOf(r) = "pointer"

\* No number of attributes is enough: a map, a named struct, three levels of lists, or
\* lists without end.
unbounded(t) ==
    \/ \E s \in heldBy(t) : kindOf(s) = "map" \/ isStruct(s)
    \/ Cardinality(lists(t)) > 2
    \/ cycle(t) \intersect lists(t) /= {}

\* A field is reported for its type exactly if a map, a named struct, three levels of
\* lists or lists without end are in it, behind whatever names and pointers, and the
\* type is none that records attributes of its own.
AttrVerdictExact ==
    phase = "done" =>
        ("type" \in faults <=> /\ ~field.embedded /\ "skip" \notin field.tag
                              /\ ~ownAttributes(field.type) /\ unbounded(field.type))
=============================================================================

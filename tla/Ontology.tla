------------------------------ MODULE Ontology ------------------------------
(***************************************************************************)
(* ontology.rs: a connector's mapping checked at boot against the vendored  *)
(* ontology.  A type is its namespace and a name.  "Core does not inherit   *)
(* attributes", so only the type's own list counts.                         *)
(***************************************************************************)
EXTENDS Integers, Sequences, FiniteSets

CONSTANTS
  MimTypes,   \* the attributes each type of the vendored ontology declares
  Vocabulary  \* the values of the attributes that have a closed set of them

OperatorNamespace(type) == type.ns # "mim"
KnowsType(type) == OperatorNamespace(type) \/ type \in DOMAIN MimTypes
Governs(type, attribute) ==
  OperatorNamespace(type) \/ (type \in DOMAIN MimTypes /\ attribute \in MimTypes[type])

\* The attributes of an event that its own type does not declare.
Ungoverned(event) == {a \in event.keys : ~Governs(event.entity, a)}

CheckType(declared) ==
  IF declared.entity.ns = "x" \/ declared.entity \in DOMAIN MimTypes THEN {}
  ELSE {<<"UnknownEntityType", declared.entity>>}
\* check: every fault of a declared mapping, or the unknown type alone.
Check(declared) ==
  LET type == declared.entity
      allowed == MimTypes[type]
  IN  CASE type.ns = "x" -> {}
        [] type.ns # "x" /\ type \notin DOMAIN MimTypes -> {<<"UnknownEntityType", type>>}
        [] OTHER ->
             {<<"UnknownAttribute", a>> : a \in declared.attributes \ allowed}
             \cup {<<"NotInVocabulary", f>> : f \in
                     {g \in declared.fixed_values :
                        /\ g[1] \in allowed \cap DOMAIN Vocabulary
                        /\ g[2] \notin Vocabulary[g[1]]}}

\* enforce: "refuse to start on any fault".
Enforce(declared) == Check(declared) = {}
=============================================================================

------------------------------- MODULE Render -------------------------------
(***************************************************************************)
(* generic-egress: a governed event rendered as the consumer's JSON object *)
(* through a mapping of consumer field names to event paths.  The object   *)
(* is the function from its field names to the set of event paths whose    *)
(* values each field carries; inserting under a name that is taken         *)
(* replaces, as serde_json's Map does.                                     *)
(***************************************************************************)
CONSTANTS Attributes,   \* attribute keys
          Metadata      \* metadata keys

Attr(a) == <<"attr", a>>
Meta(m) == <<"meta", m>>
Field(f) == <<"field", f>>
Always == {Field(f) : f \in {"id", "source_id", "entity_type", "timestamp",
                             "confidence", "policy_tags"}}
Position == {Field(f) : f \in {"lat", "lon", "alt_m"}}

\* What render adds of its own.
Verified == <<"added", "governance">>
Label == <<"added", "label">>

\* validate_path: the paths a mapping may name.
Paths == Always \cup Position \cup {Attr(a) : a \in Attributes}
                \cup {Meta(m) : m \in Metadata}

\* An event: which optional parts it carries.  Keys are unique (EventBuilder).
Events == [attributes : SUBSET Attributes, metadata : SUBSET Metadata,
           located : BOOLEAN, classified : BOOLEAN]

AttrsOf(e) == {Attr(a) : a \in e.attributes} \cup {Meta(m) : m \in e.metadata}

\* lookup finds something at the path.
Carries(e, path) ==
  \/ path \in Always
  \/ path \in Position /\ e.located
  \/ path \in AttrsOf(e)

Insert(object, name, value) ==
  [n \in DOMAIN object \cup {name} |-> IF n = name THEN value ELSE object[n]]
InsertIf(object, guard, name, value) ==
  IF guard THEN Insert(object, name, value) ELSE object

PathsOf(fields) == {fields[n] : n \in DOMAIN fields}

\* The fields of the mapping that the event has a value for.
Mapped(e, fields) ==
  [n \in {m \in DOMAIN fields : Carries(e, fields[m])} |-> {fields[n]}]

\* Then the id and the tags under their own names unless the mapping names their
\* paths, and the governance block.
Governed(e, fields) ==
  LET withId == InsertIf(Mapped(e, fields), Field("id") \notin PathsOf(fields),
                         "event_id", {Field("id")})
      withTags == InsertIf(withId, Field("policy_tags") \notin PathsOf(fields),
                           "policy_tags", {Field("policy_tags")})
  IN  Insert(withTags, "governance", {Verified})

\* confidentiality_label: Some exactly for an event with a class: tag.
Labelled(object, e, label) ==
  InsertIf(object, label /\ e.classified, "confidentiality_label", {Label})

\* The attributes and metadata no path of the mapping names.
ExtraAttributes(e, fields) == {Attr(a) : a \in e.attributes} \ PathsOf(fields)
Extra(e, fields) == AttrsOf(e) \ PathsOf(fields)

\* render: None when unmapped content is to be refused, or the object.
Refuses(e, c) == c.unmapped = "refuse" /\ Extra(e, c.fields) # {}
Render(e, c) ==
  InsertIf(Labelled(Governed(e, c.fields), e, c.label),
           Extra(e, c.fields) # {}, "unmapped", Extra(e, c.fields))
-----------------------------------------------------------------------------
\* The names render uses itself.
Reserved == {"event_id", "policy_tags", "governance", "confidentiality_label",
             "unmapped"}

\* A mapping, unmapped mode and label that Config::validate accepts.
ValidConfig(c) ==
  /\ DOMAIN c.fields # {} /\ c.fields \in [DOMAIN c.fields -> Paths]
  /\ c.unmapped \in {"include", "refuse"}
  /\ c.label \in BOOLEAN

\* Everything an object carries, at top level or under `unmapped`.
Content(object) == UNION {object[n] : n \in DOMAIN object}
=============================================================================

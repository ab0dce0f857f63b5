------------------------------ MODULE Marking ------------------------------
(***************************************************************************)
(* marking.rs: the operator's [marking] block, stamped on every event       *)
(* before it is sealed.  A tag is a field with a word, or with a level for  *)
(* a class tag; a level is a place in LEVELS, or UnknownLevel where the     *)
(* spelling is not one.                                                     *)
(***************************************************************************)
EXTENDS Integers, Sequences, FiniteSets, SequencesExt

CONSTANT MaxConfigTags   \* MAX_CONFIG_TAGS

Levels == 0 .. 4
TopSecret == 4
UnknownLevel == -1
NoToken == "none"
Tag(field, word) == [field |-> field, level |-> 0, word |-> word]
ClassTag(level) == [field |-> "class", level |-> level, word |-> ""]
\* A `class:` tag whose value classification_level knows.
Ranked(tag) == tag.field = "class" /\ tag.level \in Levels

\* token: refused unless it is a short word of letters, digits, '-' and '_'.
GoodToken(value) == value # "bad token"
TagsOf(field, values) == [k \in DOMAIN values |-> Tag(field, values[k])]
\* push: a tag already there is not repeated.
PushNew(tags, tag) == IF tag \in ToSet(tags) THEN tags ELSE Append(tags, tag)

\* Marking::from_config: class, policy, rel and caveat tags in this order.  An
\* absent classification or policy is the empty sequence.
ConfigTags(cfg) ==
  FoldLeft(PushNew, <<>>,
    [k \in DOMAIN cfg.classification |-> ClassTag(cfg.classification[k])]
      \o TagsOf("policy", cfg.policy) \o TagsOf("rel", cfg.releasable_to)
      \o TagsOf("caveat", cfg.caveats))
ConfigAccepted(cfg) ==
  /\ ToSet(cfg.classification) \subseteq Levels
  /\ \A value \in ToSet(cfg.policy \o cfg.releasable_to \o cfg.caveats) : GoodToken(value)
  /\ Len(ConfigTags(cfg)) \in 1 .. MaxConfigTags

ApplyFloor(marking, tags) == marking \o SelectSeq(tags, LAMBDA t : t \notin ToSet(marking))
\* Marking::apply: the highest of the floor and the ranked tags, where the first of
\* these was; then what else is configured and not there yet.
Apply(marking, tags) ==
  LET floor == {t.level : t \in {u \in ToSet(marking) : Ranked(u)}}
      ranked == {k \in DOMAIN tags : Ranked(tags[k])}
      highest == Max(floor \cup {tags[k].level : k \in ranked})
      rest == SelectSeq(tags, LAMBDA t : ~Ranked(t))
      first == IF ranked = {} THEN 1 ELSE Min(ranked)
      at == IF first > Len(rest) + 1 THEN Len(rest) + 1 ELSE first
      resolved == IF floor = {} THEN tags ELSE InsertAt(rest, at, ClassTag(highest))
  IN  FoldLeft(PushNew, resolved, SelectSeq(marking, LAMBDA t : t.field # "class"))

\* wire_classification of a STANAG 4774 label.  One that is not a level is stamped
\* at the top; a stated policy that can be a tag wins over the one the label names.
WireClassification(label, policy_id) ==
  IF label.blank THEN <<>>
  ELSE LET level == IF label.level \in Levels THEN label.level ELSE TopSecret
           policy == IF policy_id # NoToken /\ GoodToken(policy_id) THEN <<policy_id>>
                     ELSE IF label.nato THEN <<"NATO">> ELSE <<>>
       IN  <<ClassTag(level)>> \o TagsOf("policy", policy)
-----------------------------------------------------------------------------
\* The tags t that marking m leaves on an event that had the tags `wire`.
Stamped(m, wire, t) ==
  LET class(tags) == {k \in DOMAIN tags : Ranked(tags[k])}
      other(tags) == SelectSeq(tags, LAMBDA u : ~Ranked(u))
      levels == {u.level : u \in {w \in ToSet(m \o wire) : Ranked(w)}}
  IN  /\ class(m) # {} => \E k \in class(t) :
                            class(t) = {k} /\ \A l \in levels : t[k].level >= l
      /\ {t[k].level : k \in class(t)} \subseteq levels
      /\ class(m) = {} => SubSeq(t, 1, Len(wire)) = wire
      /\ IsPrefix(other(wire), other(t))
      /\ ToSet(other(t)) = ToSet(other(wire)) \cup ToSet(other(m))
      /\ IsInjective(wire) => IsInjective(t)
=============================================================================

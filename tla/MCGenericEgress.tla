-------------------------- MODULE MCGenericEgress ---------------------------
\* The generic egress relay on small instances.
EXTENDS GenericEgress, TLC

Bare == [attributes |-> {}, metadata |-> {}, located |-> FALSE, classified |-> TRUE]
Full == [attributes |-> {"speed"}, metadata |-> {"uid"}, located |-> TRUE,
         classified |-> TRUE]
Noted == [attributes |-> {}, metadata |-> {"uid"}, located |-> TRUE,
          classified |-> FALSE]
MCEventOf == "e1" :> Bare @@ "e2" :> Full @@ "e3" :> Noted @@ "f1" :> Bare

Maps(fields, unmapped) == [fields |-> fields, unmapped |-> unmapped, label |-> TRUE]
MCConfigs ==
  {Maps("lat" :> Field("lat"), "include"),
   Maps("v" :> Attr("speed"), "refuse"),
   Maps("uid" :> Field("id") @@ "marks" :> Field("policy_tags"), "include")}

\* Mappings onto a name render writes itself.
MCClashing == {Maps("governance" :> Field("id"), "include")}
=============================================================================

------------------------------- MODULE MCRPM -------------------------------
(***************************************************************************)
(* Model-checking instance of RPM: two analog inputs and one analog value, *)
(* an instance beyond each table, and the ReadPropertyMultiple requests   *)
(* built from them.                                                        *)
(***************************************************************************)
EXTENDS RPM

AI(i) == <<"ANALOG_INPUT", i>>
AV(i) == <<"ANALOG_VALUE", i>>
BadObject == <<"MALFORMED", 0>>

Spec1(p) == [prop |-> p, idx |-> BACNET_ARRAY_ALL]
Spec2(p, i) == [prop |-> p, idx |-> i]

(* Property specifiers: individual ones for every object, the special     *)
(* ones for analog inputs (the only objects with property lists), and an  *)
(* undecodable one.                                                        *)
IndividualSpecs ==
  {Spec1("PRESENT_VALUE"), Spec2("PRESENT_VALUE", 1), Spec1("UNITS"), Spec1("DESCRIPTION")}
SpecialSpecs ==
  {Spec1("ALL"), Spec1("REQUIRED"), Spec1("OPTIONAL"), Spec2("ALL", 1)}
BadSpec == Spec1("MALFORMED")

SpecsFor(obj) ==
  IndividualSpecs \cup {BadSpec} \cup (IF obj[1] = "ANALOG_INPUT" THEN SpecialSpecs ELSE {})

Objects == {AI(0), AI(MaxAI), AV(0), AV(MaxAV)}

(* One object group with one or two specifiers.                           *)
Groups ==
  UNION {{[obj |-> o, specs |-> <<s>>] : s \in SpecsFor(o)}
         \cup {[obj |-> o, specs |-> <<s, t>>] : s, t \in SpecsFor(o)} : o \in Objects}

(* Requests: the empty one, one group, a malformed object id, and two     *)
(* groups of one specifier each.                                          *)
OneSpecGroups == {g \in Groups : Len(g.specs) = 1}
SecondGroups ==
  {[obj |-> AI(0), specs |-> <<Spec1("ALL")>>],
   [obj |-> AV(0), specs |-> <<Spec1("PRESENT_VALUE")>>],
   [obj |-> AI(MaxAI), specs |-> <<Spec1("PRESENT_VALUE")>>],
   [obj |-> BadObject, specs |-> <<Spec1("PRESENT_VALUE")>>]}
MCRequests ==
  {<<>>}
  \cup {<<g>> : g \in Groups}
  \cup {<<[obj |-> BadObject, specs |-> <<Spec1("PRESENT_VALUE")>>]>>}
  \cup {<<g, h>> : g \in OneSpecGroups, h \in SecondGroups}

(* The objects' state without the history of the last written property,  *)
(* which only the refinement mapping reads.                                *)
ObjectStateView == <<Present_Value, Out_Of_Service, Units, AV_Present_Value, wpResult>>
====

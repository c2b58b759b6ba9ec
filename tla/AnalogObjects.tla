--------------------------- MODULE AnalogObjects ---------------------------
(***************************************************************************)
(* The analog input objects of src/ports/xplained/ai.c and the analog     *)
(* value objects of src/ports/arduino_uno/av.c: their property stores,     *)
(* the WriteProperty handlers a client reaches, the setters the            *)
(* application calls, and the read functions the ReadPropertyMultiple     *)
(* handler reaches through the device object.                              *)
(*                                                                         *)
(* A property value is kept with its application tag; REAL and            *)
(* ENUMERATED values come from small sets.  The device object (device.c)  *)
(* that routes a request to an object type is not in the repository; the *)
(* routing is modelled from spec 4.D (marked spec_modelled in the map).    *)
(***************************************************************************)
EXTENDS Integers

CONSTANTS
  MaxAI,        \* MAX_ANALOG_INPUTS
  MaxAV,        \* MAX_ANALOG_VALUES
  Instances,    \* object instances a request may name (some beyond MAX_*)
  Reals,        \* REAL values clients and the application write
  Enums         \* ENUMERATED values (engineering units) written

ASSUME MaxAI \in Nat /\ MaxAV \in 0..10 /\ Instances \subseteq Nat
ASSUME 0 \in Reals /\ 0 \in Enums /\ Enums \subseteq Nat

AIIndex == 0..(MaxAI - 1)

(* Enumerated values of bacenum.h the objects report.                     *)
OBJECT_ANALOG_INPUT == 0
OBJECT_ANALOG_VALUE == 2
EVENT_STATE_NORMAL == 0
UNITS_PERCENT == 98
UNITS_NO_UNITS == 95

BACNET_ARRAY_ALL == -1     \* 0xFFFFFFFF: the all-ones uint32_t as a 32-bit TLC integer
AVIndex == 0..(MaxAV - 1)

VARIABLES
  Present_Value,     \* ai.c: static float Present_Value[MAX_ANALOG_INPUTS]
  Out_Of_Service,    \* ai.c: static bool Out_Of_Service[MAX_ANALOG_INPUTS]
  Units,             \* ai.c: static BACNET_ENGINEERING_UNITS Units[...]
  AV_Present_Value,  \* av.c: float AV_Present_Value[MAX_ANALOG_VALUES]
  wpResult,          \* what the last WriteProperty handler returned
  wpProperty         \* history: wp_data->object_property of the last WriteProperty

objVars == <<Present_Value, Out_Of_Service, Units, AV_Present_Value>>

-----------------------------------------------------------------------------
(* Results of a read or a write.                                           *)
Val(tag, v) == [ok |-> TRUE, tag |-> tag, val |-> v]
Err(cls, code) == [ok |-> FALSE, cls |-> cls, code |-> code]
Done == [ok |-> TRUE, cls |-> "", code |-> ""]
NoResult == [ok |-> FALSE, cls |-> "", code |-> ""]

(* Values a WriteProperty request carries, as bacapp_decode_application_data *)
(* leaves them; tag INVALID is a value the decoder rejects (len < 0).     *)
WriteValues ==
  {[tag |-> "REAL", val |-> r] : r \in Reals}
  \cup {[tag |-> "BOOLEAN", val |-> b] : b \in BOOLEAN}
  \cup {[tag |-> "ENUMERATED", val |-> e] : e \in Enums}
  \cup {[tag |-> "INVALID", val |-> 0]}

(* Statics are zero-initialised: 0.0, false, units 0.                      *)
Init ==
  /\ Present_Value = [i \in AIIndex |-> 0]
  /\ Out_Of_Service = [i \in AIIndex |-> FALSE]
  /\ Units = [i \in AIIndex |-> 0]
  /\ AV_Present_Value = [i \in AVIndex |-> 0]
  /\ wpResult = NoResult
  /\ wpProperty = "NONE"

-----------------------------------------------------------------------------
(* Analog input (ai.c).  Instance and index are the same number, and every *)
(* getter and setter checks index < MAX_ANALOG_INPUTS itself.              *)

(* Mutant: a setter without its index < MAX_ANALOG_INPUTS test, writing   *)
(* past the end of the array.                                              *)
StoredUnchecked(f, inst, v) ==
  [i \in DOMAIN f \cup {inst} |-> IF i = inst THEN v ELSE f[i]]

(* The Analog_Input_*_Set setters: store at the index if it is in range.   *)
Stored(f, inst, v) == IF inst \in DOMAIN f THEN [f EXCEPT ![inst] = v] ELSE f

(* The getters: the stored value, or the default for an unknown index.     *)
Got(f, inst, default) == IF inst \in DOMAIN f THEN f[inst] ELSE default

(* Analog_Input_Read_Property: the properties an analog input has, keyed   *)
(* by property identifier; the name "AI-%lu" is kept as its two parts.     *)
AIProperties(inst) ==
  [OBJECT_IDENTIFIER |-> Val("OBJECT_ID", <<"ANALOG_INPUT", inst>>),
   OBJECT_NAME       |-> Val("CHARACTER_STRING", <<"AI-", inst>>),
   OBJECT_TYPE       |-> Val("ENUMERATED", OBJECT_ANALOG_INPUT),
   PRESENT_VALUE     |-> Val("REAL", Got(Present_Value, inst, 0)),
   STATUS_FLAGS      |-> Val("BIT_STRING",
                             <<FALSE, FALSE, FALSE, Got(Out_Of_Service, inst, FALSE)>>),
   EVENT_STATE       |-> Val("ENUMERATED", EVENT_STATE_NORMAL),
   OUT_OF_SERVICE    |-> Val("BOOLEAN", Got(Out_Of_Service, inst, FALSE)),
   UNITS             |-> Val("ENUMERATED", Got(Units, inst, UNITS_NO_UNITS))]

AIReadProperty(inst, prop) ==
  IF prop \in DOMAIN AIProperties(inst) THEN AIProperties(inst)[prop]
  ELSE Err("PROPERTY", "UNKNOWN_PROPERTY")

(* Analog_Input_Property_Lists: required, optional, proprietary.           *)
AIPropertyLists ==
  [Required |-> <<"OBJECT_IDENTIFIER", "OBJECT_NAME", "OBJECT_TYPE",
                  "PRESENT_VALUE", "STATUS_FLAGS", "EVENT_STATE",
                  "OUT_OF_SERVICE", "UNITS">>,
   Optional |-> <<>>, Proprietary |-> <<>>]

(* write_property_type_valid (wp.c): the decoded tag is the expected one.  *)
TypeValid(v, tag) == v.tag = tag

AIReadOnly == {"OBJECT_IDENTIFIER", "OBJECT_NAME", "OBJECT_TYPE",
               "STATUS_FLAGS", "EVENT_STATE"}

(* The PROP_UNITS case: the value goes to Analog_Input_Out_Of_Service_Set, *)
(* whose bool parameter takes an enumerated value as (value != 0).        *)
AIUnitsWrite(inst, v) == Stored(Out_Of_Service, inst, v.val # 0)

(* The PROP_PRESENT_VALUE case writes only while the input is out of      *)
(* service; otherwise WRITE_ACCESS_DENIED.                                 *)
AIPresentValueWritable(inst) == Got(Out_Of_Service, inst, FALSE)

(* Analog_Input_Write_Property.  There is no instance check: the setters  *)
(* ignore an out-of-range index and the write still reports success.      *)
AIWriteProperty(inst, prop, v) ==
  LET Fail(code) == /\ wpResult' = Err("PROPERTY", code)
                    /\ UNCHANGED objVars
      Ok == wpResult' = Done
  IN /\ wpProperty' = prop
     /\ \/ /\ v.tag = "INVALID"
           /\ Fail("VALUE_OUT_OF_RANGE")
        \/ /\ v.tag # "INVALID" /\ prop \in {"PRESENT_VALUE", "OUT_OF_SERVICE", "UNITS"}
           /\ ~TypeValid(v, [PRESENT_VALUE |-> "REAL", OUT_OF_SERVICE |-> "BOOLEAN",
                             UNITS |-> "ENUMERATED"][prop])
           /\ Fail("INVALID_DATA_TYPE")
        \/ /\ prop = "PRESENT_VALUE" /\ TypeValid(v, "REAL")
           /\ IF AIPresentValueWritable(inst)
                THEN /\ Present_Value' = Stored(Present_Value, inst, v.val)
                     /\ Ok
                     /\ UNCHANGED <<Out_Of_Service, Units, AV_Present_Value>>
                ELSE Fail("WRITE_ACCESS_DENIED")
        \/ /\ prop = "OUT_OF_SERVICE" /\ TypeValid(v, "BOOLEAN")
           /\ Out_Of_Service' = Stored(Out_Of_Service, inst, v.val)
           /\ Ok
           /\ UNCHANGED <<Present_Value, Units, AV_Present_Value>>
        \/ /\ prop = "UNITS" /\ TypeValid(v, "ENUMERATED")
           /\ Out_Of_Service' = AIUnitsWrite(inst, v)
           /\ Ok
           /\ UNCHANGED <<Present_Value, Units, AV_Present_Value>>
        \/ /\ v.tag # "INVALID" /\ prop \in AIReadOnly
           /\ Fail("WRITE_ACCESS_DENIED")
        \/ /\ v.tag # "INVALID"
           /\ prop \notin AIReadOnly \cup {"PRESENT_VALUE", "OUT_OF_SERVICE", "UNITS"}
           /\ Fail("UNKNOWN_PROPERTY")

(* The application's own calls: Analog_Input_Present_Value_Set (a new      *)
(* sensor reading) and Analog_Input_Units_Set.                             *)
AIPresentValueSet(inst, r) ==
  /\ Present_Value' = Stored(Present_Value, inst, r)
  /\ UNCHANGED <<Out_Of_Service, Units, AV_Present_Value, wpResult, wpProperty>>

AIUnitsSet(inst, u) ==
  /\ Units' = Stored(Units, inst, u)
  /\ UNCHANGED <<Present_Value, Out_Of_Service, AV_Present_Value, wpResult, wpProperty>>

-----------------------------------------------------------------------------
(* Analog value (av.c).                                                    *)

(* Analog_Value_Valid_Instance                                             *)
AVValidInstance(inst) == inst < MaxAV

(* Analog_Value_Encode_Property_APDU.  The name writes '0' + instance into *)
(* the fourth character of a static "AV-" buffer.  The present value is   *)
(* read at the index without a check; callers pass valid instances.  Any  *)
(* array index other than ALL turns a value into an error.                 *)
AVProperties(inst) ==
  [OBJECT_IDENTIFIER |-> Val("OBJECT_ID", <<"ANALOG_VALUE", inst>>),
   OBJECT_NAME       |-> Val("CHARACTER_STRING", <<"AV-", inst>>),
   OBJECT_TYPE       |-> Val("ENUMERATED", OBJECT_ANALOG_VALUE),
   PRESENT_VALUE     |-> Val("REAL", AV_Present_Value[inst]),
   STATUS_FLAGS      |-> Val("BIT_STRING", <<FALSE, FALSE, FALSE, FALSE>>),
   EVENT_STATE       |-> Val("ENUMERATED", EVENT_STATE_NORMAL),
   OUT_OF_SERVICE    |-> Val("BOOLEAN", FALSE),
   UNITS             |-> Val("ENUMERATED", UNITS_PERCENT)]

AVEncodeProperty(inst, prop, arrayIndex) ==
  IF prop \notin DOMAIN AVProperties(inst)
    THEN Err("PROPERTY", "UNKNOWN_PROPERTY")
  ELSE IF arrayIndex # BACNET_ARRAY_ALL
    THEN Err("PROPERTY", "PROPERTY_IS_NOT_AN_ARRAY")
  ELSE AVProperties(inst)[prop]

(* Analog_Value_Write_Property.  Its errors go to the error_class and      *)
(* error_code out-parameters, except on a decode failure, which writes     *)
(* them into wp_data and leaves the out-parameters as the caller had them  *)
(* (cls and code "UNSET").                                                 *)
AVWriteProperty(inst, prop, v) ==
  LET Fail(code) == /\ wpResult' = Err("PROPERTY", code)
                    /\ UNCHANGED objVars
  IN /\ wpProperty' = prop
     /\ \/ /\ ~AVValidInstance(inst)
           /\ wpResult' = Err("OBJECT", "UNKNOWN_OBJECT")
           /\ UNCHANGED objVars
        \/ /\ AVValidInstance(inst) /\ v.tag = "INVALID"
           /\ wpResult' = Err("UNSET", "UNSET")
           /\ UNCHANGED objVars
        \/ /\ AVValidInstance(inst) /\ v.tag # "INVALID" /\ prop = "PRESENT_VALUE"
           /\ IF v.tag = "REAL"
                THEN /\ AV_Present_Value' = [AV_Present_Value EXCEPT ![inst] = v.val]
                     /\ wpResult' = Done
                     /\ UNCHANGED <<Present_Value, Out_Of_Service, Units>>
                ELSE Fail("INVALID_DATA_TYPE")
        \/ /\ AVValidInstance(inst) /\ v.tag # "INVALID" /\ prop # "PRESENT_VALUE"
           /\ Fail("WRITE_ACCESS_DENIED")

-----------------------------------------------------------------------------
(* The device object's routing (device.c, not in the repository; spec 4.D *)
(* names the operations).  An object is <<type, instance>>.                *)

(* Device_Valid_Object_Id                                                  *)
DeviceValidObjectId(obj) ==
  \/ obj[1] = "ANALOG_INPUT" /\ obj[2] \in AIIndex
  \/ obj[1] = "ANALOG_VALUE" /\ AVValidInstance(obj[2])

(* Device_Read_Property: an unknown object is an object error, otherwise   *)
(* the object type's read function answers.                                *)
DeviceReadProperty(obj, prop, arrayIndex) ==
  IF ~DeviceValidObjectId(obj) THEN Err("OBJECT", "UNKNOWN_OBJECT")
  ELSE IF obj[1] = "ANALOG_INPUT" THEN AIReadProperty(obj[2], prop)
  ELSE AVEncodeProperty(obj[2], prop, arrayIndex)

-----------------------------------------------------------------------------
(* WriteProperty requests reach the object's handler; the application      *)
(* updates its inputs.                                                     *)
WriteProps == {"PRESENT_VALUE", "OUT_OF_SERVICE", "UNITS", "OBJECT_NAME", "DESCRIPTION"}

Next ==
  \/ \E i \in Instances, p \in WriteProps, v \in WriteValues : AIWriteProperty(i, p, v)
  \/ \E i \in Instances, p \in WriteProps, v \in WriteValues : AVWriteProperty(i, p, v)
  \/ \E i \in Instances, r \in Reals : AIPresentValueSet(i, r)
  \/ \E i \in Instances, u \in Enums : AIUnitsSet(i, u)

vars == <<Present_Value, Out_Of_Service, Units, AV_Present_Value, wpResult, wpProperty>>

Spec == Init /\ [][Next]_vars

-----------------------------------------------------------------------------
(* Properties.                                                             *)

TypeOK ==
  /\ Present_Value \in [AIIndex -> Reals]
  /\ Out_Of_Service \in [AIIndex -> BOOLEAN]
  /\ Units \in [AIIndex -> Enums]
  /\ AV_Present_Value \in [AVIndex -> Reals]
  /\ wpResult \in [ok : BOOLEAN, cls : STRING, code : STRING]
  /\ wpProperty \in WriteProps \cup {"NONE"}

(* The abstract view of ObjectService.tla: the stores are its state, the  *)
(* handler's result its reply.                                             *)
Service == INSTANCE ObjectService WITH
  AIs <- AIIndex, AVs <- AVIndex, Props <- WriteProps,
  pv <- Present_Value, oos <- Out_Of_Service, avpv <- AV_Present_Value,
  reply <- wpResult, written <- wpProperty

(* Every interleaving of client WriteProperty requests (ai.c, av.c) and   *)
(* the application's setters implements ObjectService: a client changes   *)
(* an input's present value only while it is out of service, a refused    *)
(* write changes no object, and an accepted one changes only the object   *)
(* and property it names (wpProperty, mapped to the abstract `written`).  *)
ImplementsObjectService == Service!Spec

====

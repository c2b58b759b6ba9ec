-------------------------------- MODULE RPM --------------------------------
(***************************************************************************)
(* handler_read_property_multiple of src/src/bacnet/basic/service/h_rpm.c *)
(* built with BACNET_SEGMENTATION_ENABLED, reading the analog objects of  *)
(* AnalogObjects through the device object.                                *)
(*                                                                         *)
(* The handler changes no state: its effect is the PDU it sends.  It is    *)
(* modelled as an operator from a decoded request to that reply, with the  *)
(* two nested for(;;) loops and the index loop of the special properties  *)
(* as RECURSIVE operators, and checked against SpecReply, the reply spec  *)
(* 4.D and section 7 describe, for every request of a bounded set in every *)
(* reachable state of the objects.                                         *)
(*                                                                         *)
(* Bytes are abstracted to lengths: each encoder of rpm.c and bacdcode.c   *)
(* (not in the repository) is its encoded length.                          *)
(***************************************************************************)
EXTENDS AnalogObjects, SequencesExt

CONSTANTS
  TxBuf,        \* sizeOfBuffer = MAX_PDU - MAX_NPDU, the transmit buffer
  MaxApdu,      \* MAX_APDU
  Requests,     \* decoded requests the handler is checked on
  MaxResps,     \* max_resp values of the requester
  MaxSegsAccepted, \* MAX_SEGMENTS_ACCEPTED
  MaxSegsValues    \* max_segs values of the requester (0: unspecified)

Specials == {"ALL", "REQUIRED", "OPTIONAL"}

(* A request is a sequence of object groups [obj |-> <<type, instance>>, *)
(* specs |-> <<[prop, idx], ...>>], idx BACNET_ARRAY_ALL or an index.  An  *)
(* object or a property named "MALFORMED" is where rpm_decode_object_id or *)
(* rpm_decode_object_property fails; the last spec of a group is followed  *)
(* by closing tag 1.                                                       *)
Malformed(x) == x = "MALFORMED"

-----------------------------------------------------------------------------
(* Encoded lengths (rpm_ack_encode_apdu_* and the application encoders).   *)
AckHeaderLen == 3                 \* rpm_ack_encode_apdu_init
ObjBeginLen == 6                  \* object id, opening tag 1
ObjEndLen == 1                    \* closing tag 1
ErrLen == 6                       \* opening tag 5, class, code, closing tag 5
PropHeaderLen(idx) == IF idx = BACNET_ARRAY_ALL THEN 2 ELSE 4
(* An enumeration is a tag octet and one octet per significant byte.      *)
ValueLen(r) ==
  IF r.tag = "ENUMERATED"
    THEN IF r.val > 255 THEN 3 ELSE 2
  ELSE [REAL |-> 5, BOOLEAN |-> 1, OBJECT_ID |-> 5, BIT_STRING |-> 3,
        CHARACTER_STRING |-> 7][r.tag]

(* memcopy: copies len bytes at offset only if they fit below max.         *)
Fits(offset, len) == offset + len <= TxBuf

-----------------------------------------------------------------------------
(* The object registry (device.c, not in the repository).                  *)

(* Device_Objects_Property_List; only analog inputs are asked for special  *)
(* properties, since av.c has no property lists.                           *)
DevicePropertyLists(obj) == AIPropertyLists

(* read_property_bacnet_array_valid (rp.c): none of these properties is an *)
(* array, so only BACNET_ARRAY_ALL is valid.                               *)
ArrayValid(idx) == idx = BACNET_ARRAY_ALL

(* RPM_Object_Property and RPM_Object_Property_Count: the properties a     *)
(* special property stands for, in index order.                            *)
ExpandSpecial(lists, special) ==
  CASE special = "ALL" -> lists.Required \o lists.Optional \o lists.Proprietary
    [] special = "REQUIRED" -> lists.Required
    [] special = "OPTIONAL" -> lists.Optional

-----------------------------------------------------------------------------
(* The handler's loop state: apdu_len, the entries put in the buffer,     *)
(* error (its kind), rpmdata.error_code and berror.  An entry names what  *)
(* was encoded; a property result by its tag or its error code.            *)
Entry(kind, obj, prop, idx, what) ==
  [kind |-> kind, obj |-> obj, prop |-> prop, idx |-> idx, what |-> what]
Outcome(r) == IF r.ok THEN r.tag ELSE r.code
ResultEntry(obj, prop, idx, r) == Entry("RESULT", obj, prop, idx, Outcome(r))

Start == [len |-> AckHeaderLen, res |-> <<>>, error |-> "NONE", code |-> "",
          berror |-> FALSE]
Put(a, n, x) == [a EXCEPT !.len = @ + n, !.res = Append(@, x)]
Fatal(a, kind, code) == [a EXCEPT !.error = kind, !.code = code, !.berror = TRUE]

(* RPM_Encode_Property: n > 0 bytes encoded, or BACNET_STATUS_ABORT with   *)
(* rpmdata->error_code set.                                                *)
Encoded(n, x) == [ok |-> TRUE, n |-> n, entry |-> x, code |-> ""]
Failed(code) == [ok |-> FALSE, n |-> 0, entry |-> Entry("", "", "", 0, ""), code |-> code]

(* What rpdata holds after the read: special properties and invalid       *)
(* array indexes are errors without a read.                               *)
PropertyRead(obj, prop, idx) ==
  IF prop \in Specials THEN Err("OBJECT", "UNKNOWN_OBJECT")
  ELSE IF ~ArrayValid(idx) THEN Err("PROPERTY", "PROPERTY_IS_NOT_AN_ARRAY")
  ELSE DeviceReadProperty(obj, prop, idx)

(* The header check, then the error or the value with its own checks.     *)
EncodeRead(offset, obj, prop, idx, r) ==
  LET hdr == PropHeaderLen(idx)
  IN IF ~Fits(offset, hdr) THEN Failed("SEGMENTATION_NOT_SUPPORTED")
     ELSE IF ~r.ok
       THEN IF Fits(offset + hdr, ErrLen)
              THEN Encoded(hdr + ErrLen, ResultEntry(obj, prop, idx, r))
            ELSE Failed("SEGMENTATION_NOT_SUPPORTED")
     ELSE IF offset + hdr + 1 + ValueLen(r) + 1 < TxBuf
       THEN Encoded(hdr + ValueLen(r) + 2, ResultEntry(obj, prop, idx, r))
     ELSE Failed("SEGMENTATION_NOT_SUPPORTED")

RPM_Encode_Property(offset, obj, prop, idx) ==
  EncodeRead(offset, obj, prop, idx, PropertyRead(obj, prop, idx))

(* One RPM_Encode_Property call of the handler: add its length, or set     *)
(* error and berror; brk tells whether the enclosing loop breaks.          *)
Absorb(a, e) ==
  IF e.ok THEN [a |-> Put(a, e.n, e.entry), brk |-> FALSE]
  ELSE [a |-> Fatal(a, "ABORT", e.code), brk |-> TRUE]

EncodeInto(a, obj, prop, idx) == Absorb(a, RPM_Encode_Property(a.len, obj, prop, idx))

(* The for-index loop over an expanded special property.  Its break on a   *)
(* failure leaves only this loop: the property loop goes on with berror    *)
(* set (h_rpm.c:453).                                                      *)
RECURSIVE ExpandLoop(_, _, _)
ExpandNext(x, obj, rest) == IF x.brk THEN x.a ELSE ExpandLoop(x.a, obj, rest)
ExpandLoop(a, obj, props) ==
  IF props = <<>> THEN a
  ELSE ExpandNext(EncodeInto(a, obj, Head(props), BACNET_ARRAY_ALL), obj, Tail(props))

(* Mutant: a special property expanded without the Device_Valid_Object_Id *)
(* test, so an unknown object answers with one error per listed property. *)
PropertyStepNoObjectCheck(a, obj, sp) ==
  IF sp.prop \notin Specials THEN EncodeInto(a, obj, sp.prop, sp.idx)
  ELSE IF sp.idx # BACNET_ARRAY_ALL
    THEN [a |-> Put(a, PropHeaderLen(sp.idx) + ErrLen,
                    ResultEntry(obj, sp.prop, sp.idx,
                                Err("PROPERTY", "PROPERTY_IS_NOT_AN_ARRAY"))),
          brk |-> FALSE]
  ELSE [a |-> ExpandLoop(a, obj, ExpandSpecial(DevicePropertyLists(obj), sp.prop)),
        brk |-> FALSE]

(* One decoded property of the inner loop: a special property of an       *)
(* unknown object, with an array index, or expanded; or an individual one. *)
PropertyStep(a, obj, sp) ==
  LET hdr == PropHeaderLen(sp.idx)
      props == ExpandSpecial(DevicePropertyLists(obj), sp.prop)
  IN IF sp.prop \notin Specials \/ ~DeviceValidObjectId(obj)
       THEN EncodeInto(a, obj, sp.prop, sp.idx)
     ELSE IF sp.idx # BACNET_ARRAY_ALL
       THEN IF Fits(a.len, hdr) /\ Fits(a.len + hdr, ErrLen)
              THEN [a |-> Put(a, hdr + ErrLen,
                              ResultEntry(obj, sp.prop, sp.idx,
                                          Err("PROPERTY", "PROPERTY_IS_NOT_AN_ARRAY"))),
                    brk |-> FALSE]
            ELSE [a |-> Fatal(a, "ABORT", "BUFFER_OVERFLOW"), brk |-> TRUE]
     ELSE [a |-> ExpandLoop(a, obj, props), brk |-> FALSE]

(* The inner for(;;) over the properties of one object, up to closing     *)
(* tag 1 and the object end it encodes.                                    *)
RECURSIVE PropertyLoop(_, _, _)
PropertyNext(x, obj, specs) ==
  IF x.brk THEN x.a
  ELSE IF Len(specs) > 1 THEN PropertyLoop(x.a, obj, Tail(specs))
  ELSE IF Fits(x.a.len, ObjEndLen)
    THEN Put(x.a, ObjEndLen, Entry("END", obj, "", BACNET_ARRAY_ALL, ""))
  ELSE Fatal(x.a, "ABORT", "BUFFER_OVERFLOW")
PropertyLoop(a, obj, specs) ==
  IF Malformed(Head(specs).prop) THEN Fatal(a, "REJECT", "INVALID_TAG")
  ELSE PropertyNext(PropertyStep(a, obj, Head(specs)), obj, specs)

(* The outer for(;;) over the object groups, until berror or the end of   *)
(* the request.                                                            *)
RECURSIVE ObjectLoop(_, _)
ObjectNext(b, groups) == IF b.berror \/ Len(groups) = 1 THEN b ELSE ObjectLoop(b, Tail(groups))
ObjectLoop(a, groups) ==
  LET g == Head(groups)
  IN IF Malformed(g.obj[1]) THEN Fatal(a, "REJECT", "INVALID_TAG")
     ELSE IF ~Fits(a.len, ObjBeginLen) THEN Fatal(a, "ABORT", "BUFFER_OVERFLOW")
     ELSE ObjectNext(PropertyLoop(Put(a, ObjBeginLen,
                                      Entry("BEGIN", g.obj, "", BACNET_ARRAY_ALL, "")),
                                  g.obj, g.specs),
                     groups)

(* What goes out: a complex-ack, a segmented complex-ack handed to        *)
(* tsm_set_complexack_transaction, or an Abort or Reject replacing it.    *)
Reply(kind, code, len, res) == [kind |-> kind, code |-> code, len |-> len, res |-> res]

(* handler_read_property_multiple with BACNET_SEGMENTATION_ENABLED.        *)
(* After the loops: the error fallback, or the sizing decision.           *)
Respond(a, maxResp, segAccepted) ==
  LET maxApduLen == IF maxResp < MaxApdu THEN maxResp ELSE MaxApdu
  IN IF a.berror THEN Reply(a.error, a.code, 0, <<>>)
     ELSE IF a.len > maxApduLen
       THEN IF segAccepted THEN Reply("SEGMENTED", "", a.len, a.res)
            ELSE Reply("ABORT", "SEGMENTATION_NOT_SUPPORTED", 0, <<>>)
     ELSE Reply("ACK", "", a.len, a.res)

HandleRPM(rq, maxResp, segAccepted) ==
  IF rq = <<>> THEN Reply("REJECT", "MISSING_REQUIRED_PARAMETER", 0, <<>>)
  ELSE Respond(ObjectLoop(Start, rq), maxResp, segAccepted)

-----------------------------------------------------------------------------
(* The reply spec 4.D and section 7 describe, written over the whole      *)
(* request rather than as loops: the request is laid out as a sequence of *)
(* units, each with its encoded size; the first unit that is malformed or *)
(* does not fit decides the reply, and otherwise the total length decides *)
(* between a complex-ack, a segmented one and an Abort.                    *)
Unit(size, slack, fatal, x) == [size |-> size, slack |-> slack, fatal |-> fatal, entry |-> x]
FatalUnit == Unit(0, 0, TRUE, Entry("", "", "", 0, ""))

(* One property result: a value needs one byte beyond its closing tag      *)
(* ("current_offset + 1 + value_len + 1 < max_apdu").                      *)
ResultUnit(obj, prop, idx, r) ==
  Unit(PropHeaderLen(idx) + (IF r.ok THEN ValueLen(r) + 2 ELSE ErrLen),
       IF r.ok THEN 1 ELSE 0, FALSE, ResultEntry(obj, prop, idx, r))

(* Special-property expansion: ALL is required, optional and proprietary  *)
(* in that order; an empty OPTIONAL of an existing object adds nothing.   *)
SpecialMembers(obj, prop) ==
  LET l == DevicePropertyLists(obj)
  IN IF prop = "ALL" THEN FlattenSeq(<<l.Required, l.Optional, l.Proprietary>>)
     ELSE IF prop = "REQUIRED" THEN l.Required ELSE l.Optional

SpecUnits(obj, sp) ==
  IF Malformed(sp.prop) THEN <<FatalUnit>>
  ELSE IF sp.prop \in Specials /\ ~DeviceValidObjectId(obj)
    THEN <<ResultUnit(obj, sp.prop, sp.idx, Err("OBJECT", "UNKNOWN_OBJECT"))>>
  ELSE IF sp.prop \in Specials /\ sp.idx # BACNET_ARRAY_ALL
    THEN <<ResultUnit(obj, sp.prop, sp.idx, Err("PROPERTY", "PROPERTY_IS_NOT_AN_ARRAY"))>>
  ELSE IF sp.prop \in Specials
    THEN LET m == SpecialMembers(obj, sp.prop)
         IN [i \in 1..Len(m) |-> ResultUnit(obj, m[i], BACNET_ARRAY_ALL,
                                   DeviceReadProperty(obj, m[i], BACNET_ARRAY_ALL))]
  ELSE LET r == IF ArrayValid(sp.idx) THEN DeviceReadProperty(obj, sp.prop, sp.idx)
                ELSE Err("PROPERTY", "PROPERTY_IS_NOT_AN_ARRAY")
       IN <<ResultUnit(obj, sp.prop, sp.idx, r)>>

GroupUnits(g) ==
  IF Malformed(g.obj[1]) THEN <<FatalUnit>>
  ELSE <<Unit(ObjBeginLen, 0, FALSE, Entry("BEGIN", g.obj, "", BACNET_ARRAY_ALL, ""))>>
       \o FlattenSeq([i \in 1..Len(g.specs) |-> SpecUnits(g.obj, g.specs[i])])
       \o <<Unit(ObjEndLen, 0, FALSE, Entry("END", g.obj, "", BACNET_ARRAY_ALL, ""))>>

SpecReply(rq, maxResp, segAccepted) ==
  LET us == FlattenSeq([i \in 1..Len(rq) |-> GroupUnits(rq[i])])
      Offset(k) == AckHeaderLen + FoldLeft(+, 0, [i \in 1..(k - 1) |-> us[i].size])
      Bad(k) == us[k].fatal \/ Offset(k) + us[k].size + us[k].slack > TxBuf
      bad == {k \in 1..Len(us) : Bad(k)}
      total == Offset(Len(us) + 1)
  IN IF rq = <<>> THEN Reply("REJECT", "MISSING_REQUIRED_PARAMETER", 0, <<>>)
     ELSE IF bad # {}
       THEN IF us[Min(bad)].fatal THEN Reply("REJECT", "INVALID_TAG", 0, <<>>)
            ELSE Reply("ABORT", "BUFFER_OVERFLOW", 0, <<>>)
     ELSE IF total > Min({maxResp, MaxApdu})
       THEN IF segAccepted THEN Reply("SEGMENTED", "", total, [i \in 1..Len(us) |-> us[i].entry])
            ELSE Reply("ABORT", "SEGMENTATION_NOT_SUPPORTED", 0, <<>>)
     ELSE Reply("ACK", "", total, [i \in 1..Len(us) |-> us[i].entry])

-----------------------------------------------------------------------------
(* Every ReadPropertyMultiple request of the bounded set, in every state  *)
(* the analog objects reach, gets from handler_read_property_multiple the *)
(* reply spec 4.D describes: the same results in request order, the same  *)
(* length and sizing decision, and the same Reject or Abort when the      *)
(* request is malformed or does not fit the transmit buffer.               *)
RpmRepliesMatchSpec ==
  \A rq \in Requests, m \in MaxResps, seg \in BOOLEAN :
    HandleRPM(rq, m, seg) = SpecReply(rq, m, seg)

-----------------------------------------------------------------------------
(* A segmented reply goes to tsm_set_complexack_transaction with the      *)
(* service data after the 3-byte complex-ack header (h_rpm.c:534).        *)
Seg == INSTANCE Segmentation

HandOver(r, maxResp, maxSegs) ==
  r.kind = "SEGMENTED" => Seg!SegmentedReplyAsSpec(r.len - AckHeaderLen, maxResp, maxSegs)

(* Every reply handler_read_property_multiple finds too long for one APDU *)
(* and hands to tsm_set_complexack_transaction is, as spec 4.C says, cut  *)
(* into ceil(len / (apdu_max - 5)) segments that tsm_pdu_send lays out    *)
(* back to back, each with the right SEG/MORE flags and sequence number   *)
(* and within the client's max_resp; it is refused with Abort             *)
(* BUFFER_OVERFLOW exactly when the client does not accept that many     *)
(* segments (min(max_segs, MAX_SEGMENTS_ACCEPTED)).                       *)
SegmentedRepliesAsSpec ==
  \A rq \in Requests, m \in MaxResps, ms \in MaxSegsValues :
     HandOver(HandleRPM(rq, m, TRUE), m, ms)

====

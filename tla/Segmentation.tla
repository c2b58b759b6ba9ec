---------------------------- MODULE Segmentation ----------------------------
(***************************************************************************)
(* Segment sizing of src/src/bacnet/basic/tsm/tsm.c: how a reply handed to *)
(* tsm_set_complexack_transaction is cut into segments, whether it is      *)
(* accepted at all, and what tsm_pdu_send puts on the wire for segment k.  *)
(* These are pure functions of the lengths, so they are operators.  A      *)
(* frame is its fixed-header length, the flags and sequence number the     *)
(* header carries, and the byte range of the reply it carries.             *)
(***************************************************************************)
EXTENDS Integers

CONSTANTS
  MaxApdu,           \* MAX_APDU
  MaxSegsAccepted    \* MAX_SEGMENTS_ACCEPTED

ASSUME MaxApdu \in Nat /\ MaxSegsAccepted \in 1..255

MinOf2(a, b) == IF a < b THEN a ELSE b
MaxOf2(a, b) == IF a > b THEN a ELSE b

(* get_apdu_header_typical_size: the fixed header of a complex-ack or a    *)
(* confirmed request, two bytes longer when it carries sequence number     *)
(* and window; any other PDU type counts as an unsegmented ack.            *)
HeaderSize(pduType, segmented) ==
  CASE pduType = "COMPLEX_ACK"       -> IF segmented THEN 5 ELSE 3
    [] pduType = "CONFIRMED_REQUEST" -> IF segmented THEN 6 ELSE 4
    [] OTHER                         -> 3

(* A transaction's sizing fields: apdu_fixed_header.pdu_type, apdu_len and *)
(* apdu_maximum_length.                                                     *)
Tx(pduType, len, max) == [type |-> pduType, len |-> len, max |-> max]

(* get_apdu_max_segments: 1 when the reply fits one unsegmented APDU,     *)
(* otherwise ((apdu_len - 1) / (max - segmented header)) + 1.              *)
MaxSegments(t) ==
  IF HeaderSize(t.type, FALSE) + t.len <= t.max THEN 1
  ELSE ((t.len - 1) \div (t.max - HeaderSize(t.type, TRUE))) + 1

(* Mutant: the peer's max-segments used without the local cap.             *)
TransmittableLengthNoLocalCap(maxResp, segAccepted, maxSegs) ==
  LET apduMax == MinOf2(maxResp, MaxApdu)
      segs == IF maxSegs = 0 \/ maxSegs > 64 THEN MaxSegsAccepted ELSE maxSegs
  IN [apduMax |-> apduMax,
      totalMax |-> IF segAccepted THEN segs * apduMax ELSE apduMax]

(* bacnet_calc_transmittable_length when replying to a confirmed service: *)
(* the APDU limit is min(max_resp, MAX_APDU); with segmentation accepted   *)
(* the total is that times min(max_segs, MAX_SEGMENTS_ACCEPTED), where an  *)
(* unspecified (0) or "more than 64" max_segs means MAX_SEGMENTS_ACCEPTED. *)
TransmittableLength(maxResp, segAccepted, maxSegs) ==
  LET apduMax == MinOf2(maxResp, MaxApdu)
      segs == IF maxSegs = 0 \/ maxSegs > 64 THEN MaxSegsAccepted ELSE maxSegs
  IN [apduMax |-> apduMax,
      totalMax |-> IF segAccepted THEN MinOf2(segs, MaxSegsAccepted) * apduMax
                   ELSE apduMax]

(* get_apdu_blob_data_segment: segment k is the block of                   *)
(* (max - header) bytes at k * block, cut at apdu_len (possibly empty).    *)
BlobSegment(t, segmented, k) ==
  LET block == t.max - HeaderSize(t.type, segmented)
      pos == k * block
  IN [pos |-> pos, len |-> MaxOf2(0, MinOf2(t.len - pos, block))]

NoFrame == [sent |-> FALSE, seg |-> FALSE, more |-> FALSE, seq |-> 0,
            hdr |-> 0, pos |-> 0, len |-> 0]

(* tsm_pdu_send(t, k): out of range is -1; a single segment goes without   *)
(* the SEG flag; otherwise SEG is set, MORE on all but the last segment,   *)
(* and the sequence number is k (a uint8_t).  The header length follows   *)
(* the SEG flag just set.  The NPDU and the copy into Transmit_Buffer are  *)
(* not modelled: a frame of at most MAX_APDU bytes always fits it.         *)
PduSend(t, k) ==
  LET total == MaxSegments(t)
      segmented == total # 1
      b == BlobSegment(t, segmented, k)
  IN IF k >= total THEN NoFrame
     ELSE [sent |-> TRUE, seg |-> segmented,
           more |-> segmented /\ k < total - 1,
           seq |-> IF segmented THEN k % 256 ELSE 0,
           hdr |-> HeaderSize(t.type, segmented), pos |-> b.pos, len |-> b.len]

(* The sizing steps of tsm_set_complexack_transaction once a slot is bound:*)
(* one segment is sent unsegmented; more are refused with Abort            *)
(* BUFFER_OVERFLOW when pdu_len plus a segmented header per segment        *)
(* exceeds maximum_transmittable_length, and otherwise sent in segments.   *)
ComplexAckSizing(len, maxResp, segAccepted, maxSegs) ==
  LET tl == TransmittableLength(maxResp, segAccepted, maxSegs)
      t == Tx("COMPLEX_ACK", len, tl.apduMax)
      n == MaxSegments(t)
  IN IF n = 1 THEN [kind |-> "UNSEGMENTED", t |-> t, segs |-> 1]
     ELSE IF len + n * HeaderSize("COMPLEX_ACK", TRUE) > tl.totalMax
       THEN [kind |-> "ABORT", t |-> t, segs |-> n]
     ELSE [kind |-> "SEGMENTED", t |-> t, segs |-> n]

-----------------------------------------------------------------------------
(* The reference, from spec section 4.C (segment sizing) and section 2     *)
(* (max_transmittable): B = apdu_max_length - segmented header, the reply  *)
(* takes ceil(len / B) segments, segment k carries bytes [k*B, k*B + B)    *)
(* cut at len, and no client gets more segments than min(its max-segments, *)
(* the local cap) allows; an unspecified max-segments leaves the local cap.*)
SpecSegmentCount(len, max) == LET B == max - 5 IN (len + B - 1) \div B

SpecPeerLimit(maxSegs) ==
  IF maxSegs = 0 THEN MaxSegsAccepted ELSE MinOf2(maxSegs, MaxSegsAccepted)

SpecFrame(len, max, k) ==
  LET B == max - 5
      n == SpecSegmentCount(len, max)
  IN [sent |-> TRUE, seg |-> TRUE, more |-> k < n - 1, seq |-> k % 256, hdr |-> 5,
      pos |-> k * B, len |-> MinOf2(B, len - k * B)]

(* A reply of len bytes that did not fit one APDU, sent to a client that  *)
(* accepts segments: refused exactly when it needs more segments than the *)
(* client accepts, and otherwise sent as the frames the spec lays out,    *)
(* each within the client's APDU limit, with nothing after the last.      *)
SegmentedReplyAsSpec(len, maxResp, maxSegs) ==
  LET c == ComplexAckSizing(len, maxResp, TRUE, maxSegs)
      max == MinOf2(maxResp, MaxApdu)
      n == SpecSegmentCount(len, max)
  IN /\ c.kind # "UNSEGMENTED"
     /\ (c.kind = "SEGMENTED") <=> (n <= SpecPeerLimit(maxSegs))
     /\ c.kind = "SEGMENTED" =>
          /\ c.segs = n
          /\ \A k \in 0..(n - 1) : /\ PduSend(c.t, k) = SpecFrame(len, max, k)
                                   /\ PduSend(c.t, k).hdr + PduSend(c.t, k).len <= max
          /\ PduSend(c.t, n) = NoFrame

====

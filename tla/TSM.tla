-------------------------------- MODULE TSM --------------------------------
(***************************************************************************)
(* The BACnet Transaction State Machine of src/src/bacnet/basic/tsm/tsm.c *)
(* built with BACNET_SEGMENTATION_ENABLED: the transaction table TSM_List, *)
(* the peer-invoke map TSM_Peer_Ids, the invoke-id cursor, the global     *)
(* duplicate counter, segment reassembly, segmented responses driven by   *)
(* segment-acks and the millisecond timer, and the client's unsegmented    *)
(* confirmed request.                                                      *)
(*                                                                         *)
(* Every entry point runs to completion (single-threaded stack), so each   *)
(* is one atomic action.  An action is written as a function from the      *)
(* "world" (all process-wide statics) to the world after the C call, so   *)
(* that calls made inside a handler compose in the order the code makes    *)
(* them.  Byte payloads are abstracted: a reassembly blob is the sequence  *)
(* of sequence numbers of the segments appended to it, an outgoing APDU is *)
(* its segment count.                                                      *)
(***************************************************************************)
EXTENDS Integers, Sequences, FiniteSets

CONSTANTS
  NSlots,          \* MAX_TSM_TRANSACTIONS
  NPeerEntries,    \* MAX_TSM_PEERS
  Peers,           \* peer network addresses (model values)
  Devices,         \* the peers the application sends confirmed requests to
  NoPeer,          \* the zeroed BACNET_ADDRESS of a never-used slot
  PeerInvokeIds,   \* invoke ids peers put in their requests
  IdMod,           \* invoke ids are uint8_t (256); Current_Invoke_ID wraps at IdMod
  SeqMod,          \* sequence numbers are uint8_t (256); all seq arithmetic is mod SeqMod
  Windows,         \* window sizes a peer may propose or acknowledge with
  MaxSegsAccepted, \* MAX_SEGMENTS_ACCEPTED
  MaxRespSegs,     \* most segments of a response the RPM handler builds
  Tout,            \* apdu_timeout(), in timer ticks
  Tseg,            \* apdu_segment_timeout(), in timer ticks
  Retries,         \* apdu_retries()
  TickSizes        \* milliseconds arguments of tsm_timer_milliseconds

ASSUME NSlots \in Nat \ {0} /\ NPeerEntries \in Nat \ {0}
ASSUME IdMod - 1 > NSlots          \* an unused invoke id always exists
ASSUME NoPeer \notin Peers /\ Devices \subseteq Peers
ASSUME PeerInvokeIds \subseteq 0..255 /\ Windows \subseteq 0..255
ASSUME {Tout, Tseg, Retries} \subseteq Nat /\ TickSizes \subseteq Nat \ {0}

Slots == 1..NSlots
Entries == 1..NPeerEntries
Seqs == 0..(SeqMod - 1)

States == {"IDLE", "AWAIT_CONFIRMATION",
           "SEGMENTED_REQUEST_SERVER", "SEGMENTED_RESPONSE_SERVER"}

VARIABLES
  TSM_List,          \* the transaction table
  TSM_Peer_Ids,      \* (peer address, peer invoke id) -> internal invoke id
  Current_Invoke_ID, \* rolling allocation cursor
  Duplicate_Count,   \* one counter shared by every slot (tsm.c line 31)
  appInvokeIds,      \* invoke ids the application got from a Send_* call
  in,                \* sender and invoke id of the PDU handled by the last step
  out                \* events the last step produced (aborts, deliveries, ...)

vars == <<TSM_List, TSM_Peer_Ids, Current_Invoke_ID, Duplicate_Count,
          appInvokeIds, in, out>>

-----------------------------------------------------------------------------
(* Events a step can produce; only those that properties look at.          *)
Ev(k, p, inv) == [k |-> k, peer |-> p, inv |-> inv, reason |-> "", blob |-> <<>>,
                  neg |-> FALSE, seq |-> 0]
Abort(p, inv, reason) == [Ev("Abort", p, inv) EXCEPT !.reason = reason]
Deliver(p, inv, blob) == [Ev("Deliver", p, inv) EXCEPT !.blob = blob]
TimeoutCb(id) == Ev("Timeout", NoPeer, id)

(* segmentack_pdu_send(dest, negativeack, server = true, invoke_id,       *)
(* sequence_number, actual_window_size): the server's segment-ack to a     *)
(* peer; the NPDU, the encoding and the datalink result are not kept.     *)
SegmentAck(p, inv, neg, seq) == [Ev("SegmentAck", p, inv) EXCEPT !.neg = neg, !.seq = seq]

FreeSlot == [InvokeID |-> 0, state |-> "IDLE", dest |-> NoPeer,
             ActualWindowSize |-> 0, InitialSequenceNumber |-> 0,
             LastSequenceNumber |-> 0, ReceivedSegmentsCount |-> 0,
             RetryCount |-> 0, SegmentRetryCount |-> 0,
             RequestTimer |-> 0, SegmentTimer |-> 0,
             blob |-> <<>>, total |-> 0,
             SentAllSegments |-> FALSE, hiSent |-> -1]

NoEntry == [InternalInvokeID |-> 0, PeerInvokeID |-> 0, PeerAddress |-> NoPeer]

Init ==
  /\ TSM_List = [i \in Slots |-> FreeSlot]
  /\ TSM_Peer_Ids = [e \in Entries |-> NoEntry]
  /\ Current_Invoke_ID = 1
  /\ Duplicate_Count = 0
  /\ appInvokeIds = {}
  /\ in = [peer |-> NoPeer, inv |-> 0]
  /\ out = {}

-----------------------------------------------------------------------------
(* The world: the statics a C entry point reads and writes.                *)
Now == [L |-> TSM_List, P |-> TSM_Peer_Ids, c |-> Current_Invoke_ID,
        d |-> Duplicate_Count, out |-> {}]

Commit(w) ==
  /\ TSM_List' = w.L
  /\ TSM_Peer_Ids' = w.P
  /\ Current_Invoke_ID' = w.c
  /\ Duplicate_Count' = w.d
  /\ out' = w.out

Emit(w, e) == [w EXCEPT !.out = @ \cup {e}]

MinOf(S) == CHOOSE x \in S : \A y \in S : x <= y

(* Mutant: the timer decrement without the saturation at zero.           *)
SatWrapped(t, ms) == t - ms

Sat(t, ms) == IF t > ms THEN t - ms ELSE 0

(* tsm_find_invokeID_index: first slot holding id, 0 when none.           *)
FindIndex(L, id) ==
  LET I == {i \in Slots : L[i].InvokeID = id} IN IF I = {} THEN 0 ELSE MinOf(I)

(* Current_Invoke_ID++, skipping zero.                                     *)
NextId(c) == IF (c + 1) % IdMod = 0 THEN 1 ELSE (c + 1) % IdMod

(* Mutant: the allocator takes the cursor without checking the table.     *)
UnusedFromNoSkip(L, c) == c

RECURSIVE UnusedFrom(_, _)
UnusedFrom(L, c) == IF FindIndex(L, c) = 0 THEN c ELSE UnusedFrom(L, NextId(c))

(* tsm_next_free_invokeID: returns the world and the id (0 if full).       *)
NextFreeInvokeID(w) ==
  IF FindIndex(w.L, 0) = 0 THEN [w |-> w, id |-> 0]
  ELSE LET id == UnusedFrom(w.L, w.c)
           i  == FindIndex(w.L, 0)
       IN [w |-> [w EXCEPT !.L[i].InvokeID = id, !.L[i].state = "IDLE",
                           !.L[i].RequestTimer = Tout, !.c = NextId(id)],
           id |-> id]

(* free_blob                                                               *)
FreeBlob(s) == [s EXCEPT !.blob = <<>>, !.total = 0]

(* tsm_clear_peer_id                                                       *)
ClearPeerId(P, id) ==
  [e \in Entries |-> IF P[e].InternalInvokeID = id
                       THEN [P[e] EXCEPT !.InternalInvokeID = 0] ELSE P[e]]

(* tsm_free_invoke_id_check; addr = NoPeer stands for a NULL peer_address *)
FreeInvokeIdCheck(w, id, addr, cleanup) ==
  LET i == FindIndex(w.L, id) IN
  IF i # 0 /\ (addr = NoPeer \/ w.L[i].dest = addr)
    THEN LET s == [w.L[i] EXCEPT !.state = "IDLE", !.InvokeID = 0]
         IN [w EXCEPT !.L[i] = IF cleanup THEN FreeBlob(s) ELSE s,
                      !.P = ClearPeerId(@, id)]
    ELSE w

(* tsm_free_invoke_id (client API: no peer-map cleanup, no free_blob)      *)
FreeInvokeId(w, id) ==
  LET i == FindIndex(w.L, id) IN
  IF i # 0 THEN [w EXCEPT !.L[i].state = "IDLE", !.L[i].InvokeID = 0] ELSE w

(* The matching entries of the lookup loop of tsm_get_peer_id_data.        *)
PeerMatch(P, src, inv) ==
  {e \in Entries : P[e].InternalInvokeID # 0 /\ P[e].PeerInvokeID = inv
                   /\ P[e].PeerAddress = src}

(* tsm_get_peer_id_data(src, inv, false): internal id, 0 if unknown.       *)
LookupPeerId(P, src, inv) ==
  LET M == PeerMatch(P, src, inv) IN
  IF M = {} THEN 0 ELSE P[MinOf(M)].InternalInvokeID

(* tsm_get_peer_id: find or create the binding; returns world and id.      *)
GetPeerId(w, src, inv) ==
  LET M == PeerMatch(w.P, src, inv)
      F == {e \in Entries : w.P[e].InternalInvokeID = 0}
  IN IF M # {} THEN [w |-> w, id |-> w.P[MinOf(M)].InternalInvokeID]
     ELSE IF F = {} THEN [w |-> w, id |-> 0]
     ELSE LET e == MinOf(F)
              a == NextFreeInvokeID(w)
              i == FindIndex(a.w.L, a.id)
              P1 == [w.P EXCEPT ![e] = [PeerInvokeID |-> inv, PeerAddress |-> src,
                                         InternalInvokeID |-> a.id]]
          IN IF i # 0
               THEN [w |-> [a.w EXCEPT !.P = P1, !.L[i].dest = src], id |-> a.id]
               ELSE [w |-> [a.w EXCEPT !.P = [P1 EXCEPT ![e].InternalInvokeID = 0]],
                     id |-> 0]


-----------------------------------------------------------------------------
(* Segment reassembly: tsm_set_segmented_confirmed_service_received.       *)

(* DuplicateInWindow: is seqA a segment already taken in the window?       *)
DuplicateInWindow(s, seqA, first, last) ==
  LET received == (last - first) % SeqMod IN
  /\ received <= s.ActualWindowSize
  /\ \/ (seqA - first) % SeqMod <= received
     \/ received = 0 /\ (first - seqA) % SeqMod <= s.ActualWindowSize

(* duplicate_segment_received, counting in the process-wide counter; the  *)
(* Ndup-th duplicate draws a negative ack of the last segment taken.      *)
DuplicateSegmentReceived(w, i, src, inv) ==
  LET ndup == w.L[i].ActualWindowSize IN
  IF w.d < ndup
    THEN [w EXCEPT !.L[i].SegmentTimer = Tseg, !.d = @ + 1]
  ELSE IF w.d = ndup
    THEN Emit([w EXCEPT !.L[i].SegmentTimer = Tseg,
                        !.L[i].InitialSequenceNumber = w.L[i].LastSequenceNumber,
                        !.d = 0],
              SegmentAck(src, inv, TRUE, w.L[i].LastSequenceNumber))
  ELSE w

(* Mutant: the IDLE case without the "sequence number MUST be 0" test.    *)
FirstSegmentAnySeq(w, i, src, inv, seq, win) ==
  LET s == [w.L[i] EXCEPT !.state = "SEGMENTED_REQUEST_SERVER",
              !.ActualWindowSize = win, !.InitialSequenceNumber = 0,
              !.LastSequenceNumber = 0, !.RetryCount = 0,
              !.SegmentRetryCount = 0, !.ReceivedSegmentsCount = 1,
              !.RequestTimer = 0, !.SegmentTimer = 4 * Tseg, !.blob = <<>>]
      w1 == [w EXCEPT !.L[i] = s]
  IN IF seq = 0 /\ (win = 0 \/ win > 127)
       THEN Emit([w1 EXCEPT !.L[i].state = "IDLE"],
                 Abort(src, inv, "WINDOW_SIZE_OUT_OF_RANGE"))
     ELSE Emit([w1 EXCEPT !.L[i].blob = <<seq>>], SegmentAck(src, inv, FALSE, 0))

(* The TSM_STATE_IDLE case: the first segment of a segmented request.      *)
FirstSegment(w, i, src, inv, seq, win) ==
  LET s == [w.L[i] EXCEPT !.state = "SEGMENTED_REQUEST_SERVER",
              !.ActualWindowSize = win, !.InitialSequenceNumber = 0,
              !.LastSequenceNumber = 0, !.RetryCount = 0,
              !.SegmentRetryCount = 0, !.ReceivedSegmentsCount = 1,
              !.RequestTimer = 0, !.SegmentTimer = 4 * Tseg, !.blob = <<>>]
      w1 == [w EXCEPT !.L[i] = s]
  IN IF seq = 0 /\ (win = 0 \/ win > 127)
       THEN Emit([w1 EXCEPT !.L[i].state = "IDLE"],
                 Abort(src, inv, "WINDOW_SIZE_OUT_OF_RANGE"))
     ELSE IF seq # 0
       THEN FreeInvokeIdCheck(Emit([w1 EXCEPT !.L[i] = FreeBlob(s)],
                                   Abort(src, inv, "INVALID_APDU_IN_THIS_STATE")),
                              s.InvokeID, NoPeer, TRUE)
     ELSE Emit([w1 EXCEPT !.L[i].blob = <<seq>>], SegmentAck(src, inv, FALSE, 0))

(* Mutant: the out-of-order ack carries the segment that arrived.          *)
OutOfOrderAckReceivedSeq(w, i, src, inv, seq) ==
  Emit([w EXCEPT !.d = 0], SegmentAck(src, inv, TRUE, seq))

(* SegmentReceivedOutOfOrder: a negative ack of the last segment taken,   *)
(* and the duplicate counter is reset.                                     *)
OutOfOrderAck(w, i, src, inv, seq) ==
  Emit([w EXCEPT !.d = 0], SegmentAck(src, inv, TRUE, w.L[i].LastSequenceNumber))

(* The TSM_STATE_SEGMENTED_REQUEST_SERVER case; result is TRUE when the    *)
(* final segment completed the request.                                    *)
RequestSegment(w, i, src, inv, seq, more) ==
  LET s1 == [w.L[i] EXCEPT !.RequestTimer = 0, !.SegmentTimer = 4 * Tseg]
      late == s1.SegmentTimer > Tout
      w1 == IF late
              THEN Emit([w EXCEPT !.L[i] = [s1 EXCEPT !.state = "IDLE"]],
                        Abort(src, inv, "APPLICATION_EXCEEDED_REPLY_TIME"))
              ELSE [w EXCEPT !.L[i] = s1]
      s == w1.L[i]
  IN IF seq # (s.LastSequenceNumber + 1) % SeqMod
       THEN [w |-> IF DuplicateInWindow(s, seq, s.InitialSequenceNumber % SeqMod,
                                        s.LastSequenceNumber)
                     THEN DuplicateSegmentReceived(w1, i, src, inv)
                     ELSE OutOfOrderAck(w1, i, src, inv, seq),
             result |-> FALSE]
     ELSE IF s.ReceivedSegmentsCount + 1 > MaxSegsAccepted
       THEN [w |-> FreeInvokeIdCheck(
                     Emit([w1 EXCEPT !.L[i] = [FreeBlob(s) EXCEPT
                                   !.state = "IDLE", !.ReceivedSegmentsCount = @ + 1]],
                          Abort(src, inv, "BUFFER_OVERFLOW")),
                     s.InvokeID, NoPeer, TRUE),
             result |-> FALSE]
     ELSE LET closes == seq = (s.InitialSequenceNumber + s.ActualWindowSize) % SeqMod
              s2 == [s EXCEPT !.ReceivedSegmentsCount = @ + 1,
                              !.LastSequenceNumber = seq,
                              !.blob = Append(@, seq),
                              !.InitialSequenceNumber = IF closes THEN seq ELSE @]
              w2 == [w1 EXCEPT !.L[i] = s2]
          IN [w |-> IF closes \/ ~more THEN Emit(w2, SegmentAck(src, inv, FALSE, seq)) ELSE w2,
              result |-> ~more]

-----------------------------------------------------------------------------
(* Segmented response: tsm_set_complexack_transaction, FillWindow and the  *)
(* segment-ack handler.                                                    *)

MinI(a, b) == IF a < b THEN a ELSE b
MaxI(a, b) == IF a > b THEN a ELSE b

(* FillWindow: send segments n, n+1, ... up to the window or the last one; *)
(* hiSent records the highest segment ever handed to tsm_pdu_send.         *)
FillWindow(s, n) ==
  LET cnt == IF s.total > n THEN MinI(s.ActualWindowSize, s.total - n) ELSE 0
  IN [s EXCEPT !.hiSent = IF cnt > 0 THEN MaxI(@, n + cnt - 1) ELSE @,
               !.SentAllSegments = IF n + cnt >= s.total THEN TRUE ELSE @]

(* Mutant: InWindow with an inclusive upper bound.                        *)
InWindowInclusive(s, seqA, seqB) == (seqA - seqB) % SeqMod <= s.ActualWindowSize

(* InWindow                                                                *)
InWindow(s, seqA, seqB) == (seqA - seqB) % SeqMod < s.ActualWindowSize

(* What the RPM handler makes of a request: segs = 1 is a reply that fits *)
(* and is sent directly; more segments go to tsm_set_complexack_transaction*)
(* whose budget check passes or not (fits) and whose first tsm_pdu_send    *)
(* succeeds or not (sent).                                                 *)
Replies == {r \in [segs : 1..MaxRespSegs, fits : BOOLEAN, sent : BOOLEAN] :
              r.segs = 1 => r.fits /\ r.sent}

(* tsm_set_complexack_transaction for a response of r.segs > 1 segments.   *)
ComplexAckTransaction(w, dest, inv, r) ==
  LET g == GetPeerId(w, dest, inv)
      i == FindIndex(g.w.L, g.id)
  IN IF g.id = 0
       THEN Emit(g.w, Abort(dest, inv, "PREEMPTED_BY_HIGHER_PRIORITY_TASK"))
     ELSE IF i = 0 \* "shall not fail": a binding whose slot is gone
       THEN Emit(g.w, Abort(dest, inv, "OTHER"))
     ELSE LET s == [g.w.L[i] EXCEPT !.total = r.segs, !.dest = dest,
                      !.RetryCount = Retries, !.ActualWindowSize = 1,
                      !.InitialSequenceNumber = 0, !.SentAllSegments = FALSE]
              s2 == [s EXCEPT !.state = "SEGMENTED_RESPONSE_SERVER",
                      !.SegmentRetryCount = Retries, !.RequestTimer = 0,
                      !.SegmentTimer = Tseg, !.hiSent = 0]
          IN IF ~r.fits
               THEN FreeInvokeIdCheck(Emit([g.w EXCEPT !.L[i] = FreeBlob(s)],
                                           Abort(dest, inv, "BUFFER_OVERFLOW")),
                                      g.id, dest, TRUE)
             ELSE IF r.sent THEN [g.w EXCEPT !.L[i] = s2]
             ELSE FreeInvokeIdCheck([g.w EXCEPT !.L[i] = s2], g.id, dest, TRUE)

(* handler_read_property_multiple's reply, after the request is decoded.   *)
HandlerReply(w, src, inv, r) ==
  IF r.segs = 1 THEN w ELSE ComplexAckTransaction(w, src, inv, r)

(* The SEGMENTED_RESPONSE_SERVER branch of tsm_segmentack_received.        *)
ResponseAck(w, i, seq, win) ==
  LET s == w.L[i] IN
  IF ~InWindow(s, seq, s.InitialSequenceNumber % SeqMod)
    THEN [w EXCEPT !.L[i].SegmentTimer = Tseg]
  ELSE LET big == s.InitialSequenceNumber + ((seq - s.InitialSequenceNumber) % SeqMod)
       IN IF big + 1 < s.total
            THEN [w EXCEPT !.L[i] =
                    [FillWindow([s EXCEPT !.InitialSequenceNumber = big + 1,
                                          !.ActualWindowSize = win,
                                          !.SegmentRetryCount = Retries], big + 1)
                     EXCEPT !.SegmentTimer = Tseg]]
          ELSE FreeInvokeIdCheck([w EXCEPT !.L[i].SegmentTimer = 0,
                                           !.L[i].state = "IDLE"],
                                 s.InvokeID, NoPeer, TRUE)

-----------------------------------------------------------------------------
(* The timer: tsm_timer_milliseconds, one slot at a time in table order.   *)

(* Mutant: a segment-timer expiry that restarts the timer without         *)
(* spending a retry.                                                       *)
SegmentRetryNoCount(s) == [s EXCEPT !.SegmentTimer = Tseg]

(* The segment timer of a segmented response ran out: SegmentRetryCount-- *)
(* (uint8_t, before the zero test) and the timer restarts.                 *)
SegmentRetry(s) == [s EXCEPT !.SegmentRetryCount = (@ - 1) % 256, !.SegmentTimer = Tseg]

(* Mutant: the AWAIT_CONFIRMATION retry that does not count the retry.    *)
TickSlotNoRetryCount(s, ms) ==
  CASE s.state = "AWAIT_CONFIRMATION" ->
         LET t == Sat(s.RequestTimer, ms) IN
         IF t # 0 THEN [s EXCEPT !.RequestTimer = t]
         ELSE IF s.RetryCount < Retries
           THEN [s EXCEPT !.RequestTimer = Tout]
         ELSE [s EXCEPT !.RequestTimer = 0, !.state = "IDLE"]
    [] s.state = "SEGMENTED_RESPONSE_SERVER" ->
         LET t == Sat(s.SegmentTimer, ms) IN
         IF t # 0 THEN [s EXCEPT !.SegmentTimer = t]
         ELSE LET s2 == SegmentRetry(s)
              IN IF s2.SegmentRetryCount # 0
                   THEN FillWindow(s2, s2.InitialSequenceNumber)
                   ELSE [s2 EXCEPT !.state = "IDLE"]
    [] s.state = "SEGMENTED_REQUEST_SERVER" ->
         LET t == Sat(s.SegmentTimer, ms) IN
         IF t # 0 THEN [s EXCEPT !.SegmentTimer = t]
         ELSE FreeBlob([s EXCEPT !.SegmentTimer = 0, !.InvokeID = 0, !.state = "IDLE"])
    [] OTHER -> s

TickSlot(s, ms) ==
  CASE s.state = "AWAIT_CONFIRMATION" ->
         LET t == Sat(s.RequestTimer, ms) IN
         IF t # 0 THEN [s EXCEPT !.RequestTimer = t]
         ELSE IF s.RetryCount < Retries
           THEN [s EXCEPT !.RequestTimer = Tout, !.RetryCount = @ + 1]
         ELSE [s EXCEPT !.RequestTimer = 0, !.state = "IDLE"]
    [] s.state = "SEGMENTED_RESPONSE_SERVER" ->
         LET t == Sat(s.SegmentTimer, ms) IN
         IF t # 0 THEN [s EXCEPT !.SegmentTimer = t]
         ELSE LET s2 == SegmentRetry(s)
              IN IF s2.SegmentRetryCount # 0
                   THEN FillWindow(s2, s2.InitialSequenceNumber)
                   ELSE [s2 EXCEPT !.state = "IDLE"]
    [] s.state = "SEGMENTED_REQUEST_SERVER" ->
         LET t == Sat(s.SegmentTimer, ms) IN
         IF t # 0 THEN [s EXCEPT !.SegmentTimer = t]
         ELSE FreeBlob([s EXCEPT !.SegmentTimer = 0, !.InvokeID = 0, !.state = "IDLE"])
    [] OTHER -> s

(* Slots whose request timer runs out with no retry left: Timeout_Function *)
(* is called with their invoke id.                                         *)
TimedOut(ms) ==
  {i \in Slots : /\ TSM_List[i].state = "AWAIT_CONFIRMATION"
                 /\ Sat(TSM_List[i].RequestTimer, ms) = 0
                 /\ TSM_List[i].RetryCount >= Retries}

(* Reassembly slots whose segment timer runs out; their peer entries go.   *)
Expired(ms) ==
  {i \in Slots : /\ TSM_List[i].state = "SEGMENTED_REQUEST_SERVER"
                 /\ Sat(TSM_List[i].SegmentTimer, ms) = 0}

Tick(ms) ==
  /\ TSM_List' = [i \in Slots |-> TickSlot(TSM_List[i], ms)]
  /\ TSM_Peer_Ids' =
       [e \in Entries |->
          IF \E i \in Expired(ms) : TSM_List[i].InvokeID = TSM_Peer_Ids[e].InternalInvokeID
            THEN [TSM_Peer_Ids[e] EXCEPT !.InternalInvokeID = 0]
            ELSE TSM_Peer_Ids[e]]
  /\ out' = {TimeoutCb(TSM_List[i].InvokeID) : i \in {j \in TimedOut(ms) :
                                                     TSM_List[j].InvokeID # 0}}
  /\ in' = [peer |-> NoPeer, inv |-> 0]
  /\ UNCHANGED <<Current_Invoke_ID, Duplicate_Count, appInvokeIds>>

-----------------------------------------------------------------------------
(* PDUs from peers.                                                        *)

(* The dispatcher on the final segment: the reassembled blob goes to the   *)
(* service handler and the reassembly slot is released (spec 4.C item 2),  *)
(* then the handler replies.                                               *)
DispatchSegmented(w, i, src, inv, r) ==
  HandlerReply(FreeInvokeIdCheck(Emit(w, Deliver(src, inv, w.L[i].blob)),
                                 w.L[i].InvokeID, src, TRUE),
               src, inv, r)

(* A segment of a segmented confirmed request from src; on the final one   *)
(* the dispatcher hands the blob to the RPM handler, which replies.        *)
SegmentReceived(src, inv, seq) ==
  LET g == GetPeerId(Now, src, inv)
      i == FindIndex(g.w.L, g.id)
  IN /\ in' = [peer |-> src, inv |-> inv]
     /\ UNCHANGED appInvokeIds
     /\ \/ /\ g.id = 0
           /\ Commit(Emit(g.w, Abort(src, inv, "PREEMPTED_BY_HIGHER_PRIORITY_TASK")))
        \/ /\ g.id # 0 /\ i = 0   \* "shall not fail": the bound slot is gone
           /\ Commit(Emit(g.w, Abort(src, inv, "OTHER")))
        \/ /\ g.id # 0 /\ i # 0
           /\ g.w.L[i].state = "IDLE"
           /\ \E win \in Windows : Commit(FirstSegment(g.w, i, src, inv, seq, win))
        \/ /\ g.id # 0 /\ i # 0
           /\ g.w.L[i].state = "SEGMENTED_REQUEST_SERVER"
           /\ \E more \in BOOLEAN :
                LET x == RequestSegment(g.w, i, src, inv, seq, more) IN
                IF x.result
                  THEN \E r \in Replies : Commit(DispatchSegmented(x.w, i, src, inv, r))
                  ELSE Commit(x.w)
        \/ /\ g.id # 0 /\ i # 0
           /\ g.w.L[i].state \in {"AWAIT_CONFIRMATION", "SEGMENTED_RESPONSE_SERVER"}
           /\ Commit(g.w)

(* An unsegmented confirmed request: check_unexpected_pdu_received, then   *)
(* the RPM handler.                                                        *)
UnsegmentedRequest(src, inv) ==
  LET id == LookupPeerId(TSM_Peer_Ids, src, inv)
      i == FindIndex(TSM_List, id)
      busy == id # 0 /\ i # 0 /\ TSM_List[i].state \in
                {"SEGMENTED_RESPONSE_SERVER", "SEGMENTED_REQUEST_SERVER"}
  IN /\ in' = [peer |-> src, inv |-> inv]
     /\ UNCHANGED appInvokeIds
     /\ \/ /\ busy
           /\ Commit(FreeInvokeIdCheck(
                       Emit(Now, Abort(src, inv, "INVALID_APDU_IN_THIS_STATE")),
                       TSM_List[i].InvokeID, src, TRUE))
        \/ /\ ~busy
           /\ \E r \in Replies : Commit(HandlerReply(Now, src, inv, r))

(* tsm_segmentack_received; server is the SRV bit of the Segment-ACK.      *)
SegmentAckReceived(src, inv, seq, win, server) ==
  LET id == IF server THEN inv ELSE LookupPeerId(TSM_Peer_Ids, src, inv)
      i == FindIndex(TSM_List, id)
      ignored == (server /\ inv = 0) \/ id = 0 \/ i = 0
  IN /\ in' = [peer |-> src, inv |-> inv]
     /\ UNCHANGED appInvokeIds
     /\ \/ /\ ignored
           /\ Commit(Now)
        \/ /\ ~ignored
           /\ ~server /\ TSM_List[i].state = "SEGMENTED_RESPONSE_SERVER"
           /\ Commit(ResponseAck(Now, i, seq, win))
        \/ /\ ~ignored
           /\ ~(~server /\ TSM_List[i].state = "SEGMENTED_RESPONSE_SERVER")
           /\ Commit(FreeInvokeIdCheck(
                       Emit([Now EXCEPT !.L[i] = FreeBlob(@)],
                            Abort(src, id, "INVALID_APDU_IN_THIS_STATE")),
                       id, NoPeer, TRUE))

-----------------------------------------------------------------------------
(* The client side: a confirmed request sent unsegmented.                  *)

(* tsm_set_confirmed_unsegmented_transaction                               *)
SetConfirmedUnsegmented(w, id, dest) ==
  LET i == FindIndex(w.L, id) IN
  [w EXCEPT !.L[i].state = "AWAIT_CONFIRMATION", !.L[i].RetryCount = 0,
            !.L[i].RequestTimer = Tout, !.L[i].total = 1, !.L[i].dest = dest]

(* A sender that returns 0 before touching the table: communication      *)
(* disabled by DeviceCommunicationControl, a NULL destination, or (for a   *)
(* WriteProperty) application data that does not fit MAX_APDU.             *)
SendRefused ==
  /\ in' = [peer |-> NoPeer, inv |-> 0]
  /\ Commit(Now)
  /\ UNCHANGED appInvokeIds

(* Send_CEvent_Notify_Address once communication is enabled and dest is    *)
(* set (Send_Write_Property_Request_Data has the same tail):               *)
(* tsm_next_free_invokeID; with an id the NPDU and APDU are encoded, and   *)
(* if pdu_len is below the destination's limit (fits) the transaction is   *)
(* set up and the PDU handed to the datalink, whose failure is only        *)
(* logged; otherwise the id is freed again and 0 returned.                 *)
ConfirmedRequestSend(dest) ==
  LET a == NextFreeInvokeID(Now) IN
  /\ in' = [peer |-> NoPeer, inv |-> 0]
  /\ \/ /\ a.id = 0
        /\ Commit(Now)
        /\ UNCHANGED appInvokeIds
     \/ /\ a.id # 0
        /\ \E fits \in BOOLEAN :
             IF fits
               THEN /\ Commit(SetConfirmedUnsegmented(a.w, a.id, dest))
                    /\ appInvokeIds' = appInvokeIds \cup {a.id}
               ELSE /\ Commit(FreeInvokeId(a.w, a.id))
                    /\ UNCHANGED appInvokeIds

(* Send_CEvent_Notify to a device bound in the address cache: its max_apdu *)
(* is capped at the size of Handler_Transmit_Buffer, then                  *)
(* Send_CEvent_Notify_Address checks communication and sends.  An unbound  *)
(* device returns 0 at once (dest is not in Devices).                      *)
SendCEventNotify(dest) ==
  \/ SendRefused
  \/ ConfirmedRequestSend(dest)

(* Send_Write_Property_Request_Data to a bound device: communication is    *)
(* checked first, then the binding, then the common send.                  *)
SendWritePropertyRequestData(dest) ==
  \/ SendRefused
  \/ ConfirmedRequestSend(dest)

(* Send_Write_Property_Request: the value list is encoded into a local     *)
(* buffer first; a list that reaches MAX_APDU returns 0 before the call.   *)
SendWritePropertyRequest(dest) ==
  \/ SendRefused
  \/ SendWritePropertyRequestData(dest)

(* The dispatcher on a Simple-/Complex-ACK or Error for an awaited request *)
(* frees the invoke id (tsm_free_invoke_id).                               *)
ConfirmationReceived(i) ==
  /\ TSM_List[i].state = "AWAIT_CONFIRMATION"
  /\ in' = [peer |-> TSM_List[i].dest, inv |-> TSM_List[i].InvokeID]
  /\ Commit(FreeInvokeId(Now, TSM_List[i].InvokeID))
  /\ UNCHANGED appInvokeIds

(* The application polls an id it holds: tsm_invoke_id_failed then         *)
(* tsm_free_invoke_id, or tsm_invoke_id_free.                              *)
AppPoll(id) ==
  LET i == FindIndex(TSM_List, id) IN
  /\ in' = [peer |-> NoPeer, inv |-> 0]
  /\ appInvokeIds' = appInvokeIds \ {id}
  /\ \/ /\ i # 0 /\ TSM_List[i].state = "IDLE"
        /\ Commit(FreeInvokeId(Now, id))
     \/ /\ i = 0
        /\ Commit(Now)

-----------------------------------------------------------------------------
Next ==
  \/ \E p \in Peers, inv \in PeerInvokeIds, seq \in Seqs : SegmentReceived(p, inv, seq)
  \/ \E p \in Peers, inv \in PeerInvokeIds : UnsegmentedRequest(p, inv)
  \/ \E p \in Peers, inv \in PeerInvokeIds, seq \in Seqs, win \in Windows :
       SegmentAckReceived(p, inv, seq, win, FALSE)
  \* with the SRV bit set no path reads the sequence number or the window
  \/ \E p \in Peers, id \in 0..(IdMod - 1) : SegmentAckReceived(p, id, 0, 1, TRUE)
  \/ \E p \in Devices : SendWritePropertyRequest(p) \/ SendCEventNotify(p)
  \/ \E i \in Slots : ConfirmationReceived(i)
  \/ \E id \in appInvokeIds : AppPoll(id)
  \/ \E ms \in TickSizes : Tick(ms)

(* The host calls tsm_timer_milliseconds periodically: the timer is fair.  *)
(* Peers and the application may stop at any time.                         *)
Spec == Init /\ [][Next]_vars
FairSpec == Spec /\ \A ms \in TickSizes : WF_vars(Tick(ms))

-----------------------------------------------------------------------------
(* Properties.                                                             *)

SlotType ==
  [InvokeID : 0..(IdMod - 1), state : States, dest : Peers \cup {NoPeer},
   ActualWindowSize : 0..255, InitialSequenceNumber : 0..(SeqMod + MaxRespSegs),
   LastSequenceNumber : Seqs, ReceivedSegmentsCount : 0..(MaxSegsAccepted + 1),
   RetryCount : 0..MaxI(Retries, 255), SegmentRetryCount : 0..255,
   RequestTimer : 0..Tout, SegmentTimer : 0..(4 * Tseg),
   blob : Seq(Seqs), total : 0..MaxRespSegs,
   SentAllSegments : BOOLEAN, hiSent : -1..MaxRespSegs]

TypeOK ==
  /\ TSM_List \in [Slots -> SlotType]
  /\ \A i \in Slots : Len(TSM_List[i].blob) <= MaxSegsAccepted
  /\ TSM_Peer_Ids \in [Entries -> [InternalInvokeID : 0..(IdMod - 1),
                                   PeerInvokeID : PeerInvokeIds \cup {0},
                                   PeerAddress : Peers \cup {NoPeer}]]
  /\ Current_Invoke_ID \in 1..(IdMod - 1)
  /\ Duplicate_Count \in 0..255
  /\ appInvokeIds \subseteq 1..(IdMod - 1)

(* Invoke ids and peer transactions are keys: no two slots of TSM_List     *)
(* hold the same internal invoke id (tsm_next_free_invokeID skips ids in   *)
(* use, across the 255->1 wrap), and no two bound entries of TSM_Peer_Ids  *)
(* are for the same (peer address, peer invoke id) (tsm_get_peer_id_data  *)
(* looks for a match before it creates).                                   *)
TransactionKeysUnique ==
  /\ \A i, j \in Slots :
       i # j /\ TSM_List[i].InvokeID # 0 => TSM_List[i].InvokeID # TSM_List[j].InvokeID
  /\ \A e, f \in Entries :
       /\ e # f
       /\ TSM_Peer_Ids[e].InternalInvokeID # 0
       /\ TSM_Peer_Ids[f].InternalInvokeID # 0
       => \/ TSM_Peer_Ids[e].PeerInvokeID # TSM_Peer_Ids[f].PeerInvokeID
          \/ TSM_Peer_Ids[e].PeerAddress # TSM_Peer_Ids[f].PeerAddress

(* Spec section 3, invariant 2: every bound entry of TSM_Peer_Ids names a  *)
(* slot of TSM_List, and that slot talks to the entry's peer.  Breaks if   *)
(* a path frees a slot (the application's tsm_free_invoke_id, a            *)
(* segment-ack with the SRV bit) without unbinding it, so that a later     *)
(* PDU of that peer lands on a slot reallocated to someone else.           *)
PeerBindingsValid ==
  \A e \in Entries : TSM_Peer_Ids[e].InternalInvokeID # 0 =>
     \E i \in Slots : /\ TSM_List[i].InvokeID = TSM_Peer_Ids[e].InternalInvokeID
                      /\ TSM_List[i].dest = TSM_Peer_Ids[e].PeerAddress

(* Spec section 8: a reassembled request handed to the RPM handler is the  *)
(* concatenation of its segments in sequence order, each exactly once,     *)
(* whatever duplicates, gaps and reorderings the peer's segments went      *)
(* through (tsm_set_segmented_confirmed_service_received).                 *)
ReassembledInOrder ==
  \A e \in out : e.k = "Deliver" =>
     /\ Len(e.blob) >= 1
     /\ e.blob = [j \in 1..Len(e.blob) |-> (j - 1) % SeqMod]

(* A segmented response is completed by a segment-ack (slot freed with no  *)
(* Abort) only after every one of its segments was handed to the datalink: *)
(* the final-ack test of tsm_segmentack_received and InWindow never let a  *)
(* peer acknowledge a segment FillWindow has not sent.                     *)
ResponseCompleteOnlyAfterAllSent ==
  [][\A i \in Slots :
       ( /\ TSM_List[i].state = "SEGMENTED_RESPONSE_SERVER"
         /\ TSM_List'[i].InvokeID = 0
         /\ ~\E e \in out' : e.k = "Abort" )
       => TSM_List[i].hiSent = TSM_List[i].total - 1]_vars

(* Spec section 5: a confirmed request awaiting confirmation is resolved,  *)
(* acknowledged or timed out after apdu_retries() retransmissions, as long *)
(* as the host keeps calling tsm_timer_milliseconds.                       *)
ClientRequestResolves ==
  \A i \in Slots :
     TSM_List[i].state = "AWAIT_CONFIRMATION" ~> TSM_List[i].state # "AWAIT_CONFIRMATION"

(* Spec sections 4.C and 5: a server transaction (a request being         *)
(* reassembled or a segmented response being sent) whose peer goes        *)
(* silent is reclaimed by tsm_timer_milliseconds: the reassembly is        *)
(* dropped when its segment timer runs out, the response is re-sent        *)
(* until SegmentRetryCount is spent.  Only a PDU from that peer (a         *)
(* segment, or a segment-ack that restarts the timer) may hold it longer.  *)
ServerBusy(i) == TSM_List[i].state \in {"SEGMENTED_REQUEST_SERVER", "SEGMENTED_RESPONSE_SERVER"}

ServerTransactionReclaimed ==
  \A i \in Slots : ServerBusy(i) ~> (~ServerBusy(i) \/ in.peer = TSM_List[i].dest)

(* Spec 4.C, segment-ack emission: a segment-ack the server sends for a    *)
(* reassembly names the peer's invoke id and acknowledges the last segment *)
(* taken into the request in order, which is the last one of the blob the *)
(* slot holds, or of the blob the step delivered.  The sender resends from *)
(* the segment after the acknowledged one, so an ack past that point loses *)
(* segments (tsm_set_segmented_confirmed_service_received,                 *)
(* duplicate_segment_received).                                            *)
AckedSegmentTaken(e) ==
  LET id == LookupPeerId(TSM_Peer_Ids', e.peer, e.inv)
      i == FindIndex(TSM_List', id)
  IN \/ \E d \in out' : /\ d.k = "Deliver" /\ d.peer = e.peer /\ d.inv = e.inv
                         /\ e.seq = d.blob[Len(d.blob)]
     \/ /\ id # 0 /\ i # 0 /\ TSM_List'[i].blob # <<>>
        /\ e.seq = TSM_List'[i].blob[Len(TSM_List'[i].blob)]

SegmentAcksMatchReassembly ==
  [][\A e \in out' : e.k = "SegmentAck" => AckedSegmentTaken(e)]_vars

(* Spec 4.C item 4: duplicates are counted per transaction, so the         *)
(* counter of a reassembling slot never exceeds its window and its         *)
(* actual_window_size-th duplicate draws the negative ack.                 *)
DuplicateCountWithinWindow ==
  \A i \in Slots : TSM_List[i].state = "SEGMENTED_REQUEST_SERVER" =>
                     Duplicate_Count <= TSM_List[i].ActualWindowSize

(* Spec section 3, invariant 1 and the lifecycle: a slot that holds an     *)
(* invoke id while Idle is only a client's failed request the application  *)
(* still owns; a server transaction that ends releases its slot.           *)
NoIdleServerSlot ==
  \A i \in Slots : TSM_List[i].InvokeID # 0 /\ TSM_List[i].state = "IDLE"
                     => TSM_List[i].InvokeID \in appInvokeIds

(* Spec section 7: an Abort terminates the transaction, so a request that  *)
(* was aborted is not also handed to the service handler.                  *)
NoDeliveryAfterAbort ==
  ~\E a, d \in out : /\ a.k = "Abort" /\ d.k = "Deliver"
                     /\ a.peer = d.peer /\ a.inv = d.inv

(* A PDU from one peer never ends a transaction held with another peer.    *)
PeerIsolation ==
  [][\A i \in Slots :
       ( /\ TSM_List[i].InvokeID # 0
         /\ TSM_List[i].dest \in Peers
         /\ in'.peer \in Peers
         /\ in'.peer # TSM_List[i].dest )
       => TSM_List'[i].InvokeID = TSM_List[i].InvokeID]_vars

====

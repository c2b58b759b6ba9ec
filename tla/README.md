# TLA+ models of the BACnet transaction state machine with segmentation

This directory holds TLA+ models of the segmentation-capable BACnet server in
`src/`, and the TLC configurations that check them. Every definition in
`TSM.tla`, `Segmentation.tla`, `AnalogObjects.tla` and `RPM.tla` is translated from the C source,
except the few parts whose code is not in the repository (marked
`spec_modelled`). `ObjectService.tla` is the abstract specification, taken
from the spec, that `AnalogObjects` is checked to implement. `PROJECT.json`
maps each definition to the lines it models (`map`). It also lists the runs,
the mutants that show each passing property can fail, the findings, and the
hazards of the code.

## The system

| Part | Source | What it does |
|---|---|---|
| Transaction table | `src/src/bacnet/basic/tsm/tsm.c` (`TSM_List`, `Current_Invoke_ID`) | Fixed table of transaction slots, keyed by an 8-bit internal invoke id that is allocated from a rolling cursor (255 wraps to 1). |
| Peer-invoke map | `tsm.c` (`TSM_Peer_Ids`) | Binds (peer address, peer invoke id) to an internal invoke id, so that server transactions get a slot. |
| Segmentation engine | `tsm.c` | Reassembles segmented requests: sequence check, duplicates counted in the global `Duplicate_Count`, the segment-acks the server sends (`segmentack_pdu_send`), overflow. Sends segmented responses: `FillWindow`, segment-acks, retries. Driven by `tsm_timer_milliseconds`. Segment sizing (`get_apdu_max_segments`, `tsm_pdu_send`) cuts a reply into frames. |
| RPM handler | `src/src/bacnet/basic/service/h_rpm.c` | Encodes a ReadPropertyMultiple reply. A reply larger than `max_resp` goes to `tsm_set_complexack_transaction`. |
| Client senders | `s_wp.c`, `s_cevent.c` | WriteProperty and ConfirmedEventNotification requests: return 0 when communication is disabled, the device is unbound or the data does not fit; otherwise allocate an invoke id and hand the unsegmented request to the table, or free the id if the PDU exceeds the destination's limit. |
| Objects | `ports/arduino_uno/av.c`, `ports/xplained/ai.c` | Analog value and analog input objects: property stores, WriteProperty handlers, the setters the application calls, and the read functions the RPM handler reaches through the device object. |
| Dispatcher, datalink, encoders | not in the repository | Route PDUs to the entry points above (spec 4.E). |

The stack is single-threaded and cooperative (spec section 5). So each C entry
point runs to completion and is one atomic step of the model:
- a received segment, unsegmented request or segment-ack;
- a timer tick;
- a client send;
- an acknowledgement of a client request;
- the application polling an invoke id it holds.

## Modules

`TSM.tla` models the transaction table, the peer map, the segmentation engine,
the client senders and the reply decision of the RPM handler.

- **State.** `TSM_List` is a function from slots to records. The records keep
  the fields of `BACNET_TSM_DATA` that the control flow reads. Byte buffers are
  abstracted: a reassembly blob is the sequence of the sequence numbers
  appended to it, and an outgoing APDU is its segment count (`total`).
  `TSM_Peer_Ids`, `Current_Invoke_ID` and `Duplicate_Count` are the statics of
  `tsm.c`.
- **Ghost variables.** Three variables record what properties look at:
  - `appInvokeIds`: the ids the application holds;
  - `in`: the sender and invoke id of the PDU being handled;
  - `out`: the Aborts, server segment-acks, deliveries and timeout callbacks
    the step produced.
  The slot field `hiSent` records the highest response segment handed to
  `tsm_pdu_send`.
- **Composition.** An action is written as a function from the "world" (all
  statics) to the world after the call. So nested calls compose in the order
  the C makes them, early returns included. Examples:
  - `tsm_get_peer_id` inside `tsm_set_segmented_confirmed_service_received`;
  - `tsm_free_invoke_id_check` inside `tsm_segmentack_received`.
- **Actions.** `SegmentReceived`, `UnsegmentedRequest`, `SegmentAckReceived`,
  `Tick`, `SendWritePropertyRequest`, `SendCEventNotify`,
  `ConfirmationReceived`, `AppPoll`. The two senders share
  `ConfirmedRequestSend` (the common tail of `Send_CEvent_Notify_Address` and
  `Send_Write_Property_Request_Data`) and `SendRefused` (their early returns).
- **Spec-modelled parts.** The dispatcher code is not in the repository. Where
  it matters, it is modelled from spec 4.E and marked `spec_modelled`:
  - `DispatchSegmented`: delivery and release after the final segment;
  - `ConfirmationReceived`;
  - which PDU arrives next (`Next`).
- **Arithmetic.** Invoke ids and sequence numbers are 8-bit. The model scales
  their modulus down to `IdMod` and `SeqMod`, so wraps happen inside the bounds.
  `SegmentRetryCount` keeps its literal `% 256`.

`AnalogObjects.tla` models the analog objects.
- **State.** The statics of `ai.c` (`Present_Value`, `Out_Of_Service`,
  `Units`) and `AV_Present_Value` of `av.c`, as functions over the object
  indexes. `wpResult` records what the last WriteProperty returned, and the history
  variable `wpProperty` the property it named (`wp_data->object_property`).
- **Actions.** `AIWriteProperty` and `AVWriteProperty` take one disjunct per
  `switch` case and early return of the handler. `AIPresentValueSet` and
  `AIUnitsSet` are the application's setter calls. Every setter and getter
  keeps its own `index < MAX_ANALOG_INPUTS` test (`Stored`, `Got`).
- **Reads.** `AIProperties` and `AVProperties` are records keyed by property
  identifier, holding each value with its application tag.
- **Spec-modelled.** The device object (`device.c`) is not in the repository.
  Its routing (`DeviceValidObjectId`, `DeviceReadProperty`) is modelled from
  spec 4.D.
- **Refinement.** `Service == INSTANCE ObjectService WITH ...` maps the stores,
  `wpResult` and `wpProperty` onto the abstract specification below, and
  `ImplementsObjectService` checks `Spec => Service!Spec`.

`ObjectService.tla` is the abstract specification of the analog objects, what
spec 4.D and scenario 3 promise a client. Its state is each input's present
value and out-of-service flag, each analog value's present value, and the
reply to the last write and the property that write named (`written`). Its
actions are:
- the application's sensor reading (`Sense`), allowed at any time;
- a client write of an input's present value (`ClientWriteValue`), allowed
  only while the input is out of service;
- a client write of the service flag (`ClientWriteService`) or of an analog
  value (`ClientWriteAV`);
- an accepted write of a property outside the view, such as units
  (`ClientWriteOther`), that changes none of the state the view holds;
- an accepted write of any property to an input beyond the table that
  changes nothing (`ClientWriteNowhere`);
- a refused write of any property (`ClientRefused`): an error reply, and no
  object changes.

Units are not part of this view. Because each write names its property, a
units write that changes the out-of-service flag (`ai.c:282`) matches no
abstract action, and the `units` run finds it.

`RPM.tla` models `handler_read_property_multiple` (`h_rpm.c`), built with
`BACNET_SEGMENTATION_ENABLED`.
- The handler changes no state: its effect is the PDU it sends. So it is an
  operator `HandleRPM` from a decoded request to that reply, evaluated in
  every state of `AnalogObjects`.
- The two nested `for(;;)` loops and the index loop over an expanded special
  property are `ObjectLoop`, `PropertyLoop` and `ExpandLoop` (RECURSIVE).
  Their loop state is `apdu_len`, the entries encoded, `error`,
  `rpmdata.error_code` and `berror`. Each break is kept where the C has it,
  including the one at line 453 that leaves only the index loop.
- `RPM_Encode_Property` keeps its three buffer checks and their order.
- Bytes are abstracted to lengths. Each encoder of `rpm.c` and `bacdcode.c`
  (not in the repository) is its encoded length, and `memcopy` is `Fits`.
- `SpecReply` is the reply spec 4.D and section 7 describe, written without
  loops. The request is laid out as a sequence of units with their sizes. The
  first unit that is malformed or does not fit decides the reply. Otherwise the
  total length decides between a complex-ack, a segmented one and an Abort.

- `HandOver` is the hand-over at `h_rpm.c:534`. A reply too long for one
  APDU goes to `tsm_set_complexack_transaction` without its 3-byte header,
  and `SegmentedRepliesAsSpec` checks that hand-over with `Segmentation`,
  instantiated as `Seg`.

`Segmentation.tla` models the segment sizing of `tsm.c` as pure operators.
- `HeaderSize` is `get_apdu_header_typical_size`.
- `MaxSegments` is `get_apdu_max_segments`.
- `TransmittableLength` is `bacnet_calc_transmittable_length`, only its
  branch for a reply to a confirmed service.
- `BlobSegment` is `get_apdu_blob_data_segment`.
- `PduSend` is the frame `tsm_pdu_send` builds for segment k: its SEG and
  MORE flags, its sequence number, its header length and the byte range it
  carries.
- `ComplexAckSizing` is the sizing steps of `tsm_set_complexack_transaction`:
  one APDU, Abort `BUFFER_OVERFLOW`, or segments.
- The reference is the spec 4.C rule itself: `SpecSegmentCount` (a ceiling
  division), `SpecFrame` (segment k carries bytes `[k*B, k*B + B)`) and
  `SpecPeerLimit` (min(client max-segments, local cap)).

`TSM` still picks a reply's segment count and outcome nondeterministically
(`Replies`). `Segmentation` shows which combinations are real: the budget
check fails exactly when the count exceeds the client's limit.

`MCRPM.tla` builds the requests:
- two objects of each type, one of them beyond its table;
- individual specifiers, special ones with and without an array index, and an
  undecodable one;
- one group with one or two specifiers, or two groups, or a malformed object id.

`MCTSM.tla` instantiates `TSM` for TLC with the following definitions:
- two peers as model values;
- `PeerSymmetry`;
- `TableView`, `EventView` and `StepView`.

The views identify states that differ only in the fields of *free* slots and
peer entries (InvokeID 0). Every path that takes a free slot or entry again
writes those fields before it reads them. So the fields are dead, and merging
the states loses no behaviour. `EventView` also keeps the blobs delivered by
the last step, and `StepView` keeps `in` and `out`, for the properties that
read them.

## Runs

| Run | Expect | Properties | What it shows |
|---|---|---|---|
| `server` | pass | TypeOK, ReassembledInOrder, SegmentAcksMatchReassembly, ResponseCompleteOnlyAfterAllSent | Configuration: one slot, two peers, windows 1–3, up to 5 segments each way, so sequence numbers wrap mod 4. Reassembly under duplicates, gaps and reordering delivers each segment once and in order. Every segment-ack the server sends (first segment, window close, final segment, out of order, too many duplicates) acknowledges the last segment taken in order. A segmented response completes only after every segment was sent. |
| `multi` | pass | TransactionKeysUnique | Client requests and server reassemblies share the table and the id cursor across its wrap. |
| `reclaim` | pass | ServerTransactionReclaimed | Under weak fairness of the timer, a reassembly or a segmented response whose peer goes silent is released: the segment timer drops the reassembly, and each expiry of a response spends a retry until the slot goes IDLE. |
| `live` | pass | ClientRequestResolves | Under weak fairness of the timer, every request awaiting confirmation is acknowledged or times out. |
| `bindings` | violation | PeerBindingsValid | Seven steps leave a peer binding with no slot (see Findings). |
| `dupcount` | violation | DuplicateCountWithinWindow | Duplicates of two peers are counted together. |
| `idleslot` | violation | NoIdleServerSlot | Server transactions leak their slot and binding. |
| `late` | violation | NoDeliveryAfterAbort | With `4*Tseg > Tout` a request is aborted and still delivered. |
| `isolation` | violation | PeerIsolation | A server-bit segment-ack from one peer frees another peer's transaction. |
| `objects` | pass | TypeOK, RpmRepliesMatchSpec, SegmentedRepliesAsSpec | Every reply handed to `tsm_set_complexack_transaction` is cut as spec 4.C says. It is refused exactly when the client accepts fewer segments (`MAX_SEGMENTS_ACCEPTED = 2`, `max_segs` 0, 2, 4 or 65; replies of up to 3 segments at `max_resp` 50). In every state the objects reach through writes and the application's setters, the RPM handler answers each request of the set as spec 4.D says. This covers results and their order, unknown objects and properties, `PROPERTY_IS_NOT_AN_ARRAY`, an empty OPTIONAL, Rejects, and the sizing decision against `max_resp`. The VIEW `ObjectStateView` leaves out `wpProperty`, which no invariant of this run reads. |
| `units` | violation | ImplementsObjectService | The writes and setters of `AnalogObjects` do not implement `ObjectService`: an accepted `UNITS` write takes an input out of service (see Findings). |
| `overflow` | violation | RpmRepliesMatchSpec | With a 40-byte transmit buffer, a reply that does not fit gets an Abort with the wrong reason, or a Reject in place of the Abort (see Findings). |

### Mutants

Each property of a passing run has a mutant in the module of the operator it replaces, defined just before
that operator. The mutant is a plausible bug in the same code, and
TLC finds the property violated under the run's own configuration.

| Mutant | Original | The bug |
|---|---|---|
| `SatWrapped` | `Sat` | The timer decrement does not saturate at zero. |
| `FirstSegmentAnySeq` | `FirstSegment` | The "sequence number MUST be 0" test is dropped. |
| `InWindowInclusive` | `InWindow` | The upper bound is inclusive. |
| `UnusedFromNoSkip` | `UnusedFrom` | Ids still held are not skipped. |
| `TickSlotNoRetryCount` | `TickSlot` | The retry is not counted. |
| `OutOfOrderAckReceivedSeq` | `OutOfOrderAck` | The negative ack after an out-of-order segment names the segment that arrived, not the last one taken. |
| `SegmentRetryNoCount` | `SegmentRetry` | A segment-timer expiry restarts the timer without spending a retry. |
| `StoredUnchecked` (AnalogObjects) | `Stored` | A setter without its `index < MAX_ANALOG_INPUTS` test writes past the array. |
| `TransmittableLengthNoLocalCap` (Segmentation) | `TransmittableLength` | The client's max-segments is used without the `MAX_SEGMENTS_ACCEPTED` cap. |
| `PropertyStepNoObjectCheck` (RPM) | `PropertyStep` | A special property is expanded without the `Device_Valid_Object_Id` test. |

## Bounds and why they are enough

All runs use the same base values:
- invoke ids wrap at `IdMod = 4`, which is more than `NSlots + 1`, so the
  cursor must skip held ids;
- sequence numbers wrap at `SeqMod = 4`;
- timers count in ticks: `Tout = 4`, `Tseg = 1`, with ticks of 2 ms, so every
  timer takes one or two ticks to expire;
- one invoke id per peer;
- `Retries = 1`, so both a retry and an exhausted retry budget are reached.

What varies:
- **server:** one slot with windows up to 3 and 5 segments. Sequence numbers
  wrap, and the duplicate, out-of-order and window-closing branches of
  reassembly all happen.
- **multi:** two slots and two peers, with the application sending requests
  and single-segment replies, for the interactions between transactions: id
  reuse across the cursor wrap and peer-map sharing. Two slots with
  two-segment replies as well exceed the time budget (over five million
  states), so the shared duplicate counter is the `dupcount` run's question.
- **live and reclaim:** one peer and one slot, without a view, because the
  liveness check needs the full state graph. `live` has the application
  sending requests and single-segment replies; `reclaim` has no application
  requests and replies of up to two segments, so both server states and both
  timer expiries happen. Together they would exceed the time budget.
- **objects:** one analog input and one analog value, with instance 1 beyond
  both tables. Reals `{0, 1}` and units `{0, 300}`: 300 takes a 3-byte
  encoding, so the reply length depends on the state. `max_resp` is 50 or 480.
  An ALL reply of about 70 bytes crosses 50, so both the segmented and the
  Abort branch of the sizing decision happen. The 1476-byte buffer never
  overflows; overflow is the `overflow` run's question. The 116 states are
  every combination of the object values and write results.
- **objects, segmentation:** at `max_resp` 50 a segment carries 45 bytes,
  and the replies of the request set run to 132 bytes of service data, so
  they take 2 or 3 segments. With `MAX_SEGMENTS_ACCEPTED = 2` and `max_segs`
  of 0 (unspecified), 2, 4 (above the local cap) and 65 ("more than 64"),
  both the refused and the sent outcomes happen for each kind of limit.
- **Violation runs:** the smallest configuration that exposes their
  behaviour. For example, `late` uses `Tout = 2`, `Tseg = 1`, and `overflow`
  uses a 40-byte buffer, which an ALL expansion overruns.

Between them, the passing runs fire every action of both `Next` relations.

## Fairness

Only `Tick` is weakly fair (`FairSpec`), because the host calls
`tsm_timer_milliseconds` periodically (spec section 5). Peers and the
application get no fairness: a peer may stop sending or keep sending
duplicates. So the liveness claimed for server slots
(`ServerTransactionReclaimed`) is conditional: a reassembly or a segmented
response ends unless a PDU from its own peer keeps arriving. A peer that
keeps sending out-of-window segment-acks does hold a response slot forever,
as the spec's state table prescribes (restart the timer on a duplicate ack);
this is listed as a hazard.

## Findings

Each finding is a violation run. Details are in `PROJECT.json`.

1. **`PeerBindingsValid`.** The chain has five steps:
   1. A first segment with a bad window leaves p2's slot IDLE but bound (`tsm.c:747`).
   2. A server-bit segment-ack frees the application's AWAIT slot (`tsm.c:1250`).
   3. The cursor wraps and reallocates that id to p2's server transaction.
   4. The application, still holding the id, sees `tsm_invoke_id_failed` and
      calls `tsm_free_invoke_id`.
   5. That call frees p2's slot without clearing its binding (`tsm.c:317`).
2. **`DuplicateCountWithinWindow`.** The global `Duplicate_Count` (`tsm.c:31`)
   is shared by all reassemblies.
3. **`NoIdleServerSlot`.** `tsm.c:747` and `tsm.c:1352` go IDLE without
   freeing the id or the binding.
4. **`NoDeliveryAfterAbort`.** `tsm.c:784` aborts, then continues the same
   segment.
5. **`PeerIsolation`.** Server-bit acks free slots with no address check
   (`tsm.c:1250`).
6. **`RpmRepliesMatchSpec`, the abort reason.** `RPM_Encode_Property`
   (`h_rpm.c:133`, `:170`, `:179`) aborts with `SEGMENTATION_NOT_SUPPORTED`.
   With segmentation compiled in, spec 4.D step 4 asks for `BUFFER_OVERFLOW`.
7. **`RpmRepliesMatchSpec`, the reply kind.** The break at `h_rpm.c:453`
   leaves only the index loop of an ALL or REQUIRED expansion. The property
   loop then goes on with `berror` set. A following malformed specifier
   overwrites `error`, so the request (AI 0: ALL, undecodable) gets a Reject
   instead of the Abort. Spec section 7 says the first fatal error decides
   the reply.
8. **`ImplementsObjectService`.** A WriteProperty of `UNITS` (`ai.c:282`)
   calls `Analog_Input_Out_Of_Service_Set` with the enumerated value, so a
   non-zero unit sets the out-of-service flag and leaves `Units` as it was.
   Spec section 9 says it should set the units. Writing units thus takes the
   input out of service and unlocks client writes of `Present_Value`.

## Observations

These defects are real, but each is a single assignment seen in one step, so
no run is kept for them. The model reproduces each of them faithfully.

- **`tsm.c:1218`.** A segment-ack's actual window size is stored without
  the 1..127 check the first segment gets; spec section 3, invariant 4 calls
  0 a protocol error. With window 0 `FillWindow` sends nothing, no ack can
  be in the window, and the response dies when its retries run out, leaving
  the slot IDLE but held (finding 3).
- **`tsm.c:838`, ack positions.** Spec scenario 5 (window 4, six segments)
  puts the window ack at sequence 3. The code closes a window when the
  sequence reaches `InitialSequenceNumber + ActualWindowSize`, so it acks
  0, 4 and 5. `SegmentAcksMatchReassembly` holds either way: each ack names
  the last segment taken.
- **`tsm.c:1343`.** The response retry counter is decremented before it is
  tested. With `apdu_retries() = 0` it wraps to 255, so the window is re-sent
  255 times.
- **`tsm.c:1247`.** A segment-ack with the SRV bit clear is looked up in
  the peer map, so `invoke_id` becomes the internal id (`tsm.c:1188`). When
  the slot is not sending a response, the Abort goes out with that internal
  id, which the peer cannot match to its transaction. Every other Abort of
  `tsm.c` names the peer's id.
- **`av.c:162`.** On a decode failure the error goes to `wp_data`, and the
  `error_class`/`error_code` out-parameters keep the caller's values (`UNSET`
  in the model).

## Not modelled

- **Byte-level work:** blob growth (`add_blob_data` grows linearly; spec
  section 9), the NPDU, the encoders and the datalink.
  - In `TSM` a send is modelled only by its outcome, and a response by its
    segment count and the two checks that can fail it: `fits` (the budget
    check) and `sent` (the first send).
  - The segment sizing behind `fits` is in `Segmentation`. Its
    `check_write_apdu_space` test against `Transmit_Buffer` is left out,
    because a frame of at most `MAX_APDU` bytes plus an NPDU fits `MAX_PDU`.
  - The address-book branch of `bacnet_calc_transmittable_length` is not
    modelled, because client requests are sent unsegmented.
- **`tsm_set_confirmed_unsegmented_transaction` copying through `plist->apdu`.**
  Only the segmented path allocates that pointer. Whether this is a NULL write
  depends on `tsm.h`, which is not in the repository, so it is a hazard without
  a run.
- **The RPM handler's indefinite-instance substitution** (DEVICE and
  NETWORK_PORT with instance 4194303). These need the device object, which is
  not in the repository, and the model has no device object.
- **The RPM reply inside the transaction table.** `TSM` models a large
  reply only by its segment count. The reply's length is composed with the
  segment sizing in `RPM` (`SegmentedRepliesAsSpec`), but not with the
  table's state machine. Doing both at once would multiply the `TSM` state
  space by the request set.
- **The bytes of the server's segment-acks.** The acks are events with
  their sequence number and polarity; the window they carry and their
  encoding are left out.

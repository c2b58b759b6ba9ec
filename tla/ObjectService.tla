--------------------------- MODULE ObjectService ---------------------------
(***************************************************************************)
(* What the analog objects promise, with the code left out (spec 4.D and  *)
(* scenario 3).  An analog input's present value follows the application  *)
(* (a new sensor reading) at any time; a client may overwrite it only     *)
(* while the input is out of service.  A client may take an input in or   *)
(* out of service and may write an analog value's present value.  Every  *)
(* client write answers with a reply, and a write that is refused leaves  *)
(* every object as it was.  Engineering units are not part of this view: *)
(* an accepted write of any other property leaves every object as it was.*)
(***************************************************************************)
EXTENDS Integers

CONSTANTS
  AIs,          \* the analog inputs that exist
  AVs,          \* the analog values that exist
  Instances,    \* instances a request may name
  Reals,        \* REAL values written or sensed
  Props         \* properties a client write may name

VARIABLES
  pv,           \* present value of each analog input
  oos,          \* out-of-service flag of each analog input
  avpv,         \* present value of each analog value
  reply,        \* the reply to the last client write
  written       \* the property the last client write named

objects == <<pv, oos, avpv>>
vars == <<pv, oos, avpv, reply, written>>

NoProperty == "NONE"

Accepted == [ok |-> TRUE, cls |-> "", code |-> ""]
Unanswered == [ok |-> FALSE, cls |-> "", code |-> ""]

Init ==
  /\ pv = [i \in AIs |-> 0]
  /\ oos = [i \in AIs |-> FALSE]
  /\ avpv = [i \in AVs |-> 0]
  /\ reply = Unanswered
  /\ written = NoProperty

(* A client overwrites an input's present value: only out of service.     *)
ClientWriteValue(i, r) ==
  /\ i \in AIs /\ oos[i]
  /\ pv' = [pv EXCEPT ![i] = r]
  /\ reply' = Accepted /\ written' = "PRESENT_VALUE"
  /\ UNCHANGED <<oos, avpv>>

(* A client takes an input out of service or back in.                     *)
ClientWriteService(i, b) ==
  /\ i \in AIs
  /\ oos' = [oos EXCEPT ![i] = b]
  /\ reply' = Accepted /\ written' = "OUT_OF_SERVICE"
  /\ UNCHANGED <<pv, avpv>>

(* A client writes an analog value's present value.                       *)
ClientWriteAV(i, r) ==
  /\ i \in AVs
  /\ avpv' = [avpv EXCEPT ![i] = r]
  /\ reply' = Accepted /\ written' = "PRESENT_VALUE"
  /\ UNCHANGED <<pv, oos>>

(* An accepted write of a property outside this view (engineering units) *)
(* changes none of the objects' state that this view holds.              *)
ClientWriteOther(p) ==
  /\ p \in Props \ {"PRESENT_VALUE", "OUT_OF_SERVICE"}
  /\ reply' = Accepted /\ written' = p
  /\ UNCHANGED objects

(* A write accepted for an input that does not exist has no effect.       *)
ClientWriteNowhere(i, p) ==
  /\ i \in Instances \ AIs
  /\ reply' = Accepted /\ written' = p
  /\ UNCHANGED objects

(* A refused write: an error reply, and nothing else changes.             *)
ClientRefused(p) ==
  /\ reply'.ok = FALSE /\ written' = p
  /\ UNCHANGED objects

(* The application's sensor reading reaches an input.                     *)
Sense(i, r) ==
  /\ i \in AIs
  /\ pv' = [pv EXCEPT ![i] = r]
  /\ UNCHANGED <<oos, avpv, reply, written>>

Next ==
  \/ \E i \in Instances, r \in Reals : ClientWriteValue(i, r) \/ ClientWriteAV(i, r)
  \/ \E i \in Instances, b \in BOOLEAN : ClientWriteService(i, b)
  \/ \E p \in Props : ClientWriteOther(p) \/ ClientRefused(p)
  \/ \E i \in Instances, p \in Props : ClientWriteNowhere(i, p)
  \/ \E i \in Instances, r \in Reals : Sense(i, r)

Spec == Init /\ [][Next]_vars

====

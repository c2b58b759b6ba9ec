------------------------------- MODULE MCTSM -------------------------------
(* Model-checking instance of TSM: peers are model values, invoke ids and  *)
(* sequence numbers are scaled down from 8 bits so that both wrap inside   *)
(* the bounds.                                                             *)
EXTENDS TSM, TLC

CONSTANTS p1, p2

MCPeers == {p1, p2}
PeerSymmetry == Permutations(MCPeers)
OnePeer == {p1}

(* A slot whose InvokeID is 0 is free: every path that takes it again      *)
(* (tsm_next_free_invokeID followed by tsm_get_peer_id,                    *)
(* tsm_set_confirmed_unsegmented_transaction or the segmented cases)       *)
(* writes its state, dest, timers, counters, window and buffers before     *)
(* reading them.  The views identify states that differ only in these      *)
(* dead fields.                                                            *)
LiveSlot(s) == IF s.InvokeID = 0 THEN FreeSlot ELSE s

LiveTable == [i \in Slots |-> LiveSlot(TSM_List[i])]

(* An entry of TSM_Peer_Ids whose InternalInvokeID is 0 is free: the       *)
(* lookup skips it and tsm_get_peer_id_data overwrites all of it.          *)
LiveEntries == [e \in Entries |-> IF TSM_Peer_Ids[e].InternalInvokeID = 0
                                    THEN NoEntry ELSE TSM_Peer_Ids[e]]

(* For runs whose properties read only the tables.                         *)
TableView == <<LiveTable, LiveEntries, Current_Invoke_ID, Duplicate_Count,
               appInvokeIds>>

(* For runs whose properties also read what the last step delivered.      *)
DeliveredBlobs == {e.blob : e \in {d \in out : d.k = "Deliver"}}

EventView == <<TableView, DeliveredBlobs>>

(* For runs whose properties also read which PDU the last step handled.    *)
StepView == <<LiveTable, LiveEntries, Current_Invoke_ID, Duplicate_Count,
              appInvokeIds, in, out>>
====

------------------------------- MODULE MCIpfix -------------------------------
(***************************************************************************)
(* Small instances of Ipfix and of TemplateStore, which details the store  *)
(* that Ipfix has as a set.  Simple records have one length; those with    *)
(* the initial data packet are that long when the packet is empty, and do  *)
(* not fit in any message when it is large.                                *)
(***************************************************************************)
EXTENDS Ipfix

MCRecordLens == [simple |-> {2}, idp |-> {2, 3, 6}]
MCMinRecordLen == [simple |-> 2, idp |-> 2]

CONSTANTS NULL, Templates, TemplateKeys

VARIABLES
  head, tail, next, prev, template_key, last_seen, cts_count,
  adding, room, cursor, current_time, exiting,
  part              \* what is looked at: "messages" or "store"

INSTANCE TemplateStore WITH MAX_IPFIX_TEMPLATES <- 4, CTS_EXPIRE_TIME <- 1

storeOnly == <<head, tail, next, prev, template_key, last_seen, cts_count,
               adding, room, cursor, current_time, exiting>>

MCInit == Init /\ StoreInit /\ part \in {"messages", "store"}
MCNext ==
  /\ \/ /\ part = "messages" /\ Next
        /\ UNCHANGED storeOnly
     \/ /\ part = "store" /\ StoreNext
        /\ UNCHANGED <<exporterVars, collectorVars, onWire, steady>>
  /\ UNCHANGED part
MCSpec == MCInit /\ [][MCNext]_<<vars, storeOnly, part>>
=============================================================================

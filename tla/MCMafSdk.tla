------------------------------ MODULE MCMafSdk ------------------------------
(* Four events in pages of three rows of which two fit; operations of each *)
(* kind; two billing systems.                                              *)
EXTENDS MafSdk

MCOps ==
    {"create_call", "publish_event", "delete_did",
     "update_control_resource", "health"}
=============================================================================

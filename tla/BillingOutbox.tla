--------------------------- MODULE BillingOutbox ---------------------------
(***************************************************************************)
(* The outbox of billing events, between publishers and billing systems    *)
(* that use the carrier SDK (madis_carrier.py): events are published,      *)
(* fetched by pending_events, processed and acknowledged one by one.  The  *)
(* answer to any request may be lost, which ends a billing system with an  *)
(* exception in the middle of a batch; the next one fetches again.         *)
(***************************************************************************)
EXTENDS Integers, FiniteSets

CONSTANTS
    Bills,       \* identities of events, ordered as they occur
    Billers,     \* billing systems
    BatchLimit,  \* limit of pending_events
    MaxCrashes   \* bound of the instance

ASSUME OutboxAssumption ==
    Bills \subseteq Nat /\ IsFiniteSet(Bills) /\ BatchLimit \in Nat \ {0} /\ MaxCrashes \in Nat

VARIABLES
    bill,        \* billing_events: none, pending or delivered
    batch,       \* what a billing system has fetched and not yet finished
    processed,   \* what it has ever processed
    crashes

billVars == <<bill, batch, processed, crashes>>

OutboxInit ==
    /\ bill = [e \in Bills |-> "none"]
    /\ batch = [b \in Billers |-> {}]
    /\ processed = [b \in Billers |-> {}] /\ crashes = 0

\* ON CONFLICT (event_id) DO NOTHING: an event that is published again, its
\* answer lost, is stored once, be it delivered or not
Published(e) == IF bill[e] = "none" THEN [bill EXCEPT ![e] = "pending"] ELSE bill

Publish(e) == bill' = Published(e) /\ UNCHANGED <<batch, processed, crashes>>

\* Mutation: delivered events are fetched too
Due_All == {e \in Bills : bill[e] # "none"}

\* delivered_at IS NULL
Due == {e \in Bills : bill[e] = "pending"}

\* pending_events: the oldest ones
pending_events(b) ==
    /\ batch[b] = {} /\ Due # {}
    /\ batch' = [batch EXCEPT ![b] = {e \in Due : Cardinality({f \in Due : f < e}) < BatchLimit}]
    /\ UNCHANGED <<bill, processed, crashes>>

\* the billing system processes an event, of which it may have fetched a copy
Process(b, e) ==
    /\ e \in batch[b] \ processed[b]
    /\ processed' = [processed EXCEPT ![b] = @ \cup {e}]
    /\ UNCHANGED <<bill, batch, crashes>>

\* carrier_api_ack; an event that is acknowledged twice stays delivered
Acked(e) == [bill EXCEPT ![e] = "delivered"]

\* ack of an event it has processed; the answer comes, or the error ends it
ack(b, e) ==
    /\ e \in batch[b] /\ e \in processed[b]
    /\ bill' = Acked(e)
    /\ \/ batch' = [batch EXCEPT ![b] = @ \ {e}] /\ UNCHANGED crashes
       \/ crashes < MaxCrashes /\ crashes' = crashes + 1 /\ batch' = [batch EXCEPT ![b] = {}]
    /\ UNCHANGED processed

\* a request fails before it reaches the server, or the billing system ends
Crash(b) ==
    /\ batch[b] # {} /\ crashes < MaxCrashes
    /\ batch' = [batch EXCEPT ![b] = {}] /\ crashes' = crashes + 1
    /\ UNCHANGED <<bill, processed>>

---------------------------------------------------------------------------
(* Properties *)

\* Every event that is published is delivered in the end, though batches are
\* bounded and billing systems crash between the steps.
Billed == \A e \in Bills : bill[e] = "pending" ~> bill[e] = "delivered"
=============================================================================

------------------------------ MODULE MafSdk ------------------------------
(***************************************************************************)
(* One program that uses the SDKs of Madis, at work against the server:    *)
(* an application that performs operations, one that follows the events,   *)
(* the example click_to_call, or a billing system.  Which one it is        *)
(* chooses the initial state; the others do nothing.  Meanwhile workers of *)
(* the server emit events.                                                 *)
(***************************************************************************)
EXTENDS MafEvents, MafClient, BillingOutbox

Programs == {"operations", "subscriber", "click_to_call", "billing"}

VARIABLE program

sdkVars == <<program, eventVars, clientVars, billVars>>

SdkInit ==
    /\ program \in Programs
    /\ EventsInit /\ ClientInit /\ OutboxInit
    /\ program # "operations" => op = "create_call" /\ ~ given

Request ==
    \/ NoAnswer
    \/ \E m \in wire : Unreachable(m) \/ Serve(m) \/ RefuseRequest(m)

Operations == program = "operations" /\ (Perform \/ Request) /\ UNCHANGED <<eventVars, billVars>>

ClickToCall ==
    /\ program = "click_to_call"
    /\ ClickCreate \/ ClickCreated \/ ClickPoll \/ Request
    /\ UNCHANGED <<eventVars, billVars>>

\* the server, of which the subscriber and event_monitor see the events
Emit == Insert \/ \E s \in SequenceNumbers : Abort(s)

Subscriber ==
    /\ program = "subscriber"
    /\ Emit \/ PollDies \/ Break \/ MonitorRound
    /\ UNCHANGED <<clientVars, billVars>>

Following(A) == program = "subscriber" /\ A /\ UNCHANGED <<clientVars, billVars>>
Committed == Following(\E s \in SequenceNumbers : Commit(s))
Polled == Following(PollPage)
Yielded == Following(Yield)
AdvancedOn == Following(Advance)
Resumed == Following(Resume)

Publisher ==
    /\ program = "billing" /\ \E e \in Bills : Publish(e)
    /\ UNCHANGED <<eventVars, clientVars>>

BillerCrash ==
    /\ program = "billing" /\ \E b \in Billers : Crash(b)
    /\ UNCHANGED <<eventVars, clientVars>>

BillerStep(b) ==
    /\ program = "billing"
    /\ pending_events(b) \/ \E e \in Bills : Process(b, e) \/ ack(b, e)
    /\ UNCHANGED <<eventVars, clientVars>>

SdkNext ==
    /\ \/ Operations \/ ClickToCall
       \/ Subscriber \/ Committed \/ Polled \/ Yielded \/ AdvancedOn \/ Resumed
       \/ Publisher \/ BillerCrash \/ \E b \in Billers : BillerStep(b)
    /\ UNCHANGED program

\* Transactions end; a program that is not stuck goes on, and an application
\* whose subscription ended subscribes again.
SdkFairness ==
    /\ WF_sdkVars(Committed /\ UNCHANGED program)
    /\ WF_sdkVars(Polled /\ UNCHANGED program)
    /\ WF_sdkVars(Yielded /\ UNCHANGED program)
    /\ WF_sdkVars(AdvancedOn /\ UNCHANGED program)
    /\ WF_sdkVars(Resumed /\ UNCHANGED program)
    /\ \A b \in Billers : WF_sdkVars(BillerStep(b) /\ UNCHANGED program)

SdkSpec == SdkInit /\ [][SdkNext]_sdkVars /\ SdkFairness

---------------------------------------------------------------------------
(* Properties *)

\* A follower that does not stop for good catches up: an event that can be read
\* is given to it in the end, unless it was cut off or came behind the cursor.
CatchesUp ==
    \A s \in SequenceNumbers :
       program = "subscriber" /\ row[s] = "visible" ~> s \in got \cup cut \cup late
=============================================================================

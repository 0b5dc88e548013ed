----------------------------- MODULE MafEvents -----------------------------
(***************************************************************************)
(* The events of MAF and who follows them: the table maf_events, read page *)
(* by page by the handler of GET /events (maf_api.mko), the generator      *)
(* subscribe of the Python SDK and the loop of the example event_monitor.  *)
(*                                                                         *)
(* The database gives a row its sequence when it is inserted and shows it  *)
(* when its transaction commits, so rows of concurrent connections become  *)
(* visible out of order.  Only rows that match the filter of the follower  *)
(* are modelled: the others are gaps in the sequence.                      *)
(***************************************************************************)
EXTENDS Integers, FiniteSets, FiniteSetsExt

CONSTANTS
    MaxEvents,   \* bound of the instance: rows
    PageLimit,   \* rows of a page: the limit parameter
    Fit,         \* rows whose text fits into the answer
    MaxBreaks    \* bound of the instance: polls that end the subscription

ASSUME EventsAssumption ==
    /\ MaxEvents \in Nat /\ MaxBreaks \in Nat
    /\ PageLimit \in Nat \ {0} /\ Fit \in 1 .. PageLimit

SequenceNumbers == 1 .. MaxEvents

VARIABLES
    row,      \* a row of maf_events: none, open, visible or gone
    next,     \* the next sequence
    sub,      \* where subscribe is: poll, yield or dead
    cur,      \* its cursor
    todo, hidden, pageNext,  \* the page it yields: events left, rows cut off, next_cursor
    got, last,               \* what the application was given
    cut, late,               \* history: rows passed over by a cut, or committed behind the cursor
    breaks,
    monitor   \* event_monitor: its cursor, whether it is a string, what it printed

rowVars == <<row, next>>
subVars == <<sub, cur, todo, hidden, pageNext, got, last, cut, late, breaks>>
eventVars == <<rowVars, subVars, monitor>>

EventsInit ==
    /\ row = [s \in SequenceNumbers |-> "none"] /\ next = 1
    /\ sub = "poll" /\ cur = 0 /\ todo = {} /\ hidden = {} /\ pageNext = 0
    /\ got = {} /\ last = 0 /\ cut = {} /\ late = {} /\ breaks = 0
    /\ monitor = [cursor |-> 0, text |-> FALSE, printed |-> {}]

Visible == {s \in SequenceNumbers : row[s] = "visible"}

---------------------------------------------------------------------------
(* The server *)

\* maf_api_emit_event: the row gets its sequence
Insert ==
    /\ next <= MaxEvents
    /\ row' = [row EXCEPT ![next] = "open"] /\ next' = next + 1
    /\ UNCHANGED <<subVars, monitor>>

\* how far the subscription has read
Horizon == Max({cur, pageNext, last})

Commit(s) ==
    /\ row[s] = "open"
    /\ row' = [row EXCEPT ![s] = "visible"]
    /\ late' = IF s <= Horizon THEN late \cup {s} ELSE late
    /\ UNCHANGED <<next, sub, cur, todo, hidden, pageNext, got, last, cut, breaks, monitor>>

\* the transaction fails: the sequence is left out
Abort(s) ==
    /\ row[s] = "open"
    /\ row' = [row EXCEPT ![s] = "gone"]
    /\ UNCHANGED <<next, subVars, monitor>>

Least(n, S) == {s \in S : Cardinality({q \in S : q < s}) < n}

\* Mutation: the newest rows first
PageRows_Newest(after) ==
    LET S == {s \in Visible : s > after} IN {s \in S : Cardinality({q \in S : q > s}) < PageLimit}

\* Mutation: no page before it is full
PageRows_Full(after) ==
    LET S == {s \in Visible : s > after} IN IF Cardinality(S) < PageLimit THEN {} ELSE Least(PageLimit, S)

\* the rows of a page, ORDER BY sequence ASC
PageRows(after) == Least(PageLimit, {s \in Visible : s > after})

\* the answer is cut when it gets too long, and next_cursor is the sequence of
\* the last row all the same
maf_api_events_filtered(after) ==
    LET rows == PageRows(after) IN
    [events |-> Least(Fit, rows),
     hidden |-> rows \ Least(Fit, rows),
     next_cursor |-> IF rows = {} THEN after ELSE Max(rows)]

---------------------------------------------------------------------------
(* subscribe *)

\* a page comes; an empty one, or a MafError, leaves everything as it is
PollPage ==
    /\ sub = "poll"
    /\ \E page \in {maf_api_events_filtered(cur)} :
          /\ page.events # {}
          /\ todo' = page.events /\ hidden' = page.hidden /\ pageNext' = page.next_cursor
    /\ sub' = "yield"
    /\ UNCHANGED <<rowVars, cur, got, last, cut, late, breaks, monitor>>

\* a timeout while the answer is awaited is no MafError and ends the generator
PollDies ==
    /\ sub = "poll" /\ breaks < MaxBreaks
    /\ sub' = "dead" /\ breaks' = breaks + 1
    /\ UNCHANGED <<rowVars, cur, todo, hidden, pageNext, got, last, cut, late, monitor>>

\* the event yielded next
Upcoming == Least(1, todo)

Yield ==
    /\ sub = "yield"
    /\ \E s \in Upcoming : todo' = todo \ {s} /\ got' = got \cup {s} /\ last' = s
    /\ UNCHANGED <<rowVars, sub, cur, hidden, pageNext, cut, late, breaks, monitor>>

\* Mutation: the cursor of the page is not taken over
Advanced_Never == cur

\* the cursor never goes back
Advanced == IF pageNext > cur THEN pageNext ELSE cur

\* the whole page is yielded; the cursor passes over what was cut off
Advance ==
    /\ sub = "yield" /\ todo = {}
    /\ cur' = Advanced /\ cut' = cut \cup hidden
    /\ hidden' = {} /\ pageNext' = 0 /\ sub' = "poll"
    /\ UNCHANGED <<rowVars, todo, got, last, late, breaks, monitor>>

\* the application ends while it works on an event
Break ==
    /\ sub = "yield" /\ breaks < MaxBreaks
    /\ sub' = "dead" /\ breaks' = breaks + 1
    /\ todo' = {} /\ hidden' = {} /\ pageNext' = 0
    /\ UNCHANGED <<rowVars, cur, got, last, cut, late, monitor>>

\* it subscribes again, from the sequence of the last event it was given
Resume ==
    /\ sub = "dead"
    /\ sub' = "poll" /\ cur' = last
    /\ UNCHANGED <<rowVars, todo, hidden, pageNext, got, last, cut, late, breaks, monitor>>

---------------------------------------------------------------------------
(* event_monitor *)

\* events of the SDK: one page; called with a string it raises TypeError
events(cursor) == maf_api_events_filtered(cursor)

\* next_cursor is a string, which is never equal to a number
NewCursor(page) == [monitor EXCEPT !.cursor = page.next_cursor, !.text = TRUE]

\* one round of main; events() compares the cursor with 0, which fails for a
\* string: the error is taken for one of the network and the round repeated
MonitorRound ==
    /\ ~ monitor.text
    /\ \E page \in {events(monitor.cursor)} :
          monitor' = [NewCursor(page) EXCEPT !.printed = @ \cup page.events]
    /\ UNCHANGED <<rowVars, subVars>>

---------------------------------------------------------------------------
(* Properties *)

\* No event is lost without a reason: one that is visible and behind the cursor
\* was given, is about to be given, was cut off a page that was too long, or was
\* committed after an event with a higher sequence had been read.
LossAccounted ==
    \A s \in Visible : s <= Horizon
                          => s \in got \cup todo \cup hidden \cup cut \cup late

Feed == INSTANCE EventFeed WITH committed <- Visible

\* The subscription refines the feed: through errors, timeouts and restarts the
\* application gets committed events in the order of their sequence, each once.
ImplementsFeed == Feed!Spec
=============================================================================

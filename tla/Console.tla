------------------------------ MODULE Console -------------------------------
(***************************************************************************)
(* The traffic console (tools/console.py): a store of events that hands    *)
(* each new one to the queues of the streams open at that moment, and the  *)
(* page that shows them: it fetches a first batch, then opens a stream,    *)
(* which the browser opens again whenever it breaks.                       *)
(*                                                                         *)
(* An event is its row id.  One page is open.                              *)
(***************************************************************************)
EXTENDS Integers, Sequences

CONSTANTS
    QueueSize,  \* maxsize of a subscriber's queue (1024 in the code)
    MaxRows,    \* MAX_ROWS of the page (500 in the code)
    Limit,      \* the page's limit on /api/events (200 in the code)
    MaxEvents,  \* bound: events that reach the console
    MaxClicks   \* bound: clicks on the page, and breaks of its stream

ASSUME ConsoleAssumption ==
    /\ QueueSize \in Nat \ {0} /\ MaxRows \in Nat \ {0} /\ Limit \in Nat \ {0}
    /\ MaxEvents \in Nat /\ MaxClicks \in Nat

VARIABLES
    stored,     \* the ids in the table are 1..stored
    queue,      \* the queue of the page's stream
    page,       \* "load", "fetched", "live", or "lost": no stream for now
    rows,       \* the rows of the page, as ids
    paused,     \* `paused`
    pending,    \* `pending`
    clicks      \* counts clicks and breaks

pageVars == <<rows, paused, pending>>
consoleVars == <<stored, queue, page, pageVars, clicks>>

ConsoleInit ==
    /\ stored = 0 /\ queue = <<>> /\ page = "load"
    /\ rows = <<>> /\ paused = FALSE /\ pending = <<>>
    /\ clicks = 0

SmallOf(a, b) == IF a <= b THEN a ELSE b
Upto(n) == [i \in 1..n |-> i]

\* Mutant of Newest: no limit.
NewestAll(s) == s

\* The page removes its first rows beyond MAX_ROWS.
Newest(s) == IF Len(s) <= MaxRows THEN s ELSE SubSeq(s, Len(s) - MaxRows + 1, Len(s))

\* Mutant of AppendRows: a paused page drops what comes.
AppendUnlessPaused(ids) ==
    IF paused THEN UNCHANGED <<rows, pending>>
    ELSE rows' = Newest(rows \o ids) /\ UNCHANGED pending

\* append, for one event after the other.
AppendRows(ids) ==
    IF paused THEN pending' = pending \o ids /\ UNCHANGED rows
    ELSE rows' = Newest(rows \o ids) /\ UNCHANGED pending

\* Store.insert: the row gets its id and goes to every queue that has room.
Insert ==
    /\ stored < MaxEvents /\ stored' = stored + 1
    /\ IF page = "live" /\ Len(queue) < QueueSize
       THEN queue' = Append(queue, stored') ELSE UNCHANGED queue
    /\ UNCHANGED <<page, pageVars, clicks>>

\* connect fetches /api/events?limit=200: Store.recent, the first rows from id 1.
\* An error is ignored.
FetchRows ==
    /\ page = "load" /\ page' = "fetched"
    /\ \E ids \in {<<>>, Upto(SmallOf(stored, Limit))} : AppendRows(ids)
    /\ UNCHANGED <<stored, queue, paused, clicks>>

\* Mutant of OpenStream: the rows are fetched again with each stream.
OpenStreamRefetches ==
    /\ page \in {"fetched", "lost"} /\ page' = "live" /\ queue' = <<>>
    /\ IF page = "lost" THEN AppendRows(Upto(SmallOf(stored, Limit)))
       ELSE UNCHANGED <<rows, pending>>
    /\ UNCHANGED <<stored, paused, clicks>>

\* /api/stream: a fresh queue, for what is inserted from now on.
OpenStream ==
    /\ page \in {"fetched", "lost"} /\ page' = "live" /\ queue' = <<>>
    /\ UNCHANGED <<stored, pageVars, clicks>>

\* stream takes an event from the queue and onmessage appends it.
StreamEvent ==
    /\ page = "live" /\ queue # <<>>
    /\ queue' = Tail(queue) /\ AppendRows(<<Head(queue)>>)
    /\ UNCHANGED <<stored, page, paused, clicks>>

\* The stream breaks.  Its queue stays with the store until stream notices, but
\* nobody reads it any more.
StreamBreaks ==
    /\ page = "live" /\ page' = "lost" /\ queue' = <<>>
    /\ clicks < MaxClicks /\ clicks' = clicks + 1
    /\ UNCHANGED <<stored, pageVars>>

\* The pause button; resuming appends what came meanwhile.
Pause ==
    /\ clicks < MaxClicks /\ clicks' = clicks + 1
    /\ paused' = ~paused
    /\ IF paused THEN rows' = Newest(rows \o pending) /\ pending' = <<>>
       ELSE UNCHANGED <<rows, pending>>
    /\ UNCHANGED <<stored, queue, page>>

\* The clear button.
Clear ==
    /\ clicks < MaxClicks /\ clicks' = clicks + 1
    /\ rows # <<>> /\ rows' = <<>>
    /\ UNCHANGED <<stored, queue, page, paused, pending>>

Browse == FetchRows \/ OpenStream \/ StreamEvent \/ StreamBreaks \/ Pause \/ Clear

-----------------------------------------------------------------------------
Queued(s, k) == \E i \in DOMAIN s : s[i] = k
Increasing(s) == \A i, j \in DOMAIN s : i < j => s[i] < s[j]

\* The page never holds more rows than it keeps, and its queue no more events than
\* put_nowait lets in.
ConsoleTypeOK ==
    /\ stored \in 0..MaxEvents /\ clicks \in 0..MaxClicks /\ paused \in BOOLEAN
    /\ page \in {"load", "fetched", "live", "lost"}
    /\ queue \in Seq(1..stored) /\ Len(queue) <= QueueSize
    /\ rows \in Seq(1..stored) /\ Len(rows) <= MaxRows
    /\ pending \in Seq(1..stored)

\* What the page shows, keeps back while paused, and is yet to get, are rows of the
\* table in its order, none twice, across the first fetch, pauses, and streams that
\* break and open again.
RowsInOrder == Increasing(rows \o pending \o queue)

\* An event that went to the page's stream reaches the page, or the stream breaks.
EventsShown ==
    \A k \in 1..MaxEvents :
        Queued(queue, k) ~> (Queued(rows, k) \/ Queued(pending, k) \/ page = "lost")

=============================================================================

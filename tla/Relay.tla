------------------------------- MODULE Relay -------------------------------
(***************************************************************************)
(* The desktop relay (tools/relay_server.py): a thread per connection that *)
(* reads frames, a worker thread per frame in --llm mode with at most      *)
(* Inflight model calls at a time, and a thread that ships lines of stdin  *)
(* to the connection that registered itself last.                          *)
(*                                                                         *)
(* A frame is its number, in the order sent; a reply is what it answers.   *)
(* Threads interleave wherever one touches what another can see: the       *)
(* active client, the semaphore, a socket, and `payload`, the local of     *)
(* handle() that every worker of a connection closes over.                 *)
(***************************************************************************)
EXTENDS Integers, Sequences, FiniteSets

CONSTANTS
    Modes,      \* how main() may be started: "llm", "echo", "default"
    Inflight,   \* permits of _LLM_INFLIGHT (2 in the code)
    MaxConns,   \* bound: connections accepted
    MaxFrames,  \* bound: frames sent by the clients
    MaxLines    \* bound: lines typed on stdin

ASSUME RelayAssumption ==
    /\ Modes \subseteq {"llm", "echo", "default"}
    /\ Inflight \in Nat \ {0}
    /\ MaxConns \in Nat /\ MaxFrames \in Nat /\ MaxLines \in Nat

Conns == 1..MaxConns
Frames == 1..MaxFrames
Kinds == {"text", "binary", "oversize"}

VARIABLES
    mode,       \* _echo_mode and _llm_mode
    accepted,   \* connections accepted so far
    handler,    \* handle() by connection: "none", "start", "read", "exit", "closed"
    up,         \* whether the client keeps its end open
    rx,         \* frames of the connection that handle() has yet to read
    from,       \* the connection each frame was sent on
    payload,    \* handle()'s local of that name: the frame it read last
    active,     \* _active_client, 0 for None
    worker,     \* by frame, its thread: [pc, text]
    sem,        \* permits left in _LLM_INFLIGHT
    tx,         \* what each client received: [kind, of]
    pump,       \* _stdin_pump: the socket it is about to send to, -1 if none
    lines       \* lines typed

vars == <<mode, accepted, handler, up, rx, from, payload, active, worker, sem,
          tx, pump, lines>>
netVars == <<mode, accepted, up, from>>
llmVars == <<payload, worker, sem>>
pumpVars == <<pump, lines>>

Init ==
    /\ mode \in Modes
    /\ accepted = 0 /\ active = 0
    /\ handler = [c \in Conns |-> "none"]
    /\ up = [c \in Conns |-> FALSE]
    /\ rx = [c \in Conns |-> <<>>] /\ tx = [c \in Conns |-> <<>>]
    /\ from = <<>>
    /\ payload = [c \in Conns |-> 0]
    /\ worker = [k \in Frames |-> [pc |-> "none", text |-> 0]]
    /\ sem = Inflight
    /\ pump = -1 /\ lines = 0

-----------------------------------------------------------------------------
(* The clients: the Pico's bridge, through ws_bridge or directly.          *)

ClientSend(c, kind) ==
    /\ up[c] /\ Len(from) < MaxFrames
    /\ from' = Append(from, c)
    /\ rx' = [rx EXCEPT ![c] = Append(@, [id |-> Len(from) + 1, kind |-> kind])]
    /\ UNCHANGED <<mode, accepted, handler, up, active, llmVars, tx, pumpVars>>

ClientClose(c) ==
    /\ up[c] /\ up' = [up EXCEPT ![c] = FALSE]
    /\ UNCHANGED <<mode, accepted, handler, rx, from, active, llmVars, tx, pumpVars>>

\* sendall on a connection, by whichever thread: received, or an OSError that
\* every caller logs and forgets.
SendAll(c, reply) ==
    tx' = IF up[c] /\ handler[c] # "closed" THEN [tx EXCEPT ![c] = Append(@, reply)]
          ELSE tx

-----------------------------------------------------------------------------
(* ThreadingTCPServer and FramedHandler.handle.                            *)

\* The server accepts and starts the handler's thread.
Accept ==
    /\ accepted < MaxConns
    /\ accepted' = accepted + 1
    /\ handler' = [handler EXCEPT ![accepted + 1] = "start"]
    /\ up' = [up EXCEPT ![accepted + 1] = TRUE]
    /\ UNCHANGED <<mode, rx, from, active, llmVars, tx, pumpVars>>

\* The thread reaches _set_active.
SetActive(c) ==
    /\ handler[c] = "start"
    /\ handler' = [handler EXCEPT ![c] = "read"]
    /\ active' = c
    /\ UNCHANGED <<netVars, rx, llmVars, tx, pumpVars>>

\* Mutant of Spawn: one `payload` for the whole server.
SpawnGlobal(c, k) ==
    /\ payload' = [d \in Conns |-> k]
    /\ worker' = [worker EXCEPT ![k].pc = "new"]
    /\ UNCHANGED sem

\* payload = text, and a worker thread that closes over it.
Spawn(c, k) ==
    /\ payload' = [payload EXCEPT ![c] = k]
    /\ worker' = [worker EXCEPT ![k].pc = "new"]
    /\ UNCHANGED sem

\* A whole frame is read.  One that is not ASCII is only logged, as is any
\* frame in the default mode.
ReadFrame(c) ==
    /\ handler[c] = "read" /\ rx[c] # <<>> /\ Head(rx[c]).kind # "oversize"
    /\ rx' = [rx EXCEPT ![c] = Tail(@)]
    /\ LET k == Head(rx[c]).id
           text == Head(rx[c]).kind = "text"
       IN  \/ /\ text /\ mode = "llm"
              /\ Spawn(c, k) /\ UNCHANGED tx
           \/ /\ text /\ mode = "echo"
              /\ SendAll(c, [kind |-> "echo", of |-> k]) /\ UNCHANGED llmVars
           \/ /\ ~text \/ mode = "default"
              /\ UNCHANGED <<llmVars, tx>>
    /\ UNCHANGED <<netVars, handler, active, pumpVars>>

\* Mutant of Deregister: whoever is registered goes.
DeregisterAny(c) == active' = 0

\* handle()'s finally clause.
Deregister(c) == active' = IF active = c THEN 0 ELSE active

\* The end of the stream (at once if the client reset it), or an oversize frame.
HandlerExit(c) ==
    /\ handler[c] = "read"
    /\ ~up[c] \/ (rx[c] # <<>> /\ Head(rx[c]).kind = "oversize")
    /\ handler' = [handler EXCEPT ![c] = "exit"]
    /\ Deregister(c)
    /\ UNCHANGED <<netVars, rx, llmVars, tx, pumpVars>>

\* socketserver closes the request's socket.
Shutdown(c) ==
    /\ handler[c] = "exit"
    /\ handler' = [handler EXCEPT ![c] = "closed"]
    /\ up' = [up EXCEPT ![c] = FALSE]
    /\ UNCHANGED <<mode, accepted, rx, from, active, llmVars, tx, pumpVars>>

-----------------------------------------------------------------------------
(* The worker threads: _worker and _llm_reply_pages.                       *)

WorkerAt(k, here) == worker[k].pc = here
WorkerTo(k, there) == worker' = [worker EXCEPT ![k].pc = there]

\* The thread runs and evaluates `payload`.
WorkerReads(k) ==
    /\ WorkerAt(k, "new")
    /\ worker' = [worker EXCEPT ![k] = [pc |-> "wait", text |-> payload[from[k]]]]
    /\ UNCHANGED <<netVars, handler, rx, active, payload, sem, tx, pumpVars>>

WorkerAcquires(k) ==
    /\ WorkerAt(k, "wait") /\ sem > 0
    /\ sem' = sem - 1 /\ WorkerTo(k, "call")
    /\ UNCHANGED <<netVars, handler, rx, active, payload, tx, pumpVars>>

\* _call_ollama returned, and the pages are laid out.
CallReturns(k) ==
    /\ WorkerAt(k, "call")
    /\ sem' = sem + 1 /\ WorkerTo(k, "pages")
    /\ UNCHANGED <<netVars, handler, rx, active, payload, tx, pumpVars>>

\* Mutant of CallFails: the semaphore is released on success only.
CallFailsHoldsPermit(k) ==
    /\ WorkerAt(k, "call")
    /\ WorkerTo(k, "err")
    /\ UNCHANGED <<netVars, handler, rx, active, payload, sem, tx, pumpVars>>

\* Mutant of CallFails: the except clause releases the semaphore once more.
CallFailsReleasesTwice(k) ==
    /\ WorkerAt(k, "call")
    /\ sem' = sem + 2 /\ WorkerTo(k, "err")
    /\ UNCHANGED <<netVars, handler, rx, active, payload, tx, pumpVars>>

\* Mutant of CallFails: the error is logged and no page made of it.
CallFailsSilently(k) ==
    /\ WorkerAt(k, "call")
    /\ sem' = sem + 1 /\ WorkerTo(k, "done")
    /\ UNCHANGED <<netVars, handler, rx, active, payload, tx, pumpVars>>

\* It raised one of the exceptions _llm_reply_pages turns into an "err:" page.
CallFails(k) ==
    /\ WorkerAt(k, "call")
    /\ sem' = sem + 1 /\ WorkerTo(k, "err")
    /\ UNCHANGED <<netVars, handler, rx, active, payload, tx, pumpVars>>

\* It raised another: an AttributeError when the answer is JSON but no object,
\* an http.client.HTTPException on a cut response.  The thread ends.
CallDies(k) ==
    /\ WorkerAt(k, "call")
    /\ sem' = sem + 1 /\ WorkerTo(k, "died")
    /\ UNCHANGED <<netVars, handler, rx, active, payload, tx, pumpVars>>

WorkerSends(k) ==
    /\ worker[k].pc \in {"pages", "err"}
    /\ SendAll(from[k], [kind |-> worker[k].pc, of |-> worker[k].text])
    /\ WorkerTo(k, "done")
    /\ UNCHANGED <<netVars, handler, rx, active, payload, sem, pumpVars>>

-----------------------------------------------------------------------------
(* _stdin_pump and _send_to_active.                                        *)

\* A line: the active client is read under the lock ...
PumpReads ==
    /\ pump = -1 /\ lines < MaxLines
    /\ lines' = lines + 1 /\ pump' = active
    /\ UNCHANGED <<netVars, handler, rx, active, llmVars, tx>>

\* ... and used after it.
PumpSends ==
    /\ pump # -1 /\ pump' = -1
    /\ IF pump = 0 THEN UNCHANGED tx ELSE SendAll(pump, [kind |-> "line", of |-> 0])
    /\ UNCHANGED <<netVars, handler, rx, active, llmVars, lines>>

-----------------------------------------------------------------------------
Client == \E c \in Conns : ClientClose(c) \/ \E kind \in Kinds : ClientSend(c, kind)
Handler == \E c \in Conns :
    SetActive(c) \/ ReadFrame(c) \/ HandlerExit(c) \/ Shutdown(c)
Worker(k) ==
    \/ WorkerReads(k) \/ WorkerAcquires(k) \/ CallReturns(k) \/ CallFails(k)
    \/ CallDies(k) \/ WorkerSends(k)

Next == Client \/ Accept \/ Handler \/ (\E k \in Frames : Worker(k)) \/ PumpReads \/ PumpSends

Spec == Init /\ [][Next]_vars

\* Every worker thread is scheduled, and a model call ends (OLLAMA_TIMEOUT_S).
FairSpec == Spec /\ \A k \in Frames : WF_vars(Worker(k))

-----------------------------------------------------------------------------
(* Safety.                                                                 *)

TypeOK ==
    /\ mode \in Modes /\ accepted \in 0..MaxConns
    /\ handler \in [Conns -> {"none", "start", "read", "exit", "closed"}]
    /\ up \in [Conns -> BOOLEAN]
    /\ rx \in [Conns -> Seq([id : Frames, kind : Kinds])]
    /\ from \in Seq(Conns) /\ Len(from) <= MaxFrames
    /\ payload \in [Conns -> 0..MaxFrames]
    /\ active \in 0..MaxConns
    /\ worker \in [Frames -> [pc : {"none", "new", "wait", "call", "pages", "err",
                                    "done", "died"}, text : 0..MaxFrames]]
    /\ sem \in 0..Inflight
    /\ tx \in [Conns -> Seq([kind : {"pages", "err", "echo", "line"}, of : 0..MaxFrames])]
    /\ pump \in -1..MaxConns /\ lines \in 0..MaxLines

Started(k) == worker[k].pc \notin {"none", "new"}
Calling == {k \in Frames : WorkerAt(k, "call")}

\* Whatever the race on `payload`, a worker answers a frame of the connection it
\* sends on, read no earlier than the frame it was started for; so a reply never
\* reaches a client that did not ask.
AnswersThisClient ==
    /\ \A k \in Frames : Started(k) =>
        worker[k].text >= k /\ from[worker[k].text] = from[k]
    /\ \A c \in Conns : \A i \in DOMAIN tx[c] :
        tx[c][i].kind # "line" => from[tx[c][i].of] = c

\* Each permit of the semaphore is free or held by one call, however it ended.
PermitsConserved == sem + Cardinality(Calling) = Inflight

\* The active client is one whose handler is at work, in whatever order handlers start
\* and end; and it loses its registration only to its own exit, or to another that
\* arrives.
ActiveServed ==
    /\ [](active # 0 => handler[active] = "read")
    /\ [][active # 0 /\ active' # active =>
            \/ handler[active] = "read" /\ handler'[active] = "exit"
            \/ active' # 0 /\ handler[active'] = "start"]_vars

\* Claim (relay_server.py): _llm_reply_pages builds the body "for one inbound
\* prompt frame", in a "Per-frame worker thread" - each answers its own frame.
AnswersOwnFrame == \A k \in Frames : Started(k) => worker[k].text = k

-----------------------------------------------------------------------------
(* Liveness, under FairSpec.                                               *)

\* k's worker is through, and its client has a page for what it read, or is gone.
Settled(k) ==
    /\ WorkerAt(k, "done")
    /\ \/ ~up[from[k]] \/ handler[from[k]] = "closed"
       \/ \E i \in DOMAIN tx[from[k]] :
            tx[from[k]][i].kind \in {"pages", "err"} /\ tx[from[k]][i].of = worker[k].text

\* _call_ollama "Raises on transport or decode failure; caller wraps to a one-page
\* error reply": no frame starves at the semaphore, and a client that stays gets a
\* reply to it, pages or an error, unless the exception is one the except clause does
\* not name.
CallsAnswered ==
    \A k \in Frames : WorkerAt(k, "new") ~> (Settled(k) \/ WorkerAt(k, "died"))
=============================================================================

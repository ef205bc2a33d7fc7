# GPTi84-Plus: models and proofs

TLA+ modules that follow this repository's code, TLC configurations that check
them on small instances, and theorems that hold for every value of the constants,
with proofs checked by TLAPS. Paths are relative to the repository's root.

A TI-84 Plus sends a prompt over its 2.5 mm link port to a Raspberry Pi Pico W,
which forwards it over WiFi to a desktop relay that asks a language model; the
answer travels back as pages of 16 x 7 characters that a BASIC deck shows.

    calculator            Pico W                             desktop
    DECK.basic, CHAT  --- wire / transfer --- bridge --- net === ws_bridge --- relay_server --- model
       (two wires)        (bits)  (packets)            (frames)                 (threads)

## Inventory

| Component | State | Operations | Interacts by | What makes it correct |
|---|---|---|---|---|
| `src/wire.py` | two open-collector pins, deadlines | `send_bit/byte`, `recv_bit/byte`, `recv_byte_traced`, `recv_n` | levels on two shared lines | an acknowledged bit was taken, lines are released on every return, both calls return |
| `src/packet.py` | none | `send_packet`, `recv_packet`, checksum | calls wire | what is parsed is what was framed |
| `src/transfer.py` | the local position in a handshake | `send_var`, `req_var`, `delete_var`, `recv_var`, `listen_loop` | packets; callbacks `on_var`, `on_req`, `idle` | a success reported is one and a variable handed to `on_var` is whole and handed over once, when no packet came garbled |
| `src/bridge.py` | socket holder, reader holder, pair buffer with its clock, locals of a push | `run`, `on_var`, the timeout flush, the poll, the paginated push | callbacks from `listen_loop`, socket, `send_var` | halves of one ask meet, once; the count follows its pages; lost connections are replaced |
| `src/net.py` | `FrameReader`'s partial frame; `WSClient`'s parser state and buffers | `poll`, `recv`, `sendall`, `close`, `open_socket`, WiFi | a non-blocking socket | the frames read are the frames sent, however the stream is cut |
| `tools/relay_server.py` | `_active_client`, `_LLM_INFLIGHT`, a `payload` per handler, sockets | accept, read, spawn, call, send, stdin pump | threads, a lock, a semaphore | replies go to who asked, permits are conserved, calls are answered |
| page layout (in `relay_server.py`) | none | `_ascii_clamp`, `_rewrap_line`, `_layout_pages` | called by a worker | all text is shown, in order, on pages of the exact size |
| `programs/basic_deck`, `asm_chat`, `basic_view` | `Str1..Str0`, `N` on the calculator | ask, wait for `N`, page | variables written over the link | what is paged through is one reply, the one asked for |
| `tools/ws_bridge.py` | two pumps per WebSocket, posts under way | dial, forward, close, ingest | asyncio tasks, executor threads | frames pass whole and in order, a connection ends as a whole, a slow console holds nothing up |
| `src/tokens.py`, `src/vartypes.py` | none | token and variable encodings | called by bridge and transfer | every token read once, a reply's strings long enough for the deck |
| `tools/console.py` | an SQLite log, bounded queues; the rows, `paused` and `pending` of the page | ingest, list, stream; fetch, append, pause, clear | HTTP, server-sent events | a page shows events in order, none twice |
| the rest | none that matters | `diag.py`, `dbus.py`, `main.py`, `ca_bundle.py`, `bastok.py`, `build_e2e.py`, `extract_8xp.py`, bring-up programs, deploy units, `Justfile` | | |

The behaviours that are hard to test, each at its line, are the `hazards` of
`PROJECT.json`. They are of four kinds: a supervisor that runs callbacks, timeouts
and a socket in one loop, any of which may raise; two programs on an unbuffered
cable that give up at different times; threads that share a socket, a semaphore and
a closure; byte streams cut anywhere.

## Modules

| Module | Code | State | Actions |
|---|---|---|---|
| `Bridge` | `src/bridge.py`, with what CHAT sends it | see below | see below |
| `Chat` | `DECK.basic`, `VIEW.basic`, on top of `Bridge` | the program that runs, its page and screen | one per key of the user, loss of a string |
| `Wire` | `src/wire.py` | program counter, pulled lines and locals of each end | one per pin access, deadline check and return |
| `Transfer` | `src/transfer.py`, `src/packet.py`'s calls | position of each side in its script | a packet passes, is spoilt, or is waited for in vain |
| `FrameChannel` | abstract: what one hop promises for its frames | sent, received, cut | send, deliver, cut |
| `WsClient` | `src/net.py` | the fields of `FrameReader` and `WSClient`, the stream | one per read of the socket, message, write |
| `WsBridge` | `tools/ws_bridge.py`, on top of `Console` | handler, two pumps, both connections, posts | one per await of a task, message and close of a peer |
| `Console` | `tools/console.py` and the script of its page | store, a queue, the page's rows | insert, fetch, stream, break, pause, clear |
| `Relay` | `tools/relay_server.py`, its threads | handlers, workers, semaphore, active client, sockets | one per step of a thread that another can see |
| `PageLayout`, `Tokens` | the layout in `tools/relay_server.py`; `src/tokens.py` | (operators) | |
| `Text` | both, with `_llm_reply_pages`, the parsing and encoding in `bridge.py` and `vartypes.py`, and the `sub(`s of the deck | a typed string or a reply, and its stages | type, decode; write, lay out, push |
| `BridgeProofs`, `ChatProofs`, `WireProofs`, `TransferProofs`, `RelayProofs`, `WsClientProofs`, `WsBridgeProofs` (with `Console`), `TextProofs` (with `PageLayout` and `Tokens`) | | | theorems and lemmas about the module named |

`MCBridge`, `MCWire`, ... give the constants that a `.cfg` cannot write. A
definition called "Mutant of X" is what a bug in X would look like; nothing of the
model uses it, and every property is shown to fail when one of them replaces X.

How they compose: `Chat` extends `Bridge` and leaves its steps as they are, so that
what is proved of `Bridge` holds of the chat (`ChatRefinesBridge`). `Bridge` takes
the way of a frame to the relay and back for granted; the modules of that way show
that they may be: `WsClient` implements `FrameChannel` for the Pico's end, `WsBridge`
implements it twice, once in each direction, and `Relay` answers each frame.
`Transfer` takes a bit of the cable for granted, which `Wire` is about; the outcomes
`Bridge` gives `send_var` are those `Transfer` finds.

**Bridge.** `pc` is where `run()` stands: `_wifi_with_retry`, `_connect_socket`,
`listen_loop`, `_maybe_flush_stale_pair`, `poll`, a page push, the count push.
`prompt`, `math` and `age` are the dict `pair`; `sock`, `inbound` the two holders.
`held` is a second clock, for `HalvesGivenTime` alone: it runs while the buffer holds a
half, whatever the code does with `first_arrival_ms`.
A string is abstracted to the ask it belongs to, a reply to the frame it answers,
time to the age of the buffered half in idle periods of 500 ms, which grows by at
least one in every step that blocks that long and by any amount in any other.
`OnVar` is the callback with everything it calls: the buffering, the flush, the
emit, and the `OSError` that unwinds `listen_loop` into `run()`'s handler.
`send_var` is seen from outside: `True` only if stored, `False` possibly although
stored. The relay, the network and the calculator are actions of their own. Nobody is
taken to type at the relay while it answers (its stdin pump runs in every mode,
`relay_server.py:459`; `Relay` has it): a typed line would be a reply to no ask.

**Wire.** Both ends run the same code (the calculator's firmware follows the same
protocol), so either may be the Pico, and both may send at once. A line is low
while any end pulls it. `recv_bit` samples tip before ring in two steps. A sender
may die with its line low.

**Transfer.** Every transfer in the code is a straight line of `send_packet` and
`recv_packet` calls that gives up at the first surprise, so it is a script, and two
actions interpret the scripts of both sides. The calculator's scripts come from the
comments and traces in `transfer.py`. A packet passes when one side sends while the
other receives, or it is spoilt: only the sender fails, both do, or the receiver had
not begun; and a receiver may give up on an answer that is about to come. Towards the
Pico there is worse (`BytesPass`). `send_bit` gives up after 2 s but `recv_packet` waits
5 to 10 s for each byte, so it may keep half a packet (`part`) and go on with the bytes of
the next, or begin in the middle of one; and it prints a wrong checksum and returns the
packet as good (`packet.py:106-110`). Then any command may come out, with a header or
body that is nobody's (`Garbled`), and both ends may stay out of step for every packet
after. `mixed` remembers, for the properties alone, that a call or a variable has taken
such a packet: `ResultsHonest` and `OnVarOnceWhole` can promise nothing of that one, for
the code does not look, but they do of all others, those that meet its leftovers too.
The calculator's OS is taken to refuse a packet that is not whole and right; the machine
byte of a garbled packet is left out.

**WsClient.** A byte is a natural number; a read returns any part of what it asked for, or
EAGAIN. The TCP and the WebSocket transport are chosen at the start, as
`open_socket` does. A WebSocket begins with the upgrade, whose response is read byte
by byte and may be refused, endless or late, with the first frames right behind it.
`send_framed` calls `sendall` twice, with the length and with the payload, and `sendall`
keeps what is no whole frame in `sendBuf` and ships from its front what is: the second
call, each turn of the loop and each return are steps. A write is whole, short, EAGAIN
or another error. An error in `sendall` or in the answer to a ping ends the connection,
but EAGAIN in that answer only ends the poll; in a close message both are swallowed.
Masking and TLS are left out.

**Relay.** Threads interleave wherever one touches what another can see: the active
client, the semaphore, a socket, and `payload`, the local of `handle()` over which every
worker of the connection closes. A frame is settled (`CallsAnswered`) when its worker is
done and a reply to the text it read, pages or an error, went to its client, or that
client is gone.

**Chat.** The deck asks (prompt and math, `N` zeroed), stops in `Pause N`, and on
ENTER draws page 1; arrow keys turn between 1 and the `N` of that moment, and every
turn draws the string as it is then, which a push may be overwriting. `screen`
records the reply drawn and whether `N` then announced one whole reply. The user
may be `Patient` (ENTER only once N > 0) or not, press ON, run VIEW, or send
another variable by hand; a string of an ask may be lost, and with it the program.
`clean` and `hurt` are history variables for the properties alone.

**WsBridge and Console.** `gather` runs the two pumps and does not cancel: it returns
when both have returned and raises when one raises, while the other goes on until
its next look at a closed connection. Either peer may close in due form, vanish, or
reset at any time. With an ingest URL, each forwarded frame also starts a post in an
executor thread; posts arrive at the console in any order, or never. The `drain` of the
pump towards the relay is taken to return, if only with the error of a reset. The console
gives an event to the queue of the page's stream if it has room. The page fetches
once, streams, and is paused, cleared and cut off.

**Text.** The k-th visible character of a reply is the number k, so that losing,
doubling or reordering any of them shows. A reply is entries (pages of the model's
JSON) of lines of characters, and is followed until the rows the deck cuts with
`sub(`. The other way, a byte of a calculator string is one of a few classes (digit,
letter, operator, prefix of a two-byte token, ...), and `TokensToAscii` is translated
as a fold with the code's one-token memory. The layout functions are translated as
folds over words, rows and entries.

## Runs

| Run | What it shows | Bounds |
|---|---|---|
| `bridge_pairs` | The pair buffer: coherent with its clock, sends each half at most once and in order, never mixes asks unless something was lost, and half frames only once the buffer has been filled for the full timeout; the socket is held exactly while serving; no reply outlives its connection | 2 asks of any shape, 1 broken connection, 1 loss of WiFi, 1 page string, replies of 1 and 2 chunks, timeout of 2 periods |
| `chat` | Deck, user, supervisor and relay together: what is shown answers the ask in hand, N announces whole replies only, the pager stays on pages that exist; half-pairs are flushed, closed peers replaced, asks answered | 2 asks by the deck, 2 page strings and replies of 3 chunks, 1 broken connection, a patient user, no new ask after a lost half |
| `wire` | Handshake safety through any timeouts, and that both calls return | 2 bytes of 2 bits from each sender |
| `transfer` | Results are true, variables whole and once, those apart that took a garbled packet; without faults, accepted transfers complete on both sides | 3 transfers, 1 fault, which may put both ends out of step for all packets after |
| `relay` | Replies reach who asked, permits are conserved, the active client is a live one and lost only rightly; frames are answered | 2 connections, 2 frames, 1 permit, 1 line |
| `ws_client` | `WsClient` implements `FrameChannel`, for both transports and from the upgrade on; `sendall` makes one message of each frame and keeps nothing back | 3 messages of any kind, bodies of 0 to 2 bytes, a response head of at most 2 bytes, 1 send |
| `ws_bridge` | `WsBridge` implements `FrameChannel` both ways; the handler ends with both pumps; a page's rows are in order, and what was queued for it is shown | 2 messages each way (1 with an ingest), 3 events, a queue of 1, 2 rows, 2 clicks |
| `text` | A reply reaches the screen whole, in order, its words and lines as written, each string long enough to be drawn; a string of the calculator is read token by token | every reply of size 7 on two grids (3 x 2 and 2 x 2), 2 pages; every string of up to 4 bytes, as text and as math |
| `chat_partial`, `bridge_wedge`, `transfer_drain`, `relay_closure` | the findings below | as small as shows them |

*Why the bounds are enough.* Two asks are the least that can be mixed up, two replies
the least that can overwrite each other, one more chunk than page strings reaches the
clamp (`ReplyPages = {3}` over two strings; shorter replies are in `bridge_pairs`). Two
bits per byte have a first and a last, two bytes a boundary. A third transfer is the
least that can meet the leftovers of one while another is answered; one fault is enough
for any number of packets torn after it. With one permit two workers already queue. A
message before and one after a control message, and reads that return any part, reach
every state of the parser at every offset; lengths beyond one byte only repeat the `ext`
state. In the layout a row of three holds two words with their space; a size of 7 gives
overflow of row, page and page limit, and a grid whose page is shorter than the reply
gives lines longer than a page. Four bytes hold two two-byte tokens, or one between two
others, and the last one may lack its second byte. A queue of one is full at the second
event; two rows are exceeded by three events, and a first fetch limited to one misses
some. Text messages come one at a time and the console is looked at only with an ingest,
for nothing tells two of them apart. KeyboardInterrupt is left to the runs of `Bridge`:
nothing comes after it. Ages stop at the timeout plus one, beyond which nothing compares
them. The theorems hold without any of these bounds.

*Deadlock* is checked in `transfer` and `text`. Elsewhere the system may stop:
`run()` returns on `KeyboardInterrupt`, a receiver waits for a dead sender, all
clients of the relay are gone, a user stops asking, a dropped connection is replaced
by a new one.

*Fairness.* `Bridge`: weak fairness of the supervisor's own steps, for its loop has
no other thread to wait for and `listen_loop` returns after a quiet 500 ms; nothing
is assumed of the calculator, the relay or the network beyond that a WiFi or socket
attempt that can succeed does so in the end. `Chat`: the same for the supervisor; the
calculator goes on sending what CHAT has to send until `listen_loop` takes it or the
string is lost (strong fairness of `OnVar`: the supervisor listens again and again,
but not all the time); the relay answers each frame of a connection that lives (weak
fairness of `Reply`, what `CallsAnswered` shows of `Relay`); nothing is assumed of the
user. `Wire`: weak fairness of each end's
steps and of its deadline; a receiver is never promised a sender. `Transfer`: weak
fairness of the cable's steps, since a packet or a timeout always comes. `Relay`:
weak fairness of each worker; a model call ends by OLLAMA_TIMEOUT_S; handlers,
clients and stdin owe nothing. `WsClient`: `run()` polls again (weak fairness of
`PollBegin`), and a socket that has bytes returns some now and then, although EAGAIN
may come between (strong fairness of `Reads`). `WsBridge`: the event loop runs a task that
can go on (weak fairness of `Handle`, of each pump); the page's script goes on by
itself; a post may hang for ever, and no peer owes anything.

*Refinement.* `ImplementsChannel` and `ImplementsChannels` instantiate `FrameChannel`
with the state of the hop: what was handed to it, what came out, and the condition on
which the hop counts as cut. The conditions are as narrow as the code allows: a
connection given up by `WsClient` must have had a cause, and a client's close in due
form cuts nothing of what it sent before. Both halves are checked: no step may lose,
double, reorder or invent a frame, and what was sent arrives or the hop is cut.

## Findings

Each is a run that TLC shows violated; the quoted lines are in `PROJECT.json`.

- `chat_partial`: a later reply overwrites the pages while N still announces the earlier
  one, and ENTER ends `Pause N` whatever N is, so partial state is observable. (A
  patient user sees it too: N is not reset at `bridge.py:279`, so a pager that is still
  open turns to pages of the reply that is coming in.)
- `bridge_wedge`: when WiFi goes away inside `_connect_socket`, its retry loop never
  looks at WiFi again.
- `transfer_drain`: the drain of an optional EOT takes the next transfer's RTS.
- `relay_closure`: a worker reads `payload` when its thread runs, so two quick frames
  can both be answered with the second one's answer.

Departures met while modelling, visible in the modules but without a run of their own: a
buffered half is replaced by the next ask's (`bridge.py:366`) and may be joined with it
beyond the timeout (`:369`), which `SameAskUnlessLossy` excludes for asks that lost
nothing; two senders acknowledge each other (`wire.py:146`), so `AckedBitsTaken` speaks
of receivers; `recv_bit` has one wait without a deadline (`wire.py:57`), the exemption
in `CallsReturn`; an answer that is JSON but no object kills a worker without a reply
(`relay_server.py:326, 346`), the exemption in `CallsAnswered`; `recv_packet`, which
promises "None on error" (`packet.py:78`), returns a packet whose checksum is wrong, and
goes on with the next packet's bytes where one was broken off, the exemption in
`ResultsHonest` and `OnVarOnceWhole`; the pairing timeout measures the first arrival of
any half (`bridge.py:366`), so that a half which replaced another can be flushed sooner
than its own timeout, and `HalvesGivenTime` speaks of the buffer; `_send_message`
ignores short writes (`net.py:351`), the condition of `OneMessagePerFrame`;
`WSClient.close` leaves the socket below open after the server closed (`net.py:555`);
`_rewrap_line` keeps inner runs of spaces at a row's end, where its docstring says that
trailing spaces are stripped; a legacy string reply is clamped, newlines to spaces,
before it is split at newlines (`relay_server.py:260`), so its paragraphs run together
although the comment there says that they are not lost: `LinesAsWritten` accepts both, a
row of its own for each or not; the `*` between juxtaposed values is left out where the
first ends in a digit that is no digit token (`tokens.py:228`: X²3 becomes `X^23`, L1·2
`L12`), against the comments that ask for it: at these places (`Disputed`) `TokensRead`
accepts both; a relay that closes leaves the WebSocket open until the client writes, and
a client that closes in due form leaves the relay's connection open until the relay
writes (`ws_bridge.py:125`), the cases `HandlerEnds` leaves out; `/api/events` returns
the oldest rows, where the module docstring says recent (`console.py:78`), and the
page's comment that its stream "will catch up" does not hold for events between the
fetch and the stream (`:306`), the gaps `RowsInOrder` allows; the `finally` that
unsubscribes a stream runs only if the body was begun (`:142`).

## Proofs

All theorems hold for every value of the constants that satisfies the `ASSUME`s of
the module: any number of asks, pages, drops, connections, permits, bits, events,
any timeout.

| Module | Theorem | Statement |
|---|---|---|
| `BridgeProofs` | `TypeCorrect` | `Spec => []TypeOK` |
| | `PairAlwaysCoherent` | `Spec => []PairCoherent` |
| | `ServesOnlyOnSocket` | `Spec => []ServesOnSocket` |
| | `PagesAlwaysBeforeCount` | `Spec => []PagesBeforeCount` |
| | `CountAlwaysWhole` | `Spec => CountAnnouncesWholeReply` |
| | `HalvesAlwaysOnceInOrder` | `Spec => []HalvesOnceInOrder` |
| | `HalvesAlwaysGivenTime` | `Spec => []HalvesGivenTime` |
| | `SameAskAlwaysUnlessLossy` | `Spec => []SameAskUnlessLossy` |
| | `RepliesAlwaysOfThisConnection` | `Spec => []RepliesOfThisConnection` |
| `ChatProofs` | `ChatRefinesBridge` | `ChatSpec => Spec` of `Bridge` |
| | `PagerTypeCorrect` | `ChatSpec => []ChatTypeOK` |
| | `ShownAlwaysAnswersAsk` | `ChatSpec => []ShownAnswersAsk` |
| `WireProofs` | `WireTypeCorrect` | `Spec => []TypeOK` |
| | `NoPullEverLeaked` | `Spec => []NoLeakedPull` |
| | `AckedBitsAlwaysTaken` | `Spec => []AckedBitsTaken` |
| | `BytesAlwaysAligned` | `Spec => []ByteAligned` |
| `TransferProofs` | `TransferTypeCorrect` | `Spec => []TypeOK` |
| | `ResultsAlwaysHonest` | `Spec => []ResultsHonest` |
| | `OnVarAlwaysOnceWhole` | `Spec => []OnVarOnceWhole` |
| `RelayProofs` | `RelayTypeCorrect` | `Spec => []TypeOK` |
| | `AnswersAlwaysThisClient` | `Spec => []AnswersThisClient` |
| | `PermitsAlwaysConserved` | `Spec => []PermitsConserved` |
| | `ActiveAlwaysServed` | `Spec => ActiveServed` |
| `WsClientProofs` | `TypeCorrect` | `Spec => []TypeOK` |
| | `OneMessagePerFrameAlways` | `Spec => []OneMessagePerFrame` |
| | `NeverGivenUpInVain` | `Spec => []GivenUpForCause` |
| | `FramesComeWhole` | `Spec => Channel!Safe` |
| `WsBridgeProofs` | `ProxyTypeCorrect` | `Spec => []TypeOK` |
| | `ProxyImplementsChannels` | `Spec => ToRelay!Safe /\ ToClient!Safe` |
| | `RowsAlwaysInOrder` | `Spec => []RowsInOrder` |
| `TextProofs` | `TextTypeCorrect` | `Spec => []TypeOK` |
| | `TextAlwaysKept` | `Spec => []TextKept` |
| | `LinesAlwaysAsWritten` | `Spec => []LinesAsWritten` |
| | `TokensAlwaysRead` | `Spec => []TokensRead` |
| | `ReplyIsLaidOut` | the pages of every reply are a layout of it (`IsLayout`) |
| | `SplitJoin` | `Split(Join(pages), Nul) = pages` for pages without a NUL |

**Bridge.** The invariant is built in layers, each proved with the ones before it as
hypotheses: `TypeOK`; `AskBegun` (what is still to be sent belongs to an ask, so no half
is 0), which makes `PairCoherent` inductive; and for the order of the halves `OrderInv`.
`HalvesOnceInOrder` alone says nothing of what is still buffered or still in the
calculator, and an emit could break it; `OrderInv` adds that every prompt sent is below
the buffered one, every half sent or buffered below the one still to come, and the same
for math. `PagesBeforeCount` is inductive with `TypeOK` alone because only the
supervisor writes the pages; `CountAlwaysWhole` follows from it step by step.
`HalvesGivenTime` speaks of `held`, the code compares `first_arrival_ms`, and the two
are tied by `ClocksAgree`: on every path - a second half, an overwritten one, a timeout,
an emit that raises and unwinds into `run()` - the code starts its clock when the buffer
fills and clears it when it empties. It is inductive with `AskBegun` and `PairCoherent`.
`SameAskUnlessLossy` speaks of what was sent only; `LossFreeInv` adds that, while
nothing is lost, a half waits only between the two strings of its ask, and is the
prompt. `RepliesInv` adds to `RepliesOfThisConnection` that a reply answers a frame that
exists, so that frames sent later do not matter.

**Chat.** Every step of `Chat` is one of `Bridge` or leaves its variables alone, so
all nine theorems above hold of it. The type of `page` rests on `Draw`: P leaves
`1..MaxPages` for no N, because a string that was never stored ends the program.
`ShownAnswersAsk` speaks of the screen alone; `AnswerInv` follows an ask all the way
round. While the user is patient and nothing went wrong (`Sincere`), at most one thing
is under way (`OneUnderWay`): the halves still to come, or the one frame without a reply,
or that reply, or the push of it; and it belongs to the ask in hand (`ForAsk`). Once N
is not 0, or the deck is past its wait, nothing is (`Quiet`), the pages N announces are
all of one reply to this ask (`PagesForAsk`), and so is the screen (`ScreenForAsk`).

**Wire.** `WireInv` adds `BitToSend` to the type. `AckedBitsTaken` compares what was
acknowledged with what was taken; in between, `AckOfBit` says whose acknowledgement
the sender is looking at: that of the bit the receiver has in hand, or of one it has
returned since. `ByteAligned` needs the receiver's place for each place of the
sender (`InStep`), with the bits still to come counted on both sides (`Level`,
`Ahead`), as long as nothing failed.

**Transfer.** Both properties follow from where the two scripts can stand. `Faced` has,
for each step of a transfer of the Pico's that took no garbled packet, the step of the
calculator's script that answers it, for the same transfer; otherwise the calculator is
`Away`, home or about to open a transfer of its own. Where the Pico holds half a packet
nothing is said of the calculator, which need not be anywhere: what comes of that packet
is garbled, and the transfer no longer counts. What the Pico keeps of its own transfer
(the header it asked for, the body stored) is said all the same, for it must still be
true if the call ends there. It stays true when one side gives up and the other does
not, because the script of the side left behind names no opener where it waits, and a
new transfer begins with one. So a `True` of `send_var` (its last ACK came from the
`get` that stored this body) is told from an ACK of anything else. `Numbered` and
`Fresh` add that the variable about to come to `on_var` is newer than all that did: its
number was given out after theirs, and it was handed over once. The lemmas `PicoSends`,
`PicoReceives`, `CalcPlaces` read the scripts; `LinkWhat` reduces the six actions of the
cable to five outcomes, of which `Torn` is the one above. `HalfRead` says that half a
packet is held only at a step that receives.

**Relay.** That a client gets answers to its own frames only is not inductive: it
rests on where each frame is on the way. `WaitingFresh` says so for frames not yet
read (sent on this connection, ascending, no thread yet), `PayloadOwn` for the shared
local, `WorkersOwn` for the threads (a worker may answer a later frame than its own,
never one of another connection), `AnswersOwn` for what was sent. `PermitsConserved`
counts the workers in a call with the cardinality of their set. `ActiveServed` is a
property of steps and rests on `ActiveReads`.

**WsClient.** What is in the socket has no structure of its own: bytes of messages, some
begun. `FlowInv` gives it back. The bytes behind what `FrameReader` holds are the rest
of one packet and then whole packets; those behind what `WSClient` has parsed the rest
of one message and then whole messages; both streams are tied to the frames sent and to
come (`Backlog`). Each step of a parser takes bytes off the front. That it then stands
where the sender meant rests on `LayoutUnique`, that a stream of bytes begins with one
message only (its head says where it ends), and on `SplitUnique`, that two parts of
given lengths are one way to cut a sequence. During the upgrade nothing of it has been
read (`Upgrading`). `GivenUpForCause`, that no connection is failed or dropped unless
the server closed or misbehaved or a write was cut short, is part of the induction: a
parser that lost its place would drop the connection. For the writing side `SendInv`
says what `sendall` still owes at each of its steps (`Owed`): the frame in `sendBuf`, or
what of it the second call will bring.

**WsBridge and Console.** While a hop is not cut, what was handed to it and has not come
out is exactly what its queues and the pump's hand hold, in order (`UpQueue`,
`DownQueue`, with `Run` as the numbers to come). `CutForGood` shows that a cut hop stays
cut, which `FrameChannel` demands. The lemmas about the console come first: rows, what
is kept back and what is queued are each ascending and each below the next (`InOrder`),
which survives the cut of old rows, pauses and new streams. `ProxyTypeCorrect` has the
limits too: what a slow browser makes the console keep is `QueueSize` events and
`MaxRows` rows. It needs that a pump that sends has a frame in its hand (`ProxyType`).

**Text.** Here nearly everything is computed, little is done in steps: the code is
loops over bytes, words, rows and entries, which the models write as folds. The
library's induction theorems take an operator as a parameter and cannot be used;
`NatSet` does the induction instead, on a *set* of numbers that holds 0 and the
successor of each of its members (a least number outside it would have a predecessor
inside). With it each fold becomes a function from prefixes to states (`ReadFold`,
`SplitFold`, `PlaceFold`, `AddRowsFold`, `EntriesFold`, `JoinFold`), and one lemma
says what a loop body keeps true of the prefix. What is kept true are relations
that name *where* the output has the input: `Parted` (the words between spaces, the
pages between NULs), `Wrapped` and `Cut` (the rows of a line, with the reason for
every break: the word that begins after it would not have fitted, or is longer than
a row), `Strung` (the rows of all lines as one sequence), `Sheets` (the pages of an
entry, all but the last one full), `LaidOut` (the pages of a reply). `LayoutIs` has
the padding and the cut at MaxPages. `ReadTo` ties the decoder's one-token memory to
the number of bytes before it that can begin a two-byte token (`LeadsBefore`), from
which `Starts` follows.

`Plan` and `IsLayout` say all of this without the state, and `ReplyIsLaidOut` proves
it of `LayoutPages`. `TextInv` can so speak of the frame and of the strings that are
left (`Packed`) after the steps that made them: it says of them that they are a
layout of the reply, and of the reply that its visible characters are numbered as
they were written (`Numbered`). `SplitJoin` carries the pages through the frame. The
three properties of replies follow from the plan: `RowNo` numbers the rows of a reply
through its pages, `RowOrder` says how far apart the rows of two lines are, a `Spot`
is a character with its row and its cell, and there is one cell for each character
that is not cut off (`CharHasSpot`, `SpotHasCell`) and one character for each glyph
drawn (`CellHasSpot`). `TextKept` is then the order of the spots, and for
`LinesAsWritten` two characters of a line in different rows have a cut between them
(`ApartIsCut`), of which `CutWordIsLong` and `CutIsGreedy` say the rest. `TextInv`
was checked by TLC on the run's instance before it was proved.

*Only model-checked*: liveness (`HalfPairFlushed`, `ClosedPeerReplaced`, `AskAnswered`,
`CallsReturn`, `CallsAnswered`, `HandlerEnds`, `EventsShown`, the `Arrives` half of
`FrameChannel`, `TakenOpenerDelivered`, `AcceptedTransfersComplete`), which is beyond
the prover. Every invariant and every property of steps that a passing run checks is a
theorem.

## Not modelled

- TLS, NTP, the LED: in `Bridge`, `_connect_socket` is one step that succeeds in the
  end. Packet bytes and the sum itself: a packet passes, is lost, or comes garbled.
- Two `sendall` calls of one relay connection at the same time: a reply is one step.
- `on_var`'s slot test by name and the filters of `listen_loop`: the strings are
  Str1, Str2 or another.
- Real numbers and names in `vartypes.py`: decimal digits shifted into a mantissa,
  which TLC would only compute again. Replies without the `N\n` header in `Text`.
- Command lines, the console's HTML and theme, validation of posts, several pages
  open on one console.
- Diagnostics, entry points, the certificate bundle, build tools, bring-up programs
  and deployment files: data, scripts, or code off the shipped path.

## Plan

1. *Done*: `Bridge`, `Chat`, `Wire`, `Transfer`, `WsClient`, `WsBridge` with
   `Console`, `Relay`, `Text`; the refinements of `FrameChannel`; the proofs above.
2. `Packet`: framing and checksum over bytes, to say which garbled packets `recv_packet`
   can make of two.
3. `Relay` with a `sendall` of several writes, so that two workers of one connection
   meet inside a frame.
4. `send_var` as an abstract specification that `Transfer` implements and `Bridge`
   assumes, in place of the prose above.

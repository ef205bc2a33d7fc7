------------------------------ MODULE Transfer ------------------------------
(***************************************************************************)
(* The silent-link transfers of src/transfer.py: send_var, req_var,        *)
(* delete_var, recv_var and listen_loop on the Pico, against the           *)
(* calculator's side of each.  The cable has no buffer: a packet passes    *)
(* when one side sends while the other receives.  Every transfer in the    *)
(* code is a straight line of send_packet / recv_packet calls that gives   *)
(* up at the first failure or unexpected command, so a transfer is a       *)
(* script, a sequence of steps, and two actions interpret them all.        *)
(*                                                                         *)
(* A header or a DATA body is abstracted to the number of the transfer it  *)
(* belongs to; the numbers of both sides come from one counter.  A packet  *)
(* that recv_packet puts together from parts of two, or that came with a   *)
(* wrong checksum, which it prints and accepts, belongs to none: Garbled.  *)
(***************************************************************************)
EXTENDS Naturals, Sequences

CONSTANTS
    PicoProcs,      \* the calls made on the Pico besides listen_loop
    CalcProcs,      \* the transfers the calculator starts
    OnReq,          \* TRUE: listen_loop is given an on_req (the bridge's is not)
    OnReqHit,       \* what on_req can find: {TRUE}, {FALSE} or BOOLEAN
    Native,         \* TRUE: calc_machine # 0x82 (send_var then ends with EOT)
    CalcEot,        \* TRUE: the calculator ends its own sends with EOT
    MaxTransfers,   \* bound: transfers started, by either side
    MaxFaults       \* bound: packets spoilt, and answers that come too late

ASSUME TransferAssumption ==
    /\ PicoProcs \subseteq {"send_var", "req_var", "delete_var", "recv_var"}
    /\ CalcProcs \subseteq {"put", "ask", "ready"}
    /\ OnReq \in BOOLEAN /\ OnReqHit \subseteq BOOLEAN
    /\ Native \in BOOLEAN /\ CalcEot \in BOOLEAN
    /\ MaxTransfers \in Nat /\ MaxFaults \in Nat

Cmds == {"RTS", "VAR", "REQ", "DEL", "RDY", "CTS", "ACK", "SKIP", "DATA", "EOT"}
Snd(c) == [op |-> "send", cmds |-> {c}]     \* send_packet(c) or give up
Rcv(C) == [op |-> "recv", cmds |-> C]       \* recv_packet, one of C or give up
Drain == Rcv(Cmds)                          \* any packet will do, and is dropped

Garbled == 0

(* The Pico's scripts, call by call. *)

SendScript ==       \* send_var
    <<Snd("RTS"), Rcv({"ACK"}), Rcv({"CTS"}), Snd("ACK"), Snd("DATA"), Rcv({"ACK"})>>
      \o (IF Native THEN <<Snd("EOT")>> ELSE <<>>)

ReqScript ==        \* req_var
    <<Snd("REQ"), Rcv({"ACK"}), Rcv({"VAR"}), Snd("ACK"), Snd("CTS"), Rcv({"ACK"}),
      Rcv({"DATA"}), Snd("ACK")>>

DeleteScript == <<Snd("DEL"), Rcv({"ACK"}), Rcv({"ACK"})>>      \* delete_var

RecvScript ==       \* recv_var
    <<Rcv({"RTS", "VAR"}), Snd("ACK"), Snd("CTS"), Rcv({"ACK"}), Rcv({"DATA"}),
      Snd("ACK")>> \o (IF Native THEN <<Drain>> ELSE <<>>)

\* Mutant of FinishScript: CTS without the ACK before it.
FinishWithoutAck == <<Snd("CTS"), Rcv({"ACK"}), Rcv({"DATA"}), Snd("ACK"), Drain, Drain>>

FinishScript ==     \* _finish_recv_after_first_pkt, its drain last
    <<Snd("ACK"), Snd("CTS"), Rcv({"ACK"}), Rcv({"DATA"}), Snd("ACK"), Drain>>

\* Mutant of RespondScript: the two packets that answer VAR in the wrong order.
RespondSwapped ==
    <<Snd("ACK"), Snd("VAR"), Rcv({"CTS"}), Rcv({"ACK"}), Snd("ACK"), Snd("DATA"),
      Rcv({"ACK"}), Snd("EOT")>>

RespondScript ==    \* _respond_to_req on a hit
    <<Snd("ACK"), Snd("VAR"), Rcv({"ACK"}), Rcv({"CTS"}), Snd("ACK"), Snd("DATA"),
      Rcv({"ACK"}), Snd("EOT")>>

PicoScript(proc) ==
    CASE proc = "send_var" -> SendScript
      [] proc = "req_var" -> ReqScript
      [] proc = "delete_var" -> DeleteScript
      [] proc = "recv_var" -> RecvScript
      [] proc = "listen" -> <<Rcv(Cmds)>>
      [] proc = "finish" -> FinishScript
      [] proc = "respond" -> RespondScript
      [] proc = "refuse" -> <<Snd("SKIP")>>         \* _respond_to_req on a miss
      [] proc = "pong" -> <<Snd("ACK")>>            \* RDY, unknown opener
      [] proc = "skipped" -> <<Snd("ACK")>>         \* SKIP answered by ACK
      [] OTHER -> <<>>                              \* "idle": outside transfer.py

\* Where a SKIP is a rejection to be acknowledged, not a protocol error.
SkipSteps(proc) ==
    CASE proc = "send_var" -> {3, 6} [] proc = "req_var" -> {2} [] OTHER -> {}

\* The calculator's scripts: what transfer.py's comments and wire traces say the
\* OS does.
CalcScript(proc) ==
    CASE proc = "home" -> <<Rcv({"RTS", "REQ", "DEL"})>>
      [] proc = "get" ->
            <<Snd("ACK"), Snd("CTS"), Rcv({"ACK"}), Rcv({"DATA"}), Snd("ACK")>>
              \o (IF Native THEN <<Rcv({"EOT"})>> ELSE <<>>)
      [] proc = "refuse_get" -> <<Snd("ACK"), Snd("SKIP"), Rcv({"ACK"})>>
      [] proc = "refuse_data" ->
            <<Snd("ACK"), Snd("CTS"), Rcv({"ACK"}), Rcv({"DATA"}), Snd("SKIP"),
              Rcv({"ACK"})>>
      [] proc = "give" ->
            <<Snd("ACK"), Snd("VAR"), Rcv({"ACK"}), Rcv({"CTS"}), Snd("ACK"),
              Snd("DATA"), Rcv({"ACK"})>>
      [] proc = "no_var" -> <<Snd("SKIP"), Rcv({"ACK"})>>
      [] proc = "del" -> <<Snd("ACK"), Snd("ACK")>>
      [] proc = "put" ->
            <<Snd("RTS"), Rcv({"ACK"}), Rcv({"CTS"}), Snd("ACK"), Snd("DATA"),
              Rcv({"ACK"})>> \o (IF CalcEot THEN <<Snd("EOT")>> ELSE <<>>)
      [] proc = "ask" ->
            <<Snd("REQ"), Rcv({"ACK"}), Rcv({"VAR"}), Snd("ACK"), Snd("CTS"),
              Rcv({"ACK"}), Rcv({"DATA"}), Snd("ACK"), Rcv({"EOT"})>>
      [] proc = "ready" -> <<Snd("RDY"), Rcv({"ACK"})>>
      [] OTHER -> <<>>

VARIABLES
    pico,       \* the Pico's transfer: procedure, step, number, the header and the
                \* data it has; part: bytes of the packet of this step have passed;
                \* mixed (history): a packet it accepted was garbled
    calc,       \* the calculator's
    starts,     \* transfers started
    faults,     \* packets spoilt and answers too late
    stored,     \* history: transfers whose DATA the calculator stored
    deleted,    \* history: transfers whose DEL the calculator took
    calcDone,   \* history: transfers of its own the calculator saw through
    results,    \* history: what the Pico's calls returned on success
    onVar       \* history: calls of on_var, in order

vars == <<pico, calc, starts, faults, stored, deleted, calcDone, results, onVar>>

Run(proc, id, hdr) == [proc |-> proc, step |-> 1, id |-> id, hdr |-> hdr, data |-> 0,
                       part |-> FALSE, mixed |-> FALSE]
Midway(run) == [run EXCEPT !.part = TRUE]
NextStep(run) == [run EXCEPT !.step = @ + 1, !.part = FALSE]
Idle == Run("idle", 0, 0)
Listen == Run("listen", 0, 0)
Home == Run("home", 0, 0)

Init ==
    /\ pico = Idle /\ calc = Home
    /\ starts = 0 /\ faults = 0
    /\ stored = {} /\ deleted = {} /\ calcDone = {}
    /\ results = {} /\ onVar = <<>>

PicoStep == PicoScript(pico.proc)[pico.step]
CalcStep == CalcScript(calc.proc)[calc.step]
PicoAt(op) == pico.proc # "idle" /\ PicoStep.op = op
CalcAt(op) == CalcStep.op = op

\* An end that accepted command c keeps what it carried of transfer id.
Keep(run, c, id) ==
    [run EXCEPT !.hdr = IF c \in {"RTS", "VAR", "REQ"} THEN id ELSE @,
                !.data = IF c = "DATA" THEN id ELSE @]

\* The Pico does not see that a packet is garbled.
PicoKeep(run, c, id) == [Keep(run, c, id) EXCEPT !.mixed = @ \/ id = Garbled]

-----------------------------------------------------------------------------
(* How the Pico moves on.                                                  *)

Calls == {"send_var", "req_var", "delete_var", "recv_var"}

\* A call that succeeds returns True or what it read.
Succeed(run) ==
    /\ pico' = Idle
    /\ results' = results \cup {[proc |-> run.proc, id |-> run.id,
                                 hdr |-> run.hdr, data |-> run.data,
                                 mixed |-> run.mixed]}
    /\ UNCHANGED onVar

\* listen_loop hands over a variable and goes round; a garbled header may be too short,
\* or name a variable nobody waits for.
CallOnVar(run) ==
    /\ pico' = Listen
    /\ \/ onVar' = Append(onVar, [hdr |-> run.hdr, data |-> run.data, mixed |-> run.mixed])
       \/ run.hdr = Garbled /\ UNCHANGED onVar
    /\ UNCHANGED results

GoTo(run) == pico' = run /\ UNCHANGED <<results, onVar>>

\* A send_packet returned False, a recv_packet None, or a command was not the one
\* expected: the call returns False or None; what listen_loop called returns to
\* its loop; listen_loop itself returns when nothing came.
PicoFails ==
    CASE pico.proc = "finish" /\ pico.step = 6 -> CallOnVar(pico)
      [] pico.proc \in Calls \cup {"skipped", "listen"} -> GoTo(Idle)
      [] OTHER -> GoTo(Listen)

\* Mutant of PicoAdvances: one step too far.
PicoAdvancesPastEnd(run) ==
    CASE run.step <= Len(PicoScript(run.proc)) -> GoTo(NextStep(run))
      [] OTHER -> PicoFails

\* The step succeeded; helpers that end go back to the caller they fail to.
PicoAdvances(run) ==
    CASE run.step < Len(PicoScript(run.proc)) -> GoTo(NextStep(run))
      [] run.step = Len(PicoScript(run.proc)) /\ run.proc \in Calls -> Succeed(run)
      [] run.step = Len(PicoScript(run.proc)) /\ run.proc = "finish" -> CallOnVar(run)
      [] OTHER -> PicoFails

\* listen_loop's dispatch on the first packet; a garbled REQ may be too short to serve.
Dispatch(c, id) ==
    CASE c \in {"RTS", "VAR"} -> GoTo(PicoKeep(Run("finish", id, id), c, id))
      [] c = "REQ" /\ OnReq ->
            \/ \E hit \in OnReqHit :
                    GoTo(PicoKeep(Run(IF hit THEN "respond" ELSE "refuse", id, id), c, id))
            \/ id = Garbled /\ GoTo(Listen)
      [] OTHER -> GoTo(Run("pong", 0, 0))

\* Mutant of PicoTakes: the command of an expected packet is not looked at.
PicoTakesAny(c, id) ==
    CASE pico.proc = "listen" -> Dispatch(c, id)
      [] OTHER -> PicoAdvances(PicoKeep(pico, c, id))

PicoTakes(c, id) ==
    IF pico.proc = "listen" THEN Dispatch(c, id)
    ELSE IF c = "SKIP" /\ pico.step \in SkipSteps(pico.proc)
    THEN GoTo(Run("skipped", 0, 0))
    ELSE IF PicoStep = Drain THEN PicoAdvances(pico)
    ELSE IF c \in PicoStep.cmds THEN PicoAdvances(PicoKeep(pico, c, id))
    ELSE PicoFails

-----------------------------------------------------------------------------
(* How the calculator moves on.                                            *)

CalcFails == calc' = Home /\ UNCHANGED <<stored, deleted, calcDone>>

CalcAdvances(run) ==
    calc' = IF run.step = Len(CalcScript(run.proc)) THEN Home
            ELSE NextStep(run)

\* The OS's idle receive: what it does with an opener, any other packet being
\* ignored.
Serve(c, id) ==
    /\ calc' \in CASE c = "RTS" -> {Run(p, id, id) : p \in {"get", "refuse_get", "refuse_data"}}
                   [] c = "REQ" -> {Run(p, id, id) : p \in {"give", "no_var"}}
                   [] c = "DEL" -> {Run("del", id, id)}
                   [] OTHER -> {Home}
    /\ deleted' = IF c = "DEL" THEN deleted \cup {id} ELSE deleted
    /\ UNCHANGED <<stored, calcDone>>

\* The final ACK of the calculator's own send, or the DATA it asked for.
SeenThrough(c) ==
    \/ calc.proc = "put" /\ calc.step = 6
    \/ calc.proc = "ask" /\ c = "DATA"

CalcTakes(c, id) ==
    IF calc.proc = "home" THEN Serve(c, id)
    ELSE IF c \notin CalcStep.cmds THEN CalcFails
    ELSE /\ CalcAdvances(Keep(calc, c, id))
         /\ stored' = IF calc.proc = "get" /\ c = "DATA"
                      THEN stored \cup {[hdr |-> calc.hdr, data |-> id]} ELSE stored
         /\ calcDone' = IF SeenThrough(c) THEN calcDone \cup {calc.id} ELSE calcDone
         /\ UNCHANGED deleted

-----------------------------------------------------------------------------
(* The cable.  A packet passes whole, or it is spoilt: send_packet may     *)
(* return False although the packet was taken (the last bit's release      *)
(* timed out), or the sender gives up half-way.  The Pico waits longer for *)
(* a byte than a sender for its bits, so it may go on with the bytes of    *)
(* the next packet, or, late, begin in the middle of one.  The calculator  *)
(* is taken to give up a packet that does not come whole and right.        *)

picoHist == <<results, onVar>>
calcHist == <<stored, deleted, calcDone>>
Cmd(step) == CHOOSE c \in step.cmds : TRUE
Spoil == faults < MaxFaults /\ faults' = faults + 1

PicoToCalc ==
    /\ PicoAt("send") /\ CalcAt("recv")
    /\ \/ PicoAdvances(pico) /\ CalcTakes(Cmd(PicoStep), pico.id) /\ UNCHANGED faults
       \/ Spoil /\ PicoFails /\ CalcTakes(Cmd(PicoStep), pico.id)
       \/ Spoil /\ PicoFails /\ CalcFails
       \/ Spoil /\ PicoFails /\ UNCHANGED <<calc, calcHist>>
    /\ UNCHANGED starts

\* Some bytes pass.  The calculator has sent its packet, gave up, or is still sending;
\* the Pico has a packet, is still waiting for the rest of one, or gave up.
BytesPass ==
    /\ \/ CalcAdvances(calc) /\ UNCHANGED calcHist
       \/ CalcFails
       \/ calc' = Midway(calc) /\ UNCHANGED calcHist
    /\ \/ \E c \in Cmds : PicoTakes(c, Garbled)
       \/ PicoFails
       \/ pico' = Midway(pico) /\ UNCHANGED picoHist

CalcToPico ==
    /\ CalcAt("send") /\ PicoAt("recv")
    /\ IF pico.part \/ calc.part THEN BytesPass /\ UNCHANGED faults
       ELSE \/ /\ CalcAdvances(calc) /\ UNCHANGED <<calcHist, faults>>
               /\ PicoTakes(Cmd(CalcStep), calc.id)
            \/ Spoil /\ CalcFails /\ PicoTakes(Cmd(CalcStep), calc.id)
            \/ Spoil /\ CalcFails /\ UNCHANGED <<pico, picoHist>>
            \/ Spoil /\ BytesPass
    /\ UNCHANGED starts

\* Nobody acknowledges the first bit.
PicoSendTimeout ==
    /\ PicoAt("send") /\ ~CalcAt("recv")
    /\ PicoFails
    /\ UNCHANGED <<calc, starts, faults, calcHist>>

CalcSendTimeout ==
    /\ CalcAt("send") /\ ~PicoAt("recv")
    /\ CalcFails
    /\ UNCHANGED <<pico, starts, faults, picoHist>>

\* No packet comes within recv_packet's timeout: none is coming, or it is late.
PicoRecvTimeout ==
    /\ PicoAt("recv")
    /\ IF CalcAt("send") THEN Spoil ELSE UNCHANGED faults
    /\ PicoFails
    /\ UNCHANGED <<calc, starts, calcHist>>

CalcRecvTimeout ==
    /\ CalcAt("recv") /\ calc.proc # "home"
    /\ IF PicoAt("send") THEN Spoil ELSE UNCHANGED faults
    /\ CalcFails
    /\ UNCHANGED <<pico, starts, picoHist>>

-----------------------------------------------------------------------------
ListenLoop ==
    /\ pico = Idle /\ pico' = Listen
    /\ UNCHANGED <<calc, starts, faults, picoHist, calcHist>>

PicoCall ==
    /\ pico = Idle /\ starts < MaxTransfers
    /\ \E proc \in PicoProcs : pico' = Run(proc, starts + 1, 0)
    /\ starts' = starts + 1
    /\ UNCHANGED <<calc, faults, picoHist, calcHist>>

CalcStart ==
    /\ calc = Home /\ starts < MaxTransfers
    /\ \E proc \in CalcProcs : calc' = Run(proc, starts + 1, 0)
    /\ starts' = starts + 1
    /\ UNCHANGED <<pico, faults, picoHist, calcHist>>

Link ==
    \/ PicoToCalc \/ CalcToPico
    \/ PicoSendTimeout \/ CalcSendTimeout \/ PicoRecvTimeout \/ CalcRecvTimeout

Next == Link \/ ListenLoop \/ PicoCall \/ CalcStart

Spec == Init /\ [][Next]_vars

\* A started transfer is not abandoned by either program.
FairSpec == Spec /\ WF_vars(Link)

-----------------------------------------------------------------------------
(* Safety.                                                                 *)

Ids == 0..MaxTransfers
PicoProc == {"idle", "listen", "finish", "respond", "refuse", "pong", "skipped"} \cup Calls
CalcProc == {"home", "get", "refuse_get", "refuse_data", "give", "no_var", "del",
             "put", "ask", "ready"}

TypeOK ==
    /\ pico \in [proc : PicoProc, step : 1..8, id : Ids, hdr : Ids, data : Ids,
                part : BOOLEAN, mixed : BOOLEAN]
    /\ calc \in [proc : CalcProc, step : 1..9, id : Ids, hdr : Ids, data : Ids,
                part : BOOLEAN, mixed : BOOLEAN]
    /\ pico.proc # "idle" => pico.step \in DOMAIN PicoScript(pico.proc)
    /\ calc.step \in DOMAIN CalcScript(calc.proc)
    /\ starts \in Ids /\ faults \in 0..MaxFaults
    /\ stored \subseteq [hdr : Ids, data : Ids]
    /\ deleted \subseteq Ids /\ calcDone \subseteq Ids
    /\ results \subseteq [proc : Calls, id : Ids, hdr : Ids, data : Ids, mixed : BOOLEAN]
    /\ onVar \in Seq([hdr : Ids, data : Ids, mixed : BOOLEAN])

\* What a call reports is true of the calculator, whatever earlier transfers left
\* half-done on the cable, unless a packet this call accepted was garbled: send_var's
\* True means the calculator stored this very body under this very header,
\* delete_var's that it took the DEL, and what req_var and recv_var return is one
\* variable, the one asked for.
ResultsHonest ==
    \A r \in results : ~r.mixed =>
        /\ r.proc = "send_var" => [hdr |-> r.id, data |-> r.id] \in stored
        /\ r.proc = "delete_var" => r.id \in deleted
        /\ r.proc = "req_var" => r.hdr = r.id /\ r.data = r.id
        /\ r.proc = "recv_var" => r.hdr = r.data

\* on_var is called with the header and the body of the same transfer, and at most once
\* for each, in the order the calculator sent them, unless a packet of that transfer was
\* garbled.
OnVarOnceWhole ==
    LET Sound == {i \in DOMAIN onVar : ~onVar[i].mixed} IN
    /\ \A i \in Sound : onVar[i].hdr = onVar[i].data
    /\ \A i, j \in Sound : i < j => onVar[i].hdr < onVar[j].hdr

-----------------------------------------------------------------------------
(* Liveness, while no packet is spoilt or late, under FairSpec.            *)

\* Claim (transfer.py, listen_loop): "For RTS/VAR (calc sending us a variable),
\* calls on_var" - once the Pico has taken the calculator's RTS, on_var is called
\* for that variable, or recv_var returns it.
TakenOpenerDelivered ==
    \A r \in 1..MaxTransfers :
        (calc.proc = "put" /\ calc.step = 2 /\ calc.id = r /\ faults = 0) ~>
            \/ \E i \in DOMAIN onVar : onVar[i].hdr = r
            \/ \E res \in results : res.hdr = r
            \/ faults # 0

\* The scripts of the two sides fit: a REQ being answered gets its DATA, and a
\* send_var, req_var or delete_var the calculator accepted succeeds; neither side
\* ever waits for the other.
AcceptedTransfersComplete ==
    \A r \in 1..MaxTransfers :
        /\ (pico.proc = "respond" /\ pico.id = r /\ faults = 0)
            ~> (r \in calcDone \/ faults # 0)
        /\ (calc.proc \in {"get", "give", "del"} /\ calc.id = r /\ faults = 0)
            ~> ((\E res \in results : res.id = r) \/ faults # 0)

=============================================================================

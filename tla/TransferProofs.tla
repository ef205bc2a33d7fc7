--------------------------- MODULE TransferProofs ---------------------------
(***************************************************************************)
(* What holds of src/transfer.py however many transfers are started and    *)
(* packets spoilt: the type invariant, that what a call reports is true of *)
(* the calculator, and that on_var gets each variable whole and once.      *)
(*                                                                         *)
(* The scripts of the two sides fit in one way only.  Faced says where the *)
(* calculator is while the Pico is in a transfer: in the same transfer, at *)
(* the step that answers the Pico's, or in none the Pico has a part in.    *)
(* A side left behind by the other meets a packet its script does not name *)
(* there, and fails.  Numbered and Fresh keep the transfers apart.  Once   *)
(* the Pico has read half a packet nobody knows where the calculator is,   *)
(* but then no packet it accepts is whole: what it holds is mixed.         *)
(***************************************************************************)
EXTENDS Transfer, SequenceTheorems, TLAPS

\* The calculator is not in any transfer that the Pico has a part in.
Away ==
    \/ calc.proc = "home"
    \/ calc.proc \in {"put", "ask", "ready"} /\ calc.step = 1

\* The calculator is at this step of one of these, for this transfer.
At(procs, step, id) == calc.proc \in procs /\ calc.step = step /\ calc.id = id

\* Where the calculator is at each step of the Pico's transfer, if no packet of it was
\* garbled, and what the Pico holds of it by then.
SendFaced ==
    pico.proc = "send_var" /\ ~pico.mixed =>
        /\ ~pico.part =>
            /\ pico.step \in 2..6 =>
                Away \/ At({"get", "refuse_get", "refuse_data"}, pico.step - 1, pico.id)
            /\ pico.step = 6 /\ calc.proc = "get" =>
                [hdr |-> pico.id, data |-> pico.id] \in stored
        /\ pico.step = 7 => [hdr |-> pico.id, data |-> pico.id] \in stored

ReqFaced ==
    pico.proc = "req_var" /\ ~pico.mixed =>
        /\ pico.step \in 2..7 /\ ~pico.part =>
            Away \/ At({"give", "no_var"}, pico.step - 1, pico.id)
        /\ pico.step >= 4 => pico.hdr = pico.id
        /\ pico.step = 8 => pico.data = pico.id

DeleteFaced ==
    pico.proc = "delete_var" /\ ~pico.mixed /\ pico.step \in 2..3 /\ ~pico.part =>
        Away \/ At({"del"}, pico.step - 1, pico.id)

RecvFaced ==
    pico.proc = "recv_var" /\ ~pico.mixed =>
        /\ pico.step \in 2..5 /\ ~pico.part =>
            Away \/ At({"put"}, pico.step, pico.hdr) \/ At({"give"}, pico.step + 1, pico.hdr)
        /\ pico.step >= 6 => pico.data = pico.hdr

FinishFaced ==
    pico.proc = "finish" /\ ~pico.mixed =>
        /\ pico.step \in 1..4 /\ ~pico.part =>
            \/ Away
            \/ At({"put"}, pico.step + 1, pico.hdr)
            \/ At({"give"}, pico.step + 2, pico.hdr)
        /\ pico.step >= 5 => pico.data = pico.hdr

Faced == SendFaced /\ ReqFaced /\ DeleteFaced /\ RecvFaced /\ FinishFaced

\* Half a packet is read where one is received.
HalfRead == pico.part => PicoAt("recv")

\* What the calculator holds of the transfer it is in.
CalcKept ==
    /\ calc.proc = "get" => calc.hdr = calc.id
    /\ calc.proc = "del" => calc.id \in deleted

\* No number is used before it is given out.
Numbered ==
    /\ calc.id <= starts
    /\ pico.proc \in Calls => pico.id <= starts
    /\ pico.proc = "finish" => pico.hdr <= starts
    /\ \A i \in DOMAIN onVar : onVar[i].hdr <= starts

\* A variable that may yet come whole to on_var is newer than all that did; Early: the
\* calculator has not yet sent the header of the one it is about to send.
After(id) == \A i \in DOMAIN onVar : ~onVar[i].mixed => onVar[i].hdr < id
Early == (calc.proc = "put" /\ calc.step = 1) \/ (calc.proc = "give" /\ calc.step <= 2)
Fresh ==
    /\ pico.proc \in Calls => After(pico.id)
    /\ pico.proc = "finish" /\ ~pico.mixed => After(pico.hdr)
    /\ Early =>
        After(calc.id) /\ (pico.proc = "finish" /\ ~pico.mixed => pico.hdr < calc.id)

-----------------------------------------------------------------------------
Ops == {"send", "recv"}
PicoRun == [proc : PicoProc, step : 1..8, id : Ids, hdr : Ids, data : Ids,
            part : BOOLEAN, mixed : BOOLEAN]
CalcRun == [proc : CalcProc, step : 1..9, id : Ids, hdr : Ids, data : Ids,
            part : BOOLEAN, mixed : BOOLEAN]

\* Every script has its length, and each of its steps a direction.
LEMMA PicoScriptSteps ==
    ASSUME NEW proc \in PicoProc \ {"idle"}
    PROVE  /\ Len(PicoScript(proc)) \in 1..8
           /\ DOMAIN PicoScript(proc) = 1..Len(PicoScript(proc))
           /\ \A k \in DOMAIN PicoScript(proc) : PicoScript(proc)[k].op \in Ops
<1> USE DEF Ops, PicoScript, Snd, Rcv
<1>1. CASE proc = "send_var" /\ Native
  BY <1>1 DEF SendScript
<1>2. CASE proc = "send_var" /\ ~Native
  BY <1>2 DEF SendScript
<1>3. CASE proc = "req_var"
  BY <1>3 DEF ReqScript
<1>4. CASE proc = "delete_var"
  BY <1>4 DEF DeleteScript
<1>5. CASE proc = "recv_var" /\ Native
  BY <1>5 DEF RecvScript, Drain
<1>6. CASE proc = "recv_var" /\ ~Native
  BY <1>6 DEF RecvScript, Drain
<1>7. CASE proc = "listen"
  BY <1>7
<1>8. CASE proc = "finish"
  BY <1>8 DEF FinishScript, Drain
<1>9. CASE proc = "respond"
  BY <1>9 DEF RespondScript
<1>10. CASE proc = "refuse"
  BY <1>10
<1>11. CASE proc = "pong"
  BY <1>11
<1>12. CASE proc = "skipped"
  BY <1>12
<1> QED BY <1>1, <1>2, <1>3, <1>4, <1>5, <1>6, <1>7, <1>8, <1>9, <1>10, <1>11, <1>12
    DEF PicoProc, Calls

\* And so have the calculator's.
LEMMA CalcScriptSteps ==
    ASSUME NEW proc \in CalcProc
    PROVE  /\ Len(CalcScript(proc)) \in 1..9
           /\ DOMAIN CalcScript(proc) = 1..Len(CalcScript(proc))
           /\ \A k \in DOMAIN CalcScript(proc) : CalcScript(proc)[k].op \in Ops
<1> USE DEF Ops, CalcScript, Snd, Rcv
<1>1. CASE proc = "home"
  BY <1>1
<1>2. CASE proc = "get" /\ Native
  BY <1>2
<1>3. CASE proc = "get" /\ ~Native
  BY <1>3
<1>4. CASE proc = "refuse_get"
  BY <1>4
<1>5. CASE proc = "refuse_data"
  BY <1>5
<1>6. CASE proc = "give"
  BY <1>6
<1>7. CASE proc = "no_var"
  BY <1>7
<1>8. CASE proc = "del"
  BY <1>8
<1>9. CASE proc = "put" /\ CalcEot
  BY <1>9
<1>10. CASE proc = "put" /\ ~CalcEot
  BY <1>10
<1>11. CASE proc = "ask"
  BY <1>11
<1>12. CASE proc = "ready"
  BY <1>12
<1> QED BY <1>1, <1>2, <1>3, <1>4, <1>5, <1>6, <1>7, <1>8, <1>9, <1>10, <1>11, <1>12
    DEF CalcProc

-----------------------------------------------------------------------------
\* What a step of a script is.
LEMMA StepFacts ==
    /\ \A c : Snd(c).op = "send" /\ Snd(c).cmds = {c} /\ Cmd(Snd(c)) = c
    /\ \A C : Rcv(C).op = "recv" /\ Rcv(C).cmds = C
    /\ Drain = Rcv(Cmds)
BY DEF Snd, Rcv, Drain, Cmd

\* No transfer of the calculator's takes an opener, only the OS at home does; and an RTS
\* or a VAR comes from these two places.
LEMMA Openers ==
    ASSUME calc.proc \in CalcProc, calc.step \in DOMAIN CalcScript(calc.proc)
    PROVE  /\ CalcAt("recv") /\ calc.proc # "home" =>
               CalcStep.cmds \cap {"RTS", "REQ", "DEL"} = {}
           /\ CalcAt("send") /\ Cmd(CalcStep) \in {"RTS", "VAR"} =>
               (calc.proc = "put" /\ calc.step = 1) \/ (calc.proc = "give" /\ calc.step = 2)
<1> USE DEF CalcScript, CalcAt, CalcStep
<1>1. CASE calc.proc = "home"
  BY StepFacts, <1>1
<1>2. CASE calc.proc = "get" /\ Native
  BY StepFacts, <1>2
<1>3. CASE calc.proc = "get" /\ ~Native
  BY StepFacts, <1>3
<1>4. CASE calc.proc = "refuse_get"
  BY StepFacts, <1>4
<1>5. CASE calc.proc = "refuse_data"
  BY StepFacts, <1>5
<1>6. CASE calc.proc = "give"
  BY StepFacts, <1>6
<1>7. CASE calc.proc = "no_var"
  BY StepFacts, <1>7
<1>8. CASE calc.proc = "del"
  BY StepFacts, <1>8
<1>9. CASE calc.proc = "put" /\ CalcEot
  BY StepFacts, <1>9
<1>10. CASE calc.proc = "put" /\ ~CalcEot
  BY StepFacts, <1>10
<1>11. CASE calc.proc = "ask"
  BY StepFacts, <1>11
<1>12. CASE calc.proc = "ready"
  BY StepFacts, <1>12
<1> QED
  BY <1>1, <1>2, <1>3, <1>4, <1>5, <1>6, <1>7, <1>8, <1>9, <1>10, <1>11, <1>12 DEF CalcProc

-----------------------------------------------------------------------------
Result == [proc : Calls, id : Ids, hdr : Ids, data : Ids, mixed : BOOLEAN]
Var == [hdr : Ids, data : Ids, mixed : BOOLEAN]
Stored == [hdr : Ids, data : Ids]

PicoTyped ==
    /\ pico \in PicoRun
    /\ pico.proc # "idle" => pico.step \in DOMAIN PicoScript(pico.proc)
    /\ results \subseteq Result /\ onVar \in Seq(Var)

CalcTyped ==
    /\ calc \in CalcRun /\ calc.step \in DOMAIN CalcScript(calc.proc)
    /\ stored \subseteq Stored /\ deleted \subseteq Ids /\ calcDone \subseteq Ids

\* The type invariant, the Pico's part and the calculator's part of it.
LEMMA TypeParts ==
    TypeOK <=> PicoTyped /\ CalcTyped /\ starts \in Ids /\ faults \in 0..MaxFaults
BY DEF TypeOK, PicoTyped, CalcTyped, PicoRun, CalcRun, Result, Var, Stored

\* A transfer that begins is well typed.
LEMMA RunTyped ==
    ASSUME NEW id \in Ids, NEW hdr \in Ids
    PROVE  /\ \A p \in PicoProc : Run(p, id, hdr) \in PicoRun
           /\ \A p \in CalcProc : Run(p, id, hdr) \in CalcRun
           /\ \A p : /\ Run(p, id, hdr).proc = p /\ Run(p, id, hdr).step = 1
                     /\ Run(p, id, hdr).id = id /\ Run(p, id, hdr).hdr = hdr
                     /\ ~Run(p, id, hdr).part /\ ~Run(p, id, hdr).mixed
BY TransferAssumption DEF Run, PicoRun, CalcRun, Ids

\* So are the states outside transfers.
LEMMA Starting ==
    /\ \A p \in PicoProc \ {"idle"} : 1 \in DOMAIN PicoScript(p)
    /\ \A p \in CalcProc : 1 \in DOMAIN CalcScript(p)
    /\ Idle \in PicoRun /\ Listen \in PicoRun /\ Home \in CalcRun
    /\ Idle.proc = "idle" /\ Listen.proc = "listen" /\ Home.proc = "home" /\ Home.step = 1
    /\ Home.id = 0 /\ Idle.id = 0 /\ Listen.id = 0 /\ Idle.hdr = 0 /\ Listen.hdr = 0
    /\ ~Idle.part /\ ~Listen.part
    /\ Run("skipped", 0, 0) \in PicoRun
<1>1. /\ \A p \in PicoProc \ {"idle"} : 1 \in DOMAIN PicoScript(p)
      /\ \A p \in CalcProc : 1 \in DOMAIN CalcScript(p)
  BY PicoScriptSteps, CalcScriptSteps
<1>2. 0 \in Ids
  BY TransferAssumption DEF Ids
<1> QED BY <1>1, <1>2, RunTyped DEF Idle, Listen, Home, PicoProc, CalcProc

\* What Keep changes.
LEMMA KeepWhat ==
    ASSUME NEW run \in PicoRun \cup CalcRun, NEW c, NEW id \in Ids
    PROVE  LET kept == Keep(run, c, id) IN
           /\ kept \in PicoRun <=> run \in PicoRun
           /\ kept \in CalcRun <=> run \in CalcRun
           /\ kept.proc = run.proc /\ kept.step = run.step /\ kept.id = run.id
           /\ kept.hdr = IF c \in {"RTS", "VAR", "REQ"} THEN id ELSE run.hdr
           /\ kept.data = IF c = "DATA" THEN id ELSE run.data
           /\ kept.part = run.part /\ kept.mixed = run.mixed
BY DEF Keep, PicoRun, CalcRun

\* And PicoKeep.
LEMMA PicoKeepWhat ==
    ASSUME NEW run \in PicoRun, NEW c, NEW id \in Ids
    PROVE  LET kept == PicoKeep(run, c, id) IN
           /\ kept \in PicoRun
           /\ kept.proc = run.proc /\ kept.step = run.step /\ kept.id = run.id
           /\ kept.hdr = IF c \in {"RTS", "VAR", "REQ"} THEN id ELSE run.hdr
           /\ kept.data = IF c = "DATA" THEN id ELSE run.data
           /\ kept.part = run.part
           /\ run.mixed => kept.mixed
           /\ kept.mixed <=> run.mixed \/ id = Garbled
<1> DEFINE k == Keep(run, c, id)
<1>1. /\ k \in PicoRun /\ k.proc = run.proc /\ k.step = run.step /\ k.id = run.id
      /\ k.hdr = IF c \in {"RTS", "VAR", "REQ"} THEN id ELSE run.hdr
      /\ k.data = IF c = "DATA" THEN id ELSE run.data
      /\ k.part = run.part /\ k.mixed = run.mixed
  BY KeepWhat
<1>2. PicoKeep(run, c, id) = [k EXCEPT !.mixed = @ \/ id = Garbled]
  BY DEF PicoKeep
<1> HIDE DEF k
<1>3. (k.mixed \/ id = Garbled) \in BOOLEAN
  OBVIOUS
<1>4. /\ PicoKeep(run, c, id) \in PicoRun
      /\ PicoKeep(run, c, id).proc = k.proc /\ PicoKeep(run, c, id).step = k.step
      /\ PicoKeep(run, c, id).id = k.id /\ PicoKeep(run, c, id).hdr = k.hdr
      /\ PicoKeep(run, c, id).data = k.data /\ PicoKeep(run, c, id).part = k.part
      /\ PicoKeep(run, c, id).mixed = (k.mixed \/ id = Garbled)
  BY <1>1, <1>2, <1>3 DEF PicoRun
<1> QED BY <1>1, <1>4

\* One step on in a script.
LEMMA StepOn ==
    /\ \A run \in PicoRun : run.proc # "idle" /\ run.step < Len(PicoScript(run.proc)) =>
        /\ NextStep(run) \in PicoRun
        /\ run.step + 1 \in DOMAIN PicoScript(run.proc)
    /\ \A run \in CalcRun : run.step < Len(CalcScript(run.proc)) =>
        /\ NextStep(run) \in CalcRun
        /\ run.step + 1 \in DOMAIN CalcScript(run.proc)
<1>1. ASSUME NEW run \in PicoRun, run.proc # "idle", run.step < Len(PicoScript(run.proc))
      PROVE  /\ NextStep(run) \in PicoRun
             /\ run.step + 1 \in DOMAIN PicoScript(run.proc)
  <2>1. run.step \in 1..8 /\ run.proc \in PicoProc \ {"idle"}
    BY <1>1 DEF PicoRun
  <2>2. Len(PicoScript(run.proc)) \in 1..8
        /\ DOMAIN PicoScript(run.proc) = 1..Len(PicoScript(run.proc))
    BY <2>1, PicoScriptSteps
  <2>3. run.step + 1 \in 1..8 /\ run.step + 1 \in 1..Len(PicoScript(run.proc))
    <3> DEFINE k == run.step
               n == Len(PicoScript(run.proc))
    <3>1. k \in 1..8 /\ n \in 1..8 /\ k < n
      BY <1>1, <2>1, <2>2
    <3> HIDE DEF k, n
    <3>2. k + 1 \in 1..8 /\ k + 1 \in 1..n
      BY <3>1
    <3> QED BY <3>2 DEF k, n
  <2>4. NextStep(run) \in PicoRun
    BY <1>1, <2>3 DEF PicoRun, NextStep
  <2> QED BY <2>2, <2>3, <2>4
<1>2. ASSUME NEW run \in CalcRun, run.step < Len(CalcScript(run.proc))
      PROVE  /\ NextStep(run) \in CalcRun
             /\ run.step + 1 \in DOMAIN CalcScript(run.proc)
  <2>1. run.step \in 1..9 /\ run.proc \in CalcProc
    BY <1>2 DEF CalcRun
  <2>2. Len(CalcScript(run.proc)) \in 1..9
        /\ DOMAIN CalcScript(run.proc) = 1..Len(CalcScript(run.proc))
    BY <2>1, CalcScriptSteps
  <2>3. run.step + 1 \in 1..9 /\ run.step + 1 \in 1..Len(CalcScript(run.proc))
    <3> DEFINE k == run.step
               n == Len(CalcScript(run.proc))
    <3>1. k \in 1..9 /\ n \in 1..9 /\ k < n
      BY <1>2, <2>1, <2>2
    <3> HIDE DEF k, n
    <3>2. k + 1 \in 1..9 /\ k + 1 \in 1..n
      BY <3>1
    <3> QED BY <3>2 DEF k, n
  <2>4. NextStep(run) \in CalcRun
    BY <1>2, <2>3 DEF CalcRun, NextStep
  <2> QED BY <2>2, <2>3, <2>4
<1> QED BY <1>1, <1>2

-----------------------------------------------------------------------------
\* The calculator one step on in its transfer, or home after the last.
LEMMA CalcGoesOn ==
    ASSUME CalcTyped, NEW run \in CalcRun, run.proc = calc.proc, run.step = calc.step,
           CalcAdvances(run)
    PROVE  /\ calc' \in CalcRun /\ calc'.step \in DOMAIN CalcScript(calc'.proc)
           /\ \/ calc' = Home
              \/ /\ calc'.proc = run.proc /\ calc'.step = run.step + 1
                 /\ calc'.id = run.id /\ calc'.hdr = run.hdr
<1>1. CASE calc.step = Len(CalcScript(calc.proc))
  <2>1. calc' = Home
    BY <1>1 DEF CalcAdvances
  <2> QED BY <2>1, Starting DEF CalcProc
<1>2. CASE calc.step # Len(CalcScript(calc.proc))
  <2>1. calc' = NextStep(run)
    BY <1>2 DEF CalcAdvances
  <2>2. run.step < Len(CalcScript(run.proc))
    <3>1. calc.proc \in CalcProc /\ calc.step \in DOMAIN CalcScript(calc.proc)
      BY DEF CalcTyped, CalcRun
    <3> DEFINE k == calc.step
               n == Len(CalcScript(calc.proc))
    <3>2. n \in 1..9 /\ k \in 1..n /\ k # n
      BY <1>2, <3>1, CalcScriptSteps
    <3> HIDE DEF k, n
    <3>3. k < n
      BY <3>2
    <3> QED BY <3>3 DEF k, n
  <2>3. calc' \in CalcRun /\ run.step + 1 \in DOMAIN CalcScript(run.proc)
    BY <2>1, <2>2, StepOn
  <2>4. calc'.proc = run.proc /\ calc'.step = run.step + 1 /\ calc'.id = run.id
      /\ calc'.hdr = run.hdr
    BY <2>1 DEF CalcRun, NextStep
  <2> QED BY <2>3, <2>4
<1> QED BY <1>1, <1>2

\* What the calculator does with a packet: it goes home, begins to serve an opener, or
\* goes on.
CalcTook(c, id) ==
    /\ stored \subseteq stored' /\ deleted \subseteq deleted'
    /\ \/ calc' = Home
       \/ /\ calc.proc = "home" /\ calc'.step = 1 /\ calc'.id = id /\ calc'.hdr = id
          /\ \/ c = "RTS" /\ calc'.proc \in {"get", "refuse_get", "refuse_data"}
             \/ c = "REQ" /\ calc'.proc \in {"give", "no_var"}
             \/ c = "DEL" /\ calc'.proc = "del" /\ id \in deleted'
       \/ /\ calc.proc # "home" /\ c \in CalcStep.cmds
          /\ calc'.proc = calc.proc /\ calc'.step = calc.step + 1 /\ calc'.id = calc.id
          /\ c \notin {"RTS", "VAR", "REQ"} => calc'.hdr = calc.hdr
          /\ calc.proc = "get" /\ c = "DATA" => [hdr |-> calc.hdr, data |-> id] \in stored'

\* Taking a packet is one of these.
LEMMA CalcTakesWhat ==
    ASSUME CalcTyped, NEW c, NEW id \in Ids, CalcTakes(c, id)
    PROVE  CalcTyped' /\ CalcTook(c, id)
<1>0. calc \in CalcRun
  BY DEF CalcTyped
<1>1. CASE calc.proc = "home"
  <2>1. Serve(c, id)
    BY <1>1 DEF CalcTakes
  <2>2. deleted' \subseteq Ids /\ deleted \subseteq deleted' /\ stored' = stored
      /\ calcDone' = calcDone
        /\ (c = "DEL" => id \in deleted')
    BY <2>1 DEF Serve, CalcTyped
  <2>3. \/ calc' = Home
        \/ c = "RTS" /\ \E p \in {"get", "refuse_get", "refuse_data"} : calc' = Run(p, id, id)
        \/ c = "REQ" /\ \E p \in {"give", "no_var"} : calc' = Run(p, id, id)
        \/ c = "DEL" /\ calc' = Run("del", id, id)
    BY <2>1 DEF Serve
  <2>4. calc' = Home \/ \E p \in CalcProc : calc' = Run(p, id, id)
    BY <2>3 DEF CalcProc
  <2>5. calc' \in CalcRun /\ calc'.step \in DOMAIN CalcScript(calc'.proc)
    BY <2>4, RunTyped, Starting DEF CalcProc
  <2>6. CalcTyped'
    BY <2>2, <2>5 DEF CalcTyped
  <2>7. CalcTook(c, id)
    BY <1>1, <2>2, <2>3, RunTyped DEF CalcTook
  <2> QED BY <2>6, <2>7
<1>2. CASE calc.proc # "home" /\ c \notin CalcStep.cmds
  <2>1. CalcFails
    BY <1>2 DEF CalcTakes
  <2> QED BY <2>1, Starting DEF CalcFails, CalcTyped, CalcTook, CalcProc
<1>3. CASE calc.proc # "home" /\ c \in CalcStep.cmds
  <2> DEFINE run == Keep(calc, c, id)
  <2>1. /\ CalcAdvances(run) /\ deleted' = deleted
        /\ stored' = IF calc.proc = "get" /\ c = "DATA"
                     THEN stored \cup {[hdr |-> calc.hdr, data |-> id]} ELSE stored
        /\ calcDone' = IF SeenThrough(c) THEN calcDone \cup {calc.id} ELSE calcDone
    BY <1>3 DEF CalcTakes
  <2>2. run \in CalcRun /\ run.proc = calc.proc /\ run.step = calc.step /\ run.id = calc.id
        /\ (c \notin {"RTS", "VAR", "REQ"} => run.hdr = calc.hdr)
    BY <1>0, KeepWhat
  <2>3. [hdr |-> calc.hdr, data |-> id] \in Stored /\ calc.id \in Ids
    BY <1>0 DEF CalcRun, Stored
  <2>4. stored \subseteq stored' /\ stored' \subseteq Stored /\ calcDone' \subseteq Ids
        /\ (calc.proc = "get" /\ c = "DATA" => [hdr |-> calc.hdr, data |-> id] \in stored')
    BY <2>1, <2>3 DEF CalcTyped
  <2> HIDE DEF run
  <2>5. /\ calc' \in CalcRun /\ calc'.step \in DOMAIN CalcScript(calc'.proc)
        /\ \/ calc' = Home
           \/ /\ calc'.proc = run.proc /\ calc'.step = run.step + 1
              /\ calc'.id = run.id /\ calc'.hdr = run.hdr
    BY <2>1, <2>2, CalcGoesOn
  <2>6. CalcTyped'
    BY <2>1, <2>4, <2>5 DEF CalcTyped
  <2>7. CalcTook(c, id)
    BY <1>3, <2>1, <2>2, <2>4, <2>5 DEF CalcTook
  <2> QED BY <2>6, <2>7
<1> QED BY <1>1, <1>2, <1>3

\* Failing is going home.
LEMMA CalcFailsTyped == CalcTyped /\ CalcFails => CalcTyped' /\ calc' = Home
BY Starting DEF CalcFails, CalcTyped, CalcProc

-----------------------------------------------------------------------------
\* The transfers in which the Pico reads or returns something.
Doing == Calls \cup {"finish"}

\* What becomes of the Pico's transfer when the packet that goes with its step passed: it
\* goes on, or returns; run is the transfer with what the packet carried.
PicoWent(run) ==
    \/ /\ pico'.proc = run.proc /\ pico'.step = run.step + 1
       /\ pico'.id = run.id /\ pico'.hdr = run.hdr /\ pico'.data = run.data
       /\ ~pico'.part /\ pico'.mixed = run.mixed
       /\ UNCHANGED <<results, onVar>>
    \/ run.step = Len(PicoScript(run.proc)) /\ run.proc \in Calls /\ Succeed(run)
    \/ run.step = 6 /\ run.proc = "finish" /\ CallOnVar(run)
    \/ pico'.proc \notin Doing /\ ~pico'.part /\ UNCHANGED <<results, onVar>>

\* What becomes of it when its step failed.
PicoLeft ==
    \/ pico.step = 6 /\ pico.proc = "finish" /\ CallOnVar(pico)
    \/ pico'.proc \notin Doing /\ ~pico'.part /\ UNCHANGED <<results, onVar>>

\* A call of on_var keeps the types.
LEMMA OnVarTyped ==
    ASSUME PicoTyped, NEW run \in PicoRun, CallOnVar(run) PROVE PicoTyped'
<1>1. [hdr |-> run.hdr, data |-> run.data, mixed |-> run.mixed] \in Var
  BY DEF PicoRun, Var
<1>2. onVar' \in Seq(Var)
  BY <1>1 DEF CallOnVar, PicoTyped
<1>3. pico' \in PicoRun /\ pico'.step \in DOMAIN PicoScript(pico'.proc) /\ results' = results
  BY Starting DEF CallOnVar, Listen, Run, PicoProc
<1> QED BY <1>2, <1>3 DEF PicoTyped

\* So does the first step of another transfer.
LEMMA GoToTyped ==
    ASSUME PicoTyped, NEW run \in PicoRun, run.proc = "idle" \/ run.step = 1, GoTo(run)
    PROVE  PicoTyped'
<1>1. run.proc \in PicoProc
  BY DEF PicoRun
<1>2. run.proc # "idle" => run.step \in DOMAIN PicoScript(run.proc)
  BY <1>1, Starting
<1> QED BY <1>2 DEF GoTo, PicoTyped

\* Giving up is leaving.
LEMMA PicoFailsWhat == PicoTyped /\ PicoFails => PicoTyped' /\ PicoLeft
<1> SUFFICES ASSUME PicoTyped, PicoFails PROVE PicoTyped' /\ PicoLeft
  OBVIOUS
<1>0. pico \in PicoRun
  BY DEF PicoTyped
<1>1. CASE pico.proc = "finish" /\ pico.step = 6
  <2>1. CallOnVar(pico)
    BY <1>1 DEF PicoFails, Calls
  <2> QED BY <1>0, <1>1, <2>1, OnVarTyped DEF PicoLeft
<1>2. CASE ~(pico.proc = "finish" /\ pico.step = 6)
  <2>1. GoTo(Idle) \/ GoTo(Listen)
    BY <1>2 DEF PicoFails
  <2>2. pico' \in {Idle, Listen} /\ UNCHANGED <<results, onVar>>
    BY <2>1 DEF GoTo
  <2>3. PicoLeft
    BY <2>2, Starting DEF PicoLeft, Doing, Calls
  <2>4. Idle \in PicoRun /\ Idle.proc = "idle" /\ Listen \in PicoRun /\ Listen.step = 1
    BY Starting DEF Listen, Run
  <2>5. PicoTyped'
    BY <2>1, <2>4, GoToTyped
  <2> QED BY <2>3, <2>5
<1> QED BY <1>1, <1>2

\* Advancing is going on in the script, or leaving it at its end.
LEMMA PicoAdvancesWhat ==
    ASSUME PicoTyped, pico.proc # "idle", NEW run \in PicoRun,
           run.proc = pico.proc, run.step = pico.step, PicoAdvances(run)
    PROVE  PicoTyped' /\ PicoWent(run)
<1> DEFINE k == run.step
           n == Len(PicoScript(run.proc))
<1>1. n \in 1..8 /\ k \in 1..n
  BY PicoScriptSteps DEF PicoTyped, PicoRun
<1>2. CASE k < n
  <2>1. pico' = NextStep(run) /\ UNCHANGED <<results, onVar>>
    BY <1>2 DEF PicoAdvances, GoTo
  <2>2. pico' \in PicoRun /\ run.step + 1 \in DOMAIN PicoScript(run.proc)
    BY <1>2, <2>1, StepOn
  <2>3. /\ pico'.proc = run.proc /\ pico'.step = run.step + 1
        /\ pico'.id = run.id /\ pico'.hdr = run.hdr /\ pico'.data = run.data
        /\ ~pico'.part /\ pico'.mixed = run.mixed
    BY <2>1 DEF PicoRun, NextStep
  <2> QED BY <2>1, <2>2, <2>3 DEF PicoTyped, PicoWent
<1>3. CASE k = n /\ run.proc \in Calls
  <2>1. Succeed(run)
    BY <1>1, <1>3 DEF PicoAdvances, Calls
  <2>2. [proc |-> run.proc, id |-> run.id, hdr |-> run.hdr, data |-> run.data,
         mixed |-> run.mixed] \in Result
    BY <1>3 DEF PicoRun, Result
  <2>3. PicoWent(run)
    BY <1>3, <2>1 DEF PicoWent
  <2>4. pico' = Idle /\ results' \subseteq Result /\ onVar' = onVar
    BY <2>1, <2>2 DEF Succeed, PicoTyped
  <2>5. PicoTyped'
    BY <2>4, Starting DEF PicoTyped
  <2> QED BY <2>3, <2>5
<1>4. CASE k = n /\ run.proc = "finish"
  <2>1. CallOnVar(run)
    BY <1>4 DEF PicoAdvances, Calls
  <2>2. k = 6
    BY <1>4 DEF PicoScript, FinishScript
  <2> QED BY <1>4, <2>1, <2>2, OnVarTyped DEF PicoWent
<1>5. CASE k = n /\ run.proc \notin Doing
  <2>1. PicoFails
    BY <1>5 DEF PicoAdvances, Doing
  <2>2. PicoTyped' /\ PicoLeft
    BY <2>1, PicoFailsWhat
  <2>3. pico.proc # "finish"
    BY <1>5 DEF Doing
  <2> QED BY <2>2, <2>3 DEF PicoWent, PicoLeft
<1> QED BY <1>1, <1>2, <1>3, <1>4, <1>5 DEF Doing

-----------------------------------------------------------------------------
\* What becomes of the Pico's transfer when a packet comes.
PicoTook(c, id) ==
    \/ PicoLeft
    \/ /\ pico.proc = "listen" /\ c \in {"RTS", "VAR"}
       /\ pico' = PicoKeep(Run("finish", id, id), c, id) /\ UNCHANGED <<results, onVar>>
    \/ PicoStep = Drain /\ PicoWent(pico)
    \/ PicoStep # Drain /\ c \in PicoStep.cmds /\ PicoWent(PicoKeep(pico, c, id))

\* Taking a packet is one of these.
LEMMA PicoTakesWhat ==
    ASSUME PicoTyped, pico.proc # "idle", NEW c, NEW id \in Ids, PicoTakes(c, id)
    PROVE  PicoTyped' /\ PicoTook(c, id)
<1>0. pico \in PicoRun
  BY DEF PicoTyped
<1>1. CASE pico.proc = "listen"
  <2>1. Dispatch(c, id)
    BY <1>1 DEF PicoTakes
  <2>2. CASE c \in {"RTS", "VAR"}
    <3> DEFINE run == PicoKeep(Run("finish", id, id), c, id)
    <3>1. GoTo(run)
      BY <2>1, <2>2 DEF Dispatch
    <3>2. run \in PicoRun /\ run.step = 1
      <4>1. Run("finish", id, id) \in PicoRun /\ Run("finish", id, id).step = 1
        BY RunTyped DEF PicoProc
      <4> QED BY <4>1, PicoKeepWhat
    <3>3. PicoTyped'
      <4> HIDE DEF run
      <4> QED BY <3>1, <3>2, GoToTyped
    <3> QED BY <1>1, <2>2, <3>1, <3>3 DEF GoTo, PicoTook
  <2>3. CASE c \notin {"RTS", "VAR"}
    <3>1. \E run \in PicoRun : /\ GoTo(run) /\ run.step = 1 /\ ~run.part
                              /\ run.proc \in {"respond", "refuse", "pong", "listen"}
      <4>1. CASE GoTo(Listen)
        BY <4>1, Starting DEF Listen, Run
      <4>2. CASE \E p \in {"respond", "refuse"} : GoTo(PicoKeep(Run(p, id, id), c, id))
        <5>1. PICK p \in {"respond", "refuse"} : GoTo(PicoKeep(Run(p, id, id), c, id))
          BY <4>2
        <5>2. /\ Run(p, id, id) \in PicoRun /\ Run(p, id, id).step = 1
              /\ Run(p, id, id).proc = p /\ ~Run(p, id, id).part
          BY RunTyped DEF PicoProc
        <5> DEFINE run == PicoKeep(Run(p, id, id), c, id)
        <5>3. run \in PicoRun /\ run.step = 1 /\ run.proc = p /\ ~run.part
          BY <5>2, PicoKeepWhat
        <5> QED BY <5>1, <5>3
      <4>3. CASE GoTo(Run("pong", 0, 0))
        <5>1. 0 \in Ids
          BY TransferAssumption DEF Ids
        <5> QED BY <4>3, <5>1, RunTyped DEF PicoProc
      <4> QED BY <2>1, <2>3, <4>1, <4>2, <4>3 DEF Dispatch
    <3>2. PICK run \in PicoRun : /\ GoTo(run) /\ run.step = 1 /\ ~run.part
                                /\ run.proc \in {"respond", "refuse", "pong", "listen"}
      BY <3>1
    <3>3. PicoTyped'
      BY <3>2, GoToTyped
    <3>4. PicoLeft
      BY <3>2 DEF GoTo, PicoLeft, Doing, Calls
    <3> QED BY <3>3, <3>4 DEF PicoTook
  <2> QED BY <2>2, <2>3
<1>2. CASE pico.proc # "listen" /\ c = "SKIP" /\ pico.step \in SkipSteps(pico.proc)
  <2>1. GoTo(Run("skipped", 0, 0))
    BY <1>2 DEF PicoTakes
  <2>2. Run("skipped", 0, 0) \in PicoRun /\ Run("skipped", 0, 0).step = 1
        /\ Run("skipped", 0, 0).proc = "skipped" /\ ~Run("skipped", 0, 0).part
    BY Starting DEF Run
  <2>3. PicoTyped'
    BY <2>1, <2>2, GoToTyped
  <2>4. PicoLeft
    BY <2>1, <2>2 DEF GoTo, PicoLeft, Doing, Calls
  <2> QED BY <2>3, <2>4 DEF PicoTook
<1>3. CASE pico.proc # "listen" /\ ~(c = "SKIP" /\ pico.step \in SkipSteps(pico.proc))
           /\ PicoStep = Drain
  <2>1. PicoAdvances(pico)
    <3>1. CASE c \in PicoStep.cmds
      <4>1. pico.proc # "listen" /\ PicoStep = Drain
        BY <1>3
      <4>2. c \in Cmds
        BY <3>1, <4>1, StepFacts
      <4> QED BY <1>3, <3>1 DEF PicoTakes
    <3>2. CASE c \notin PicoStep.cmds
      BY <1>3, <3>2 DEF PicoTakes
    <3> QED BY <3>1, <3>2
  <2>2. PicoTyped' /\ PicoWent(pico)
    BY <1>0, <2>1, PicoAdvancesWhat
  <2> QED BY <1>3, <2>2 DEF PicoTook
<1>4. CASE pico.proc # "listen" /\ ~(c = "SKIP" /\ pico.step \in SkipSteps(pico.proc))
           /\ PicoStep # Drain /\ c \in PicoStep.cmds
  <2>1. PicoAdvances(PicoKeep(pico, c, id))
    BY <1>4 DEF PicoTakes
  <2>2. PicoKeep(pico, c, id) \in PicoRun /\ PicoKeep(pico, c, id).proc = pico.proc
        /\ PicoKeep(pico, c, id).step = pico.step
    BY <1>0, PicoKeepWhat
  <2>3. PicoTyped' /\ PicoWent(PicoKeep(pico, c, id))
    BY <2>1, <2>2, PicoAdvancesWhat
  <2> QED BY <1>4, <2>3 DEF PicoTook
<1>5. CASE pico.proc # "listen" /\ ~(c = "SKIP" /\ pico.step \in SkipSteps(pico.proc))
           /\ PicoStep # Drain /\ c \notin PicoStep.cmds
  <2>1. PicoFails
    BY <1>5 DEF PicoTakes
  <2> QED BY <2>1, PicoFailsWhat DEF PicoTook
<1> QED BY <1>1, <1>2, <1>3, <1>4, <1>5

-----------------------------------------------------------------------------
\* What the Pico's scripts send: command c at step k of transfer p.
PicoSendsAt(p, k, c) ==
    /\ c \in {"RTS", "REQ", "DEL"} => p \in Calls /\ k = 1
    /\ p = "send_var" =>
        \/ k = 1 /\ c = "RTS"
        \/ k = 4 /\ c = "ACK"
        \/ k = 5 /\ c = "DATA"
        \/ k = 7 /\ c = "EOT"
    /\ p = "req_var" =>
        \/ k = 1 /\ c = "REQ"
        \/ k \in {4, 8} /\ c = "ACK"
        \/ k = 5 /\ c = "CTS"
    /\ p = "delete_var" =>
        k = 1 /\ c = "DEL"
    /\ p = "recv_var" =>
        \/ k \in {2, 6} /\ c = "ACK"
        \/ k = 3 /\ c = "CTS"
    /\ p = "finish" =>
        \/ k \in {1, 5} /\ c = "ACK"
        \/ k = 2 /\ c = "CTS"

\* What they receive: one of S.cmds at step k of transfer p; the drains take anything.
PicoTakesAt(p, k, S) ==
    /\ p = "send_var" =>
        \/ k \in {2, 6} /\ S.cmds = {"ACK"}
        \/ k = 3 /\ S.cmds = {"CTS"}
    /\ p = "req_var" =>
        \/ k \in {2, 6} /\ S.cmds = {"ACK"}
        \/ k = 3 /\ S.cmds = {"VAR"}
        \/ k = 7 /\ S.cmds = {"DATA"}
    /\ p = "delete_var" =>
        k \in {2, 3} /\ S.cmds = {"ACK"}
    /\ p = "recv_var" =>
        \/ k = 1 /\ S.cmds = {"RTS", "VAR"}
        \/ k = 4 /\ S.cmds = {"ACK"}
        \/ k = 5 /\ S.cmds = {"DATA"}
        \/ k = 7 /\ S = Drain
    /\ p = "finish" =>
        \/ k = 3 /\ S.cmds = {"ACK"}
        \/ k = 4 /\ S.cmds = {"DATA"}
        \/ k = 6 /\ S = Drain

\* What the Pico sends at its place in a script.
LEMMA PicoSends ==
    ASSUME PicoTyped, PicoAt("send")
    PROVE  PicoSendsAt(pico.proc, pico.step, Cmd(PicoStep))
<1> DEFINE p == pico.proc
           k == pico.step
           c == Cmd(PicoStep)
<1> SUFFICES PicoSendsAt(p, k, c)
  OBVIOUS
<1> HIDE DEF p, k, c
<1>0. p \in PicoProc \ {"idle"} /\ k \in DOMAIN PicoScript(p)
  BY DEF PicoTyped, PicoRun, PicoAt, p, k
<1>1. CASE p = "send_var" /\ Native
  <2>1. \/ k = 1 /\ PicoStep = Snd("RTS")
        \/ k \in {2, 6} /\ PicoStep = Rcv({"ACK"})
        \/ k = 3 /\ PicoStep = Rcv({"CTS"})
        \/ k = 4 /\ PicoStep = Snd("ACK")
        \/ k = 5 /\ PicoStep = Snd("DATA")
        \/ k = 7 /\ PicoStep = Snd("EOT")
    BY <1>0, <1>1 DEF PicoScript, PicoStep, p, k, SendScript
  <2>2. \/ k = 1 /\ c = "RTS"
        \/ k = 4 /\ c = "ACK"
        \/ k = 5 /\ c = "DATA"
        \/ k = 7 /\ c = "EOT"
    BY <2>1, StepFacts DEF PicoAt, c
  <2> QED BY <1>1, <2>2 DEF PicoSendsAt, Calls
<1>2. CASE p = "send_var" /\ ~Native
  <2>1. \/ k = 1 /\ PicoStep = Snd("RTS")
        \/ k \in {2, 6} /\ PicoStep = Rcv({"ACK"})
        \/ k = 3 /\ PicoStep = Rcv({"CTS"})
        \/ k = 4 /\ PicoStep = Snd("ACK")
        \/ k = 5 /\ PicoStep = Snd("DATA")
    BY <1>0, <1>2 DEF PicoScript, PicoStep, p, k, SendScript
  <2>2. \/ k = 1 /\ c = "RTS"
        \/ k = 4 /\ c = "ACK"
        \/ k = 5 /\ c = "DATA"
    BY <2>1, StepFacts DEF PicoAt, c
  <2> QED BY <1>2, <2>2 DEF PicoSendsAt, Calls
<1>3. CASE p = "req_var"
  <2>1. \/ k = 1 /\ PicoStep = Snd("REQ")
        \/ k \in {2, 6} /\ PicoStep = Rcv({"ACK"})
        \/ k = 3 /\ PicoStep = Rcv({"VAR"})
        \/ k \in {4, 8} /\ PicoStep = Snd("ACK")
        \/ k = 5 /\ PicoStep = Snd("CTS")
        \/ k = 7 /\ PicoStep = Rcv({"DATA"})
    BY <1>0, <1>3 DEF PicoScript, PicoStep, p, k, ReqScript
  <2>2. \/ k = 1 /\ c = "REQ"
        \/ k \in {4, 8} /\ c = "ACK"
        \/ k = 5 /\ c = "CTS"
    BY <2>1, StepFacts DEF PicoAt, c
  <2> QED BY <1>3, <2>2 DEF PicoSendsAt, Calls
<1>4. CASE p = "delete_var"
  <2>1. \/ k = 1 /\ PicoStep = Snd("DEL")
        \/ k \in {2, 3} /\ PicoStep = Rcv({"ACK"})
    BY <1>0, <1>4 DEF PicoScript, PicoStep, p, k, DeleteScript
  <2>2. k = 1 /\ c = "DEL"
    BY <2>1, StepFacts DEF PicoAt, c
  <2> QED BY <1>4, <2>2 DEF PicoSendsAt, Calls
<1>5. CASE p = "recv_var" /\ Native
  <2>1. \/ k = 1 /\ PicoStep = Rcv({"RTS", "VAR"})
        \/ k \in {2, 6} /\ PicoStep = Snd("ACK")
        \/ k = 3 /\ PicoStep = Snd("CTS")
        \/ k = 4 /\ PicoStep = Rcv({"ACK"})
        \/ k = 5 /\ PicoStep = Rcv({"DATA"})
        \/ k = 7 /\ PicoStep = Drain
    BY <1>0, <1>5 DEF PicoScript, PicoStep, p, k, RecvScript
  <2>2. \/ k \in {2, 6} /\ c = "ACK"
        \/ k = 3 /\ c = "CTS"
    BY <2>1, StepFacts DEF PicoAt, c
  <2> QED BY <1>5, <2>2 DEF PicoSendsAt, Calls
<1>6. CASE p = "recv_var" /\ ~Native
  <2>1. \/ k = 1 /\ PicoStep = Rcv({"RTS", "VAR"})
        \/ k \in {2, 6} /\ PicoStep = Snd("ACK")
        \/ k = 3 /\ PicoStep = Snd("CTS")
        \/ k = 4 /\ PicoStep = Rcv({"ACK"})
        \/ k = 5 /\ PicoStep = Rcv({"DATA"})
    BY <1>0, <1>6 DEF PicoScript, PicoStep, p, k, RecvScript
  <2>2. \/ k \in {2, 6} /\ c = "ACK"
        \/ k = 3 /\ c = "CTS"
    BY <2>1, StepFacts DEF PicoAt, c
  <2> QED BY <1>6, <2>2 DEF PicoSendsAt, Calls
<1>7. CASE p = "finish"
  <2>1. \/ k \in {1, 5} /\ PicoStep = Snd("ACK")
        \/ k = 2 /\ PicoStep = Snd("CTS")
        \/ k = 3 /\ PicoStep = Rcv({"ACK"})
        \/ k = 4 /\ PicoStep = Rcv({"DATA"})
        \/ k = 6 /\ PicoStep = Drain
    BY <1>0, <1>7 DEF PicoScript, PicoStep, p, k, FinishScript
  <2>2. \/ k \in {1, 5} /\ c = "ACK"
        \/ k = 2 /\ c = "CTS"
    BY <2>1, StepFacts DEF PicoAt, c
  <2> QED BY <1>7, <2>2 DEF PicoSendsAt, Calls
<1>8. CASE p = "listen"
  <2>1. k = 1 /\ PicoStep = Rcv(Cmds)
    BY <1>0, <1>8 DEF PicoScript, PicoStep, p, k
  <2>2. FALSE
    BY <2>1, StepFacts DEF PicoAt, c
  <2> QED BY <1>8, <2>2 DEF PicoSendsAt, Calls
<1>9. CASE p = "respond"
  <2>1. \/ k \in {1, 5} /\ PicoStep = Snd("ACK")
        \/ k = 2 /\ PicoStep = Snd("VAR")
        \/ k \in {3, 7} /\ PicoStep = Rcv({"ACK"})
        \/ k = 4 /\ PicoStep = Rcv({"CTS"})
        \/ k = 6 /\ PicoStep = Snd("DATA")
        \/ k = 8 /\ PicoStep = Snd("EOT")
    BY <1>0, <1>9 DEF PicoScript, PicoStep, p, k, RespondScript
  <2>2. \/ k \in {1, 5} /\ c = "ACK"
        \/ k = 2 /\ c = "VAR"
        \/ k = 6 /\ c = "DATA"
        \/ k = 8 /\ c = "EOT"
    BY <2>1, StepFacts DEF PicoAt, c
  <2> QED BY <1>9, <2>2 DEF PicoSendsAt, Calls
<1>10. CASE p = "refuse"
  <2>1. k = 1 /\ PicoStep = Snd("SKIP")
    BY <1>0, <1>10 DEF PicoScript, PicoStep, p, k
  <2>2. k = 1 /\ c = "SKIP"
    BY <2>1, StepFacts DEF PicoAt, c
  <2> QED BY <1>10, <2>2 DEF PicoSendsAt, Calls
<1>11. CASE p = "pong"
  <2>1. k = 1 /\ PicoStep = Snd("ACK")
    BY <1>0, <1>11 DEF PicoScript, PicoStep, p, k
  <2>2. k = 1 /\ c = "ACK"
    BY <2>1, StepFacts DEF PicoAt, c
  <2> QED BY <1>11, <2>2 DEF PicoSendsAt, Calls
<1>12. CASE p = "skipped"
  <2>1. k = 1 /\ PicoStep = Snd("ACK")
    BY <1>0, <1>12 DEF PicoScript, PicoStep, p, k
  <2>2. k = 1 /\ c = "ACK"
    BY <2>1, StepFacts DEF PicoAt, c
  <2> QED BY <1>12, <2>2 DEF PicoSendsAt, Calls
<1> QED
  BY <1>0, <1>1, <1>2, <1>3, <1>4, <1>5, <1>6, <1>7, <1>8, <1>9, <1>10, <1>11, <1>12
     DEF PicoProc, Calls

\* What it receives there.
LEMMA PicoReceives ==
    ASSUME PicoTyped, PicoAt("recv")
    PROVE  PicoTakesAt(pico.proc, pico.step, PicoStep)
<1> DEFINE p == pico.proc
           k == pico.step
           S == PicoStep
<1> SUFFICES PicoTakesAt(p, k, S)
  OBVIOUS
<1> HIDE DEF p, k, S
<1>0. p \in PicoProc \ {"idle"} /\ k \in DOMAIN PicoScript(p)
  BY DEF PicoTyped, PicoRun, PicoAt, p, k
<1>1. CASE p = "send_var" /\ Native
  <2>1. \/ k = 1 /\ PicoStep = Snd("RTS")
        \/ k \in {2, 6} /\ PicoStep = Rcv({"ACK"})
        \/ k = 3 /\ PicoStep = Rcv({"CTS"})
        \/ k = 4 /\ PicoStep = Snd("ACK")
        \/ k = 5 /\ PicoStep = Snd("DATA")
        \/ k = 7 /\ PicoStep = Snd("EOT")
    BY <1>0, <1>1 DEF PicoScript, PicoStep, p, k, SendScript
  <2>2. \/ k \in {2, 6} /\ S.cmds = {"ACK"}
        \/ k = 3 /\ S.cmds = {"CTS"}
    BY <2>1, StepFacts DEF PicoAt, S
  <2> QED BY <1>1, <2>2 DEF PicoTakesAt, Calls
<1>2. CASE p = "send_var" /\ ~Native
  <2>1. \/ k = 1 /\ PicoStep = Snd("RTS")
        \/ k \in {2, 6} /\ PicoStep = Rcv({"ACK"})
        \/ k = 3 /\ PicoStep = Rcv({"CTS"})
        \/ k = 4 /\ PicoStep = Snd("ACK")
        \/ k = 5 /\ PicoStep = Snd("DATA")
    BY <1>0, <1>2 DEF PicoScript, PicoStep, p, k, SendScript
  <2>2. \/ k \in {2, 6} /\ S.cmds = {"ACK"}
        \/ k = 3 /\ S.cmds = {"CTS"}
    BY <2>1, StepFacts DEF PicoAt, S
  <2> QED BY <1>2, <2>2 DEF PicoTakesAt, Calls
<1>3. CASE p = "req_var"
  <2>1. \/ k = 1 /\ PicoStep = Snd("REQ")
        \/ k \in {2, 6} /\ PicoStep = Rcv({"ACK"})
        \/ k = 3 /\ PicoStep = Rcv({"VAR"})
        \/ k \in {4, 8} /\ PicoStep = Snd("ACK")
        \/ k = 5 /\ PicoStep = Snd("CTS")
        \/ k = 7 /\ PicoStep = Rcv({"DATA"})
    BY <1>0, <1>3 DEF PicoScript, PicoStep, p, k, ReqScript
  <2>2. \/ k \in {2, 6} /\ S.cmds = {"ACK"}
        \/ k = 3 /\ S.cmds = {"VAR"}
        \/ k = 7 /\ S.cmds = {"DATA"}
    BY <2>1, StepFacts DEF PicoAt, S
  <2> QED BY <1>3, <2>2 DEF PicoTakesAt, Calls
<1>4. CASE p = "delete_var"
  <2>1. \/ k = 1 /\ PicoStep = Snd("DEL")
        \/ k \in {2, 3} /\ PicoStep = Rcv({"ACK"})
    BY <1>0, <1>4 DEF PicoScript, PicoStep, p, k, DeleteScript
  <2>2. k \in {2, 3} /\ S.cmds = {"ACK"}
    BY <2>1, StepFacts DEF PicoAt, S
  <2> QED BY <1>4, <2>2 DEF PicoTakesAt, Calls
<1>5. CASE p = "recv_var" /\ Native
  <2>1. \/ k = 1 /\ PicoStep = Rcv({"RTS", "VAR"})
        \/ k \in {2, 6} /\ PicoStep = Snd("ACK")
        \/ k = 3 /\ PicoStep = Snd("CTS")
        \/ k = 4 /\ PicoStep = Rcv({"ACK"})
        \/ k = 5 /\ PicoStep = Rcv({"DATA"})
        \/ k = 7 /\ PicoStep = Drain
    BY <1>0, <1>5 DEF PicoScript, PicoStep, p, k, RecvScript
  <2>2. \/ k = 1 /\ S.cmds = {"RTS", "VAR"}
        \/ k = 4 /\ S.cmds = {"ACK"}
        \/ k = 5 /\ S.cmds = {"DATA"}
        \/ k = 7 /\ S = Drain
    BY <2>1, StepFacts DEF PicoAt, S
  <2> QED BY <1>5, <2>2 DEF PicoTakesAt, Calls
<1>6. CASE p = "recv_var" /\ ~Native
  <2>1. \/ k = 1 /\ PicoStep = Rcv({"RTS", "VAR"})
        \/ k \in {2, 6} /\ PicoStep = Snd("ACK")
        \/ k = 3 /\ PicoStep = Snd("CTS")
        \/ k = 4 /\ PicoStep = Rcv({"ACK"})
        \/ k = 5 /\ PicoStep = Rcv({"DATA"})
    BY <1>0, <1>6 DEF PicoScript, PicoStep, p, k, RecvScript
  <2>2. \/ k = 1 /\ S.cmds = {"RTS", "VAR"}
        \/ k = 4 /\ S.cmds = {"ACK"}
        \/ k = 5 /\ S.cmds = {"DATA"}
    BY <2>1, StepFacts DEF PicoAt, S
  <2> QED BY <1>6, <2>2 DEF PicoTakesAt, Calls
<1>7. CASE p = "finish"
  <2>1. \/ k \in {1, 5} /\ PicoStep = Snd("ACK")
        \/ k = 2 /\ PicoStep = Snd("CTS")
        \/ k = 3 /\ PicoStep = Rcv({"ACK"})
        \/ k = 4 /\ PicoStep = Rcv({"DATA"})
        \/ k = 6 /\ PicoStep = Drain
    BY <1>0, <1>7 DEF PicoScript, PicoStep, p, k, FinishScript
  <2>2. \/ k = 3 /\ S.cmds = {"ACK"}
        \/ k = 4 /\ S.cmds = {"DATA"}
        \/ k = 6 /\ S = Drain
    BY <2>1, StepFacts DEF PicoAt, S
  <2> QED BY <1>7, <2>2 DEF PicoTakesAt, Calls
<1>8. CASE p \notin Doing
  BY <1>8 DEF PicoTakesAt, Doing, Calls
<1> QED
  BY <1>1, <1>2, <1>3, <1>4, <1>5, <1>6, <1>7, <1>8 DEF Doing, Calls

\* How long the Pico's scripts are.
LEMMA Lengths ==
    /\ Len(PicoScript("send_var")) \in {6, 7} /\ Len(PicoScript("req_var")) = 8
    /\ Len(PicoScript("delete_var")) = 3 /\ Len(PicoScript("recv_var")) \in {6, 7}
    /\ Len(PicoScript("finish")) = 6
<1> USE DEF PicoScript
<1>1. Len(PicoScript("send_var")) \in {6, 7}
  <2>1. CASE Native
    BY <2>1 DEF SendScript
  <2>2. CASE ~Native
    BY <2>2 DEF SendScript
  <2> QED BY <2>1, <2>2
<1>2. Len(PicoScript("recv_var")) \in {6, 7}
  <2>1. CASE Native
    BY <2>1 DEF RecvScript
  <2>2. CASE ~Native
    BY <2>2 DEF RecvScript
  <2> QED BY <2>1, <2>2
<1>3. Len(PicoScript("req_var")) = 8
  BY DEF ReqScript
<1>4. Len(PicoScript("delete_var")) = 3
  BY DEF DeleteScript
<1>5. Len(PicoScript("finish")) = 6
  BY DEF FinishScript
<1> QED BY <1>1, <1>2, <1>3, <1>4, <1>5

-----------------------------------------------------------------------------
\* Where the calculator sends and receives, as far as the proofs need it.
LEMMA CalcPlaces ==
    ASSUME calc.proc \in CalcProc, calc.step \in DOMAIN CalcScript(calc.proc)
    PROVE  /\ Away /\ CalcAt("recv") => calc.proc = "home"
           /\ Away /\ CalcAt("send") => Cmd(CalcStep) \in {"RTS", "REQ", "RDY"}
           /\ CalcAt("send") /\ calc.proc \in {"refuse_get", "refuse_data"} /\ calc.step = 5
               => Cmd(CalcStep) # "ACK"
           /\ CalcAt("recv") /\ calc.proc = "get" => "VAR" \notin CalcStep.cmds
<1>1. CASE calc.proc = "home"
  <2>1. ~CalcAt("send")
    BY <1>1, StepFacts DEF CalcScript, CalcAt, CalcStep
  <2> QED BY <1>1, <2>1
<1>2. CASE calc.proc \in {"put", "ask", "ready"}
  <2>1. calc.step = 1 => ~CalcAt("recv") /\ Cmd(CalcStep) \in {"RTS", "REQ", "RDY"}
    <3>1. CASE calc.proc = "put" /\ CalcEot
      BY <3>1, StepFacts DEF CalcScript, CalcAt, CalcStep
    <3>2. CASE calc.proc = "put" /\ ~CalcEot
      BY <3>2, StepFacts DEF CalcScript, CalcAt, CalcStep
    <3>3. CASE calc.proc = "ask"
      BY <3>3, StepFacts DEF CalcScript, CalcAt, CalcStep
    <3>4. CASE calc.proc = "ready"
      BY <3>4, StepFacts DEF CalcScript, CalcAt, CalcStep
    <3> QED BY <1>2, <3>1, <3>2, <3>3, <3>4
  <2> QED BY <1>2, <2>1 DEF Away
<1>3. CASE calc.proc = "get"
  <2>1. CalcAt("recv") => "VAR" \notin CalcStep.cmds
    <3>1. CASE Native
      BY <1>3, <3>1, StepFacts DEF CalcScript, CalcAt, CalcStep
    <3>2. CASE ~Native
      BY <1>3, <3>2, StepFacts DEF CalcScript, CalcAt, CalcStep
    <3> QED BY <3>1, <3>2
  <2> QED BY <1>3, <2>1 DEF Away
<1>4. CASE calc.proc \in {"refuse_get", "refuse_data"}
  <2>1. calc.step = 5 => Cmd(CalcStep) # "ACK"
    <3>1. CASE calc.proc = "refuse_get"
      BY <3>1, StepFacts DEF CalcScript, CalcStep
    <3>2. CASE calc.proc = "refuse_data"
      BY <3>2, StepFacts DEF CalcScript, CalcStep
    <3> QED BY <1>4, <3>1, <3>2
  <2> QED BY <1>4, <2>1 DEF Away
<1>5. CASE calc.proc \in {"give", "no_var", "del"}
  BY <1>5 DEF Away
<1> QED BY <1>1, <1>2, <1>3, <1>4, <1>5 DEF CalcProc

\* The calculator's packet has left: it goes on, or fails all the same.
CalcWent ==
    /\ UNCHANGED <<stored, deleted, calcDone>>
    /\ \/ calc' = Home
       \/ /\ calc'.proc = calc.proc /\ calc'.step = calc.step + 1
          /\ calc'.id = calc.id /\ calc'.hdr = calc.hdr

\* Sending a packet is one of these.
LEMMA CalcSendsWhat ==
    ASSUME CalcTyped, CalcAdvances(calc) \/ calc' = Home, UNCHANGED calcHist
    PROVE  CalcTyped' /\ CalcWent
<1>0. calc \in CalcRun
  BY DEF CalcTyped
<1>1. CASE CalcAdvances(calc)
  <2>1. /\ calc' \in CalcRun /\ calc'.step \in DOMAIN CalcScript(calc'.proc)
        /\ \/ calc' = Home
           \/ /\ calc'.proc = calc.proc /\ calc'.step = calc.step + 1
              /\ calc'.id = calc.id /\ calc'.hdr = calc.hdr
    BY <1>0, <1>1, CalcGoesOn
  <2> QED BY <2>1 DEF CalcTyped, CalcWent, calcHist
<1>2. CASE calc' = Home
  BY <1>2, Starting DEF CalcTyped, CalcWent, calcHist, CalcProc
<1> QED BY <1>1, <1>2

\* The five things that can happen on the cable.
CalcAlone == calc' = Home /\ UNCHANGED <<pico, picoHist, calcHist>>
PicoAlone == PicoLeft /\ (calc' = calc \/ calc' = Home) /\ UNCHANGED calcHist
ToCalc ==
    /\ PicoAt("send") /\ CalcAt("recv")
    /\ PicoLeft \/ PicoWent(pico)
    /\ CalcTook(Cmd(PicoStep), pico.id)

ToPico ==
    /\ PicoAt("recv") /\ CalcAt("send") /\ ~pico.part
    /\ CalcWent /\ PicoTook(Cmd(CalcStep), calc.id)

Torn ==
    /\ PicoAt("recv") /\ CalcAt("send")
    /\ CalcWent \/ (calc' = Midway(calc) /\ UNCHANGED calcHist)
    /\ \/ PicoLeft
       \/ \E c \in Cmds : PicoTook(c, Garbled)
       \/ pico' = Midway(pico) /\ UNCHANGED picoHist

OnCable == CalcAlone \/ PicoAlone \/ ToCalc \/ ToPico \/ Torn

\* Half a packet leaves the two ends where they are.
LEMMA MidwayWhat ==
    /\ PicoTyped /\ PicoAt("recv") /\ pico' = Midway(pico) /\ UNCHANGED picoHist =>
        /\ PicoTyped' /\ pico'.part
        /\ pico'.proc = pico.proc /\ pico'.step = pico.step /\ pico'.id = pico.id
        /\ pico'.hdr = pico.hdr /\ pico'.data = pico.data /\ pico'.mixed = pico.mixed
        /\ PicoAt("recv")'
    /\ CalcTyped /\ calc' = Midway(calc) /\ UNCHANGED calcHist =>
        /\ CalcTyped'
        /\ calc'.proc = calc.proc /\ calc'.step = calc.step /\ calc'.id = calc.id
        /\ calc'.hdr = calc.hdr
<1>1. ASSUME PicoTyped, PicoAt("recv"), pico' = Midway(pico), UNCHANGED picoHist
      PROVE  /\ PicoTyped' /\ pico'.part
             /\ pico'.proc = pico.proc /\ pico'.step = pico.step /\ pico'.id = pico.id
             /\ pico'.hdr = pico.hdr /\ pico'.data = pico.data /\ pico'.mixed = pico.mixed
             /\ PicoAt("recv")'
  <2>1. /\ pico' \in PicoRun /\ pico'.part
        /\ pico'.proc = pico.proc /\ pico'.step = pico.step /\ pico'.id = pico.id
        /\ pico'.hdr = pico.hdr /\ pico'.data = pico.data /\ pico'.mixed = pico.mixed
    BY <1>1 DEF PicoTyped, PicoRun, Midway
  <2> QED BY <1>1, <2>1 DEF PicoTyped, picoHist, PicoAt, PicoStep
<1>2. ASSUME CalcTyped, calc' = Midway(calc), UNCHANGED calcHist
      PROVE  /\ CalcTyped'
             /\ calc'.proc = calc.proc /\ calc'.step = calc.step /\ calc'.id = calc.id
             /\ calc'.hdr = calc.hdr
  <2>1. /\ calc' \in CalcRun
        /\ calc'.proc = calc.proc /\ calc'.step = calc.step /\ calc'.id = calc.id
        /\ calc'.hdr = calc.hdr
    BY <1>2 DEF CalcTyped, CalcRun, Midway
  <2> QED BY <1>2, <2>1 DEF CalcTyped, calcHist
<1> QED BY <1>1, <1>2

\* Passing some bytes is the fifth.
LEMMA BytesPassWhat ==
    ASSUME PicoTyped, CalcTyped, PicoAt("recv"), CalcAt("send"), BytesPass
    PROVE  PicoTyped' /\ CalcTyped' /\ Torn
<1>0. pico.proc # "idle" /\ Garbled \in Ids
  BY TransferAssumption DEF PicoAt, Garbled, Ids
<1>1. CalcTyped' /\ (CalcWent \/ (calc' = Midway(calc) /\ UNCHANGED calcHist))
  <2>1. CASE CalcAdvances(calc) /\ UNCHANGED calcHist
    BY <2>1, CalcSendsWhat
  <2>2. CASE CalcFails
    BY <2>2, CalcSendsWhat DEF CalcFails, calcHist
  <2>3. CASE calc' = Midway(calc) /\ UNCHANGED calcHist
    BY <2>3, MidwayWhat
  <2> QED BY <2>1, <2>2, <2>3 DEF BytesPass
<1>2. /\ PicoTyped'
      /\ \/ PicoLeft
         \/ \E c \in Cmds : PicoTook(c, Garbled)
         \/ pico' = Midway(pico) /\ UNCHANGED picoHist
  <2>1. CASE \E c \in Cmds : PicoTakes(c, Garbled)
    BY <1>0, <2>1, PicoTakesWhat
  <2>2. CASE PicoFails
    BY <2>2, PicoFailsWhat
  <2>3. CASE pico' = Midway(pico) /\ UNCHANGED picoHist
    BY <2>3, MidwayWhat
  <2> QED BY <2>1, <2>2, <2>3 DEF BytesPass
<1> QED BY <1>1, <1>2 DEF Torn

\* Every step on the cable is one of the five.
LEMMA LinkWhat ==
    ASSUME TypeOK, Link
    PROVE  TypeOK' /\ starts' = starts /\ OnCable
<1>0. /\ PicoTyped /\ CalcTyped /\ starts \in Ids /\ faults \in 0..MaxFaults
      /\ pico \in PicoRun /\ calc \in CalcRun /\ pico.id \in Ids /\ calc.id \in Ids
  BY TypeParts DEF PicoTyped, CalcTyped, PicoRun, CalcRun
<1>1. starts' = starts /\ faults' \in 0..MaxFaults
  BY <1>0, TransferAssumption
     DEF Link, PicoToCalc, CalcToPico, PicoSendTimeout, CalcSendTimeout,
     PicoRecvTimeout, CalcRecvTimeout, Spoil
<1>2. ASSUME PicoTyped', CalcTyped' PROVE TypeOK'
  <2>1. TypeOK' <=> PicoTyped' /\ CalcTyped' /\ starts' \in Ids /\ faults' \in 0..MaxFaults
    BY DEF TypeOK, PicoTyped, CalcTyped, PicoRun, CalcRun, Result, Var, Stored
  <2> QED BY <1>0, <1>1, <1>2, <2>1
<1>3. CASE PicoToCalc
  <2>1. PicoAt("send") /\ CalcAt("recv") /\ pico.proc # "idle"
    BY <1>3 DEF PicoToCalc, PicoAt
  <2>2. CASE PicoAdvances(pico) /\ CalcTakes(Cmd(PicoStep), pico.id)
    BY <1>0, <1>1, <1>2, <2>1, <2>2, PicoAdvancesWhat, CalcTakesWhat DEF ToCalc, OnCable
  <2>3. CASE PicoFails /\ CalcTakes(Cmd(PicoStep), pico.id)
    BY <1>0, <1>1, <1>2, <2>1, <2>3, PicoFailsWhat, CalcTakesWhat DEF ToCalc, OnCable
  <2>4. CASE PicoFails /\ CalcFails
    BY <1>0, <1>1, <1>2, <2>1, <2>4, PicoFailsWhat, CalcFailsTyped
    DEF PicoAlone, CalcFails, calcHist, OnCable
  <2>5. CASE PicoFails /\ UNCHANGED <<calc, calcHist>>
    BY <1>0, <1>1, <1>2, <2>1, <2>5, PicoFailsWhat DEF PicoAlone, CalcTyped, calcHist, OnCable
  <2> QED BY <1>3, <2>2, <2>3, <2>4, <2>5 DEF PicoToCalc
<1>4. CASE CalcToPico
  <2>1. PicoAt("recv") /\ CalcAt("send") /\ pico.proc # "idle"
    BY <1>4 DEF CalcToPico, PicoAt
  <2>2. CASE /\ CalcAdvances(calc) /\ UNCHANGED calcHist
             /\ PicoTakes(Cmd(CalcStep), calc.id) /\ ~pico.part
    BY <1>0, <1>1, <1>2, <2>1, <2>2, CalcSendsWhat, PicoTakesWhat DEF ToPico, OnCable
  <2>3. CASE CalcFails /\ PicoTakes(Cmd(CalcStep), calc.id) /\ ~pico.part
    BY <1>0, <1>1, <1>2, <2>1, <2>3, CalcSendsWhat, PicoTakesWhat
    DEF ToPico, CalcFails, calcHist, OnCable
  <2>4. CASE BytesPass
    BY <1>0, <1>1, <1>2, <2>1, <2>4, BytesPassWhat DEF OnCable
  <2>5. CASE CalcFails /\ UNCHANGED <<pico, picoHist>>
    BY <1>0, <1>1, <1>2, <2>1, <2>5, CalcFailsTyped
    DEF CalcAlone, CalcFails, PicoTyped, calcHist, picoHist, OnCable
  <2> QED BY <1>4, <2>2, <2>3, <2>4, <2>5 DEF CalcToPico
<1>5. CASE PicoSendTimeout \/ PicoRecvTimeout
  <2>1. PicoFails /\ UNCHANGED <<calc, calcHist>>
    BY <1>5 DEF PicoSendTimeout, PicoRecvTimeout
  <2> QED BY <1>0, <1>1, <1>2, <2>1, PicoFailsWhat DEF PicoAlone, CalcTyped, calcHist, OnCable
<1>6. CASE CalcSendTimeout \/ CalcRecvTimeout
  <2>1. CalcFails /\ UNCHANGED <<pico, picoHist>>
    BY <1>6 DEF CalcSendTimeout, CalcRecvTimeout
  <2> QED BY <1>0, <1>1, <1>2, <2>1, CalcFailsTyped
      DEF CalcAlone, CalcFails, PicoTyped, calcHist, picoHist, OnCable
<1> QED BY <1>3, <1>4, <1>5, <1>6 DEF Link

\* A transfer begins.
LEMMA StartWhat ==
    ASSUME TypeOK, ListenLoop \/ PicoCall \/ CalcStart
    PROVE  /\ TypeOK' /\ UNCHANGED <<picoHist, calcHist>>
           /\ \/ ListenLoop
              \/ /\ starts' = starts + 1 /\ calc' = calc
                 /\ \E p \in Calls : pico' = Run(p, starts + 1, 0)
              \/ /\ starts' = starts + 1 /\ pico' = pico
                 /\ \E p \in {"put", "ask", "ready"} : calc' = Run(p, starts + 1, 0)
<1>0. /\ PicoTyped /\ CalcTyped /\ starts \in Ids /\ faults \in 0..MaxFaults
      /\ 0 \in Ids
  BY TypeParts, TransferAssumption DEF Ids
<1>2. ASSUME PicoTyped', CalcTyped', starts' \in Ids, faults' = faults PROVE TypeOK'
  <2>1. TypeOK' <=> PicoTyped' /\ CalcTyped' /\ starts' \in Ids /\ faults' \in 0..MaxFaults
    BY DEF TypeOK, PicoTyped, CalcTyped, PicoRun, CalcRun, Result, Var, Stored
  <2> QED BY <1>0, <1>2, <2>1
<1>3. CASE ListenLoop
  <2>1. PicoTyped' /\ CalcTyped'
    BY <1>0, <1>3, Starting DEF ListenLoop, PicoTyped, CalcTyped, PicoProc, Listen, Run,
       picoHist, calcHist
  <2> QED BY <1>0, <1>2, <1>3, <2>1 DEF ListenLoop
<1>4. CASE PicoCall
  <2>1. /\ starts' = starts + 1 /\ starts' \in Ids /\ faults' = faults
        /\ UNCHANGED <<calc, picoHist, calcHist>>
    BY <1>0, <1>4, TransferAssumption DEF PicoCall, Ids
  <2>2. PICK p \in Calls : pico' = Run(p, starts + 1, 0)
    BY <1>4, TransferAssumption DEF PicoCall, Calls
  <2>3. Run(p, starts + 1, 0) \in PicoRun /\ Run(p, starts + 1, 0).proc = p
        /\ Run(p, starts + 1, 0).step = 1
    <3>1. p \in PicoProc /\ starts + 1 \in Ids
      BY <2>1, <2>2 DEF PicoProc
    <3> QED BY <1>0, <3>1, RunTyped
  <2>4. PicoTyped' /\ CalcTyped'
    BY <1>0, <2>1, <2>2, <2>3, Starting DEF PicoTyped, CalcTyped, PicoProc, Calls,
       picoHist, calcHist
  <2> QED BY <1>2, <2>1, <2>2, <2>4
<1>5. CASE CalcStart
  <2>1. /\ starts' = starts + 1 /\ starts' \in Ids /\ faults' = faults
        /\ UNCHANGED <<pico, picoHist, calcHist>>
    BY <1>0, <1>5, TransferAssumption DEF CalcStart, Ids
  <2>2. PICK p \in {"put", "ask", "ready"} : calc' = Run(p, starts + 1, 0)
    BY <1>5, TransferAssumption DEF CalcStart
  <2>3. Run(p, starts + 1, 0) \in CalcRun /\ Run(p, starts + 1, 0).proc = p
        /\ Run(p, starts + 1, 0).step = 1
    BY <1>0, <2>1, <2>2, RunTyped DEF CalcProc
  <2>4. PicoTyped' /\ CalcTyped'
    BY <1>0, <2>1, <2>2, <2>3, Starting DEF PicoTyped, CalcTyped, CalcProc, picoHist, calcHist
  <2> QED BY <1>2, <2>1, <2>2, <2>4
<1> QED BY <1>3, <1>4, <1>5

-----------------------------------------------------------------------------
\* Outside its transfers the Pico faces nobody.
LEMMA NotDoing == pico'.proc \notin Doing => Faced'
BY DEF Doing, Calls, Faced, SendFaced, ReqFaced, DeleteFaced, RecvFaced, FinishFaced

\* Nor once it has accepted a garbled packet.
LEMMA Mixed == pico'.mixed => Faced'
BY DEF Faced, SendFaced, ReqFaced, DeleteFaced, RecvFaced, FinishFaced

\* In a transfer, that transfer's part of Faced is all of it.
LEMMA OneOf ==
    /\ pico'.proc = "send_var" /\ SendFaced' => Faced'
    /\ pico'.proc = "req_var" /\ ReqFaced' => Faced'
    /\ pico'.proc = "delete_var" /\ DeleteFaced' => Faced'
    /\ pico'.proc = "recv_var" /\ RecvFaced' => Faced'
    /\ pico'.proc = "finish" /\ FinishFaced' => Faced'
BY DEF Faced, SendFaced, ReqFaced, DeleteFaced, RecvFaced, FinishFaced

\* The place of the calculator is known through every packet that is no opener.
LEMMA Follows ==
    ASSUME CalcTyped, CalcAt("recv"), NEW c, c \notin {"RTS", "REQ", "DEL"}, NEW id,
           CalcTook(c, id), NEW P, "home" \notin P, NEW k, NEW i, Away \/ At(P, k, i)
    PROVE  Away' \/ (calc'.proc \in P /\ calc'.step = k + 1 /\ calc'.id = i)
<1>1. Home.proc = "home"
  BY Starting
<1>2. Away => calc.proc = "home"
  BY CalcPlaces DEF CalcTyped, CalcRun
<1>3. CASE calc' = Home
  BY <1>1, <1>3 DEF Away
<1>4. CASE calc' # Home
  <2>1. calc.proc # "home" /\ calc'.proc = calc.proc /\ calc'.step = calc.step + 1
        /\ calc'.id = calc.id
    BY <1>4 DEF CalcTook
  <2> QED BY <1>2, <2>1 DEF At
<1> QED BY <1>3, <1>4

\* And through every packet it sends.
LEMMA FollowsSending ==
    ASSUME CalcWent, NEW P, NEW k, NEW i, At(P, k, i)
    PROVE  Away' \/ (calc'.proc \in P /\ calc'.step = k + 1 /\ calc'.id = i)
<1>1. Home.proc = "home"
  BY Starting
<1> QED BY <1>1 DEF CalcWent, At, Away

\* A transfer of the Pico's that is still there has gone one step on.
LEMMA PicoContinues ==
    ASSUME NEW run, run.proc = pico.proc, PicoLeft \/ PicoWent(run), pico'.proc \in Doing
    PROVE  /\ pico.proc \in Doing /\ pico'.proc = run.proc /\ pico'.step = run.step + 1
           /\ pico'.id = run.id /\ pico'.hdr = run.hdr /\ pico'.data = run.data
           /\ ~pico'.part /\ pico'.mixed = run.mixed
           /\ UNCHANGED <<results, onVar>>
BY Starting DEF PicoLeft, PicoWent, Succeed, CallOnVar, Doing, Calls

\* A packet to the calculator leaves the two sides facing each other.
LEMMA ToCalcFaced == TypeOK /\ Faced /\ HalfRead /\ CalcKept /\ ToCalc => Faced'
<1> SUFFICES ASSUME TypeOK, Faced, HalfRead, CalcKept, ToCalc,
                    pico'.proc \in Doing, pico'.mixed # TRUE
             PROVE  Faced'
  BY NotDoing, Mixed
<1> DEFINE c == Cmd(PicoStep)
<1>0. /\ PicoTyped /\ CalcTyped /\ PicoAt("send") /\ CalcAt("recv")
      /\ CalcTook(c, pico.id) /\ pico.step \in 1..8
  BY TypeParts DEF ToCalc, PicoTyped, PicoRun
<1>1. /\ pico.proc \in Doing /\ pico'.proc = pico.proc /\ pico'.step = pico.step + 1
      /\ pico'.id = pico.id /\ pico'.hdr = pico.hdr /\ pico'.data = pico.data
      /\ ~pico'.part /\ ~pico.mixed /\ ~pico.part
  <2>1. ~pico.part
    BY <1>0 DEF HalfRead, PicoAt
  <2> QED BY <2>1, PicoContinues DEF ToCalc
<1>2. PicoSendsAt(pico.proc, pico.step, c)
  BY <1>0, PicoSends
<1>3. calc.proc # "home" => CalcStep.cmds \cap {"RTS", "REQ", "DEL"} = {}
  BY <1>0, Openers DEF CalcTyped, CalcRun
<1>4. stored \subseteq stored' /\ deleted \subseteq deleted' /\ Home.proc = "home"
  BY <1>0, Starting DEF CalcTook
<1> HIDE DEF c
<1>5. CASE pico.proc = "send_var"
  <2>1. CASE pico.step = 1
    <3>1. c = "RTS"
      BY <1>2, <1>5, <2>1 DEF PicoSendsAt
    <3>2. \/ calc' = Home
          \/ calc'.proc \in {"get", "refuse_get", "refuse_data"} /\ calc'.step = 1
              /\ calc'.id = pico.id
      BY <1>0, <1>3, <3>1 DEF CalcTook
    <3>3. pico'.step = 2
      BY <1>1, <2>1
    <3> QED BY <1>1, <1>4, <1>5, <3>2, <3>3, OneOf DEF SendFaced, At, Away
  <2>2. CASE pico.step = 4
    <3>1. c = "ACK" /\ (Away \/ At({"get", "refuse_get", "refuse_data"}, 3, pico.id))
      BY <1>1, <1>2, <1>5, <2>2 DEF PicoSendsAt, Faced, SendFaced
    <3>2. \/ Away'
          \/ /\ calc'.proc \in {"get", "refuse_get", "refuse_data"}
             /\ calc'.step = 3 + 1 /\ calc'.id = pico.id
      BY <1>0, <3>1, Follows
    <3>3. pico'.step = 5
      BY <1>1, <2>2
    <3> QED BY <1>1, <1>5, <3>2, <3>3, OneOf DEF SendFaced, At
  <2>3. CASE pico.step = 5
    <3>1. c = "DATA" /\ (Away \/ At({"get", "refuse_get", "refuse_data"}, 4, pico.id))
      BY <1>1, <1>2, <1>5, <2>3 DEF PicoSendsAt, Faced, SendFaced
    <3>2. \/ Away'
          \/ /\ calc'.proc \in {"get", "refuse_get", "refuse_data"}
             /\ calc'.step = 4 + 1 /\ calc'.id = pico.id
      BY <1>0, <3>1, Follows
    <3>3. calc'.proc = "get" => [hdr |-> pico.id, data |-> pico.id] \in stored'
      <4>1. CASE calc.proc = "get"
        <5>1. calc.hdr = pico.id
          BY <3>1, <4>1 DEF Away, At, CalcKept
        <5> QED BY <1>0, <1>4, <3>1, <4>1, <5>1 DEF CalcTook
      <4>2. CASE calc.proc # "get"
        BY <1>0, <1>4, <3>1, <4>2 DEF CalcTook
      <4> QED BY <4>1, <4>2
    <3>4. pico'.step = 6
      BY <1>1, <2>3
    <3> QED BY <1>1, <1>5, <3>2, <3>3, <3>4, OneOf DEF SendFaced, At
  <2>4. CASE pico.step = 7
    <3>1. pico'.step = 8
      BY <1>1, <2>4
    <3> QED BY <1>1, <1>5, <3>1, OneOf DEF SendFaced
  <2> QED BY <1>2, <1>5, <2>1, <2>2, <2>3, <2>4 DEF PicoSendsAt
<1>6. CASE pico.proc = "req_var"
  <2>1. CASE pico.step = 1
    <3>1. c = "REQ"
      BY <1>2, <1>6, <2>1 DEF PicoSendsAt
    <3>2. \/ calc' = Home
          \/ calc'.proc \in {"give", "no_var"} /\ calc'.step = 1 /\ calc'.id = pico.id
      BY <1>0, <1>3, <3>1 DEF CalcTook
    <3>3. pico'.step = 2
      BY <1>1, <2>1
    <3> QED BY <1>1, <1>4, <1>6, <3>2, <3>3, OneOf DEF ReqFaced, At, Away
  <2>2. CASE pico.step = 4
    <3>1. c = "ACK" /\ (Away \/ At({"give", "no_var"}, 3, pico.id)) /\ pico.hdr = pico.id
      <4>1. c = "ACK"
        BY <1>2, <1>6, <2>2 DEF PicoSendsAt
      <4> QED BY <1>1, <1>6, <2>2, <4>1 DEF Faced, ReqFaced
    <3>2. pico'.step = 5
      BY <1>1, <2>2
    <3>3. \/ Away'
          \/ calc'.proc \in {"give", "no_var"} /\ calc'.step = 3 + 1 /\ calc'.id = pico.id
      <4> DEFINE P == {"give", "no_var"}
      <4>1. c \notin {"RTS", "REQ", "DEL"} /\ "home" \notin P /\ (Away \/ At(P, 3, pico.id))
        BY <3>1
      <4> HIDE DEF P
      <4>2. Away' \/ (calc'.proc \in P /\ calc'.step = 3 + 1 /\ calc'.id = pico.id)
        BY <1>0, <4>1, Follows
      <4> QED BY <4>2 DEF P
    <3> QED BY <1>1, <1>6, <3>1, <3>2, <3>3, OneOf DEF ReqFaced, At
  <2>3. CASE pico.step = 5
    <3>1. c = "CTS" /\ (Away \/ At({"give", "no_var"}, 4, pico.id)) /\ pico.hdr = pico.id
      <4>1. c = "CTS"
        BY <1>2, <1>6, <2>3 DEF PicoSendsAt
      <4> QED BY <1>1, <1>6, <2>3, <4>1 DEF Faced, ReqFaced
    <3>2. pico'.step = 6
      BY <1>1, <2>3
    <3>3. \/ Away'
          \/ calc'.proc \in {"give", "no_var"} /\ calc'.step = 4 + 1 /\ calc'.id = pico.id
      <4> DEFINE P == {"give", "no_var"}
      <4>1. c \notin {"RTS", "REQ", "DEL"} /\ "home" \notin P /\ (Away \/ At(P, 4, pico.id))
        BY <3>1
      <4> HIDE DEF P
      <4>2. Away' \/ (calc'.proc \in P /\ calc'.step = 4 + 1 /\ calc'.id = pico.id)
        BY <1>0, <4>1, Follows
      <4> QED BY <4>2 DEF P
    <3> QED BY <1>1, <1>6, <3>1, <3>2, <3>3, OneOf DEF ReqFaced, At
  <2>4. CASE pico.step = 8
    <3>1. pico'.step = 9 /\ pico.hdr = pico.id
      BY <1>1, <1>6, <2>4 DEF Faced, ReqFaced
    <3> QED BY <1>1, <1>6, <3>1, OneOf DEF ReqFaced
  <2> QED BY <1>2, <1>6, <2>1, <2>2, <2>3, <2>4 DEF PicoSendsAt
<1>7. CASE pico.proc = "delete_var"
  <2>1. c = "DEL" /\ pico'.step = 2
    BY <1>1, <1>2, <1>7 DEF PicoSendsAt
  <2>2. calc' = Home \/ (calc'.proc = "del" /\ calc'.step = 1 /\ calc'.id = pico.id)
    BY <1>0, <1>3, <2>1 DEF CalcTook
  <2> QED BY <1>1, <1>4, <1>7, <2>1, <2>2, OneOf DEF DeleteFaced, At, Away
<1>8. CASE pico.proc = "recv_var"
  <2>1. CASE pico.step \in {2, 3}
    <3> DEFINE k == pico.step
    <3>1. /\ c \in {"ACK", "CTS"}
          /\ Away \/ At({"put"}, k, pico.hdr) \/ At({"give"}, k + 1, pico.hdr)
      BY <1>1, <1>2, <1>8, <2>1 DEF PicoSendsAt, Faced, RecvFaced
    <3>2. k + 1 = pico'.step /\ pico'.step \in {3, 4}
      BY <1>1, <2>1
    <3> HIDE DEF k
    <3>3. \/ Away'
          \/ calc'.proc \in {"put"} /\ calc'.step = k + 1 /\ calc'.id = pico.hdr
          \/ calc'.proc \in {"give"} /\ calc'.step = k + 1 + 1 /\ calc'.id = pico.hdr
      <4>0. c \notin {"RTS", "REQ", "DEL"}
        BY <3>1
      <4>1. Away \/ At({"put"}, k, pico.hdr) =>
                \/ Away'
                \/ calc'.proc \in {"put"} /\ calc'.step = k + 1 /\ calc'.id = pico.hdr
        BY <1>0, <4>0, Follows
      <4>2. Away \/ At({"give"}, k + 1, pico.hdr) =>
                \/ Away'
                \/ calc'.proc \in {"give"} /\ calc'.step = k + 1 + 1 /\ calc'.id = pico.hdr
        BY <1>0, <4>0, Follows
      <4> QED BY <3>1, <4>1, <4>2
    <3> QED BY <1>1, <1>8, <3>2, <3>3, OneOf DEF RecvFaced, At
  <2>2. CASE pico.step = 6
    <3>1. pico'.step = 7 /\ pico.data = pico.hdr
      BY <1>1, <1>8, <2>2 DEF Faced, RecvFaced
    <3> QED BY <1>1, <1>8, <3>1, OneOf DEF RecvFaced
  <2> QED BY <1>2, <1>8, <2>1, <2>2 DEF PicoSendsAt
<1>9. CASE pico.proc = "finish"
  <2>1. CASE pico.step \in {1, 2}
    <3> DEFINE k == pico.step + 1
    <3>1. /\ c \in {"ACK", "CTS"}
          /\ Away \/ At({"put"}, k, pico.hdr) \/ At({"give"}, k + 1, pico.hdr)
      <4>1. c \in {"ACK", "CTS"}
        BY <1>2, <1>9, <2>1 DEF PicoSendsAt
      <4>2. pico.step + 2 = k + 1 /\ pico.step \in 1..4
        BY <2>1
      <4> QED BY <1>1, <1>9, <4>1, <4>2 DEF Faced, FinishFaced
    <3>2. k + 1 = pico'.step + 1 /\ k + 1 + 1 = pico'.step + 2 /\ pico'.step \in {2, 3}
      BY <1>1, <2>1
    <3> HIDE DEF k
    <3>3. \/ Away'
          \/ calc'.proc \in {"put"} /\ calc'.step = k + 1 /\ calc'.id = pico.hdr
          \/ calc'.proc \in {"give"} /\ calc'.step = k + 1 + 1 /\ calc'.id = pico.hdr
      <4>0. c \notin {"RTS", "REQ", "DEL"}
        BY <3>1
      <4>1. Away \/ At({"put"}, k, pico.hdr) =>
                \/ Away'
                \/ calc'.proc \in {"put"} /\ calc'.step = k + 1 /\ calc'.id = pico.hdr
        BY <1>0, <4>0, Follows
      <4>2. Away \/ At({"give"}, k + 1, pico.hdr) =>
                \/ Away'
                \/ calc'.proc \in {"give"} /\ calc'.step = k + 1 + 1 /\ calc'.id = pico.hdr
        BY <1>0, <4>0, Follows
      <4> QED BY <3>1, <4>1, <4>2
    <3> QED BY <1>1, <1>9, <3>2, <3>3, OneOf DEF FinishFaced, At
  <2>2. CASE pico.step = 5
    <3>1. pico'.step = 6 /\ pico.data = pico.hdr
      BY <1>1, <1>9, <2>2 DEF Faced, FinishFaced
    <3> QED BY <1>1, <1>9, <3>1, OneOf DEF FinishFaced
  <2> QED BY <1>2, <1>9, <2>1, <2>2 DEF PicoSendsAt
<1> QED BY <1>1, <1>5, <1>6, <1>7, <1>8, <1>9 DEF Doing, Calls

\* Nothing but the drain of a variable is dropped unread.
LEMMA DrainWhere ==
    ASSUME PicoTyped, PicoAt("recv"), PicoStep = Drain, pico.proc \in Doing
    PROVE  \/ pico.proc = "recv_var" /\ pico.step = 7
           \/ pico.proc = "finish" /\ pico.step = 6
<1>1. PicoTakesAt(pico.proc, pico.step, PicoStep)
  BY PicoReceives
<1>2. PicoStep.cmds = Cmds
  BY StepFacts
<1>3. Cmds \notin {{"ACK"}, {"CTS"}, {"VAR"}, {"DATA"}, {"RTS", "VAR"}}
  <2>1. "EOT" \in Cmds
    BY DEF Cmds
  <2> QED BY <2>1
<1>4. ~\E C \in {{"ACK"}, {"CTS"}, {"VAR"}, {"DATA"}, {"RTS", "VAR"}} : PicoStep.cmds = C
  BY <1>2, <1>3
<1>5. pico.proc \notin {"send_var", "req_var", "delete_var"}
  BY <1>1, <1>4 DEF PicoTakesAt
<1>6. pico.proc = "recv_var" => pico.step = 7
  BY <1>1, <1>4 DEF PicoTakesAt
<1>7. pico.proc = "finish" => pico.step = 6
  BY <1>1, <1>4 DEF PicoTakesAt
<1> QED BY <1>5, <1>6, <1>7 DEF Doing, Calls

\* The drain leaves what was read.
LEMMA DrainFaced ==
    ASSUME PicoTyped, Faced, PicoAt("recv"), PicoStep = Drain, PicoWent(pico),
           pico'.proc \in Doing
    PROVE  Faced'
<1>1. /\ pico.proc \in Doing /\ pico'.proc = pico.proc /\ pico'.step = pico.step + 1
      /\ pico'.hdr = pico.hdr /\ pico'.data = pico.data /\ pico'.mixed = pico.mixed
  BY PicoContinues
<1>2. CASE pico.proc = "recv_var" /\ pico.step = 7
  <2>1. pico'.step = 8 /\ (~pico.mixed => pico.data = pico.hdr)
    BY <1>1, <1>2 DEF Faced, RecvFaced
  <2> QED BY <1>1, <1>2, <2>1, OneOf DEF RecvFaced
<1>3. CASE pico.proc = "finish" /\ pico.step = 6
  <2>1. pico'.step = 7 /\ (~pico.mixed => pico.data = pico.hdr)
    BY <1>1, <1>3 DEF Faced, FinishFaced
  <2> QED BY <1>1, <1>3, <2>1, OneOf DEF FinishFaced
<1> QED BY <1>1, <1>2, <1>3, DrainWhere

\* What a transfer that listen_loop takes begins with.
LEMMA FinishBegins ==
    ASSUME NEW c \in {"RTS", "VAR"}, NEW id \in Ids
    PROVE  LET run == PicoKeep(Run("finish", id, id), c, id) IN
           /\ run.proc = "finish" /\ run.step = 1 /\ run.hdr = id /\ ~run.part
           /\ run.mixed <=> id = Garbled
<1>1. /\ Run("finish", id, id) \in PicoRun /\ Run("finish", id, id).proc = "finish"
      /\ Run("finish", id, id).step = 1
      /\ ~Run("finish", id, id).part /\ ~Run("finish", id, id).mixed
  BY RunTyped DEF PicoProc
<1> QED BY <1>1, PicoKeepWhat

\* And so does one to the Pico.
LEMMA ToPicoFaced == TypeOK /\ Faced /\ CalcKept /\ ToPico => Faced'
<1> SUFFICES ASSUME TypeOK, Faced, CalcKept, ToPico, pico'.proc \in Doing, pico'.mixed # TRUE
             PROVE  Faced'
  BY NotDoing, Mixed
<1> DEFINE c == Cmd(CalcStep)
<1>0. /\ PicoTyped /\ CalcTyped /\ PicoAt("recv") /\ CalcAt("send") /\ CalcWent
      /\ PicoTook(c, calc.id) /\ pico.step \in 1..8 /\ pico \in PicoRun /\ calc.id \in Ids
      /\ stored' = stored /\ Home.proc = "home" /\ ~pico.part
  BY TypeParts, Starting DEF ToPico, PicoTyped, PicoRun, CalcTyped, CalcRun, CalcWent
<1>1. PicoTakesAt(pico.proc, pico.step, PicoStep)
  BY <1>0, PicoReceives
<1>2. c \in {"RTS", "VAR"} =>
          (calc.proc = "put" /\ calc.step = 1) \/ (calc.proc = "give" /\ calc.step = 2)
  BY <1>0, Openers DEF CalcTyped, CalcRun
<1>3. /\ Away => c \in {"RTS", "REQ", "RDY"}
      /\ calc.proc \in {"refuse_get", "refuse_data"} /\ calc.step = 5 => c # "ACK"
  BY <1>0, CalcPlaces DEF CalcTyped, CalcRun
<1> HIDE DEF c
<1>4. CASE /\ pico.proc = "listen" /\ c \in {"RTS", "VAR"}
           /\ pico' = PicoKeep(Run("finish", calc.id, calc.id), c, calc.id)
  <2>1. pico'.proc = "finish" /\ pico'.step = 1 /\ pico'.hdr = calc.id
    BY <1>0, <1>4, FinishBegins
  <2>2. \/ Away'
        \/ calc'.proc = "put" /\ calc'.step = 2 /\ calc'.id = calc.id
        \/ calc'.proc = "give" /\ calc'.step = 3 /\ calc'.id = calc.id
    BY <1>0, <1>2, <1>4 DEF CalcWent, Away
  <2> QED BY <2>1, <2>2, OneOf DEF FinishFaced, At
<1>5. CASE PicoStep = Drain /\ PicoWent(pico)
  BY <1>0, <1>5, DrainFaced
<1>6. CASE PicoStep # Drain /\ c \in PicoStep.cmds /\ PicoWent(PicoKeep(pico, c, calc.id))
  <2> DEFINE run == PicoKeep(pico, c, calc.id)
  <2>0. /\ run.proc = pico.proc /\ run.step = pico.step /\ run.id = pico.id
        /\ run.hdr = IF c \in {"RTS", "VAR", "REQ"} THEN calc.id ELSE pico.hdr
        /\ run.data = IF c = "DATA" THEN calc.id ELSE pico.data
        /\ pico.mixed => run.mixed
    BY <1>0, PicoKeepWhat
  <2>1. /\ pico.proc \in Doing /\ pico'.proc = pico.proc /\ pico'.step = pico.step + 1
        /\ pico'.id = pico.id
        /\ pico'.hdr = IF c \in {"RTS", "VAR", "REQ"} THEN calc.id ELSE pico.hdr
        /\ pico'.data = IF c = "DATA" THEN calc.id ELSE pico.data
        /\ ~pico.mixed /\ ~pico.part
    <3> HIDE DEF run
    <3> QED BY <1>0, <1>6, <2>0, PicoContinues DEF run
  <2> HIDE DEF run
  <2>2. c \in {"ACK", "CTS", "VAR", "DATA"} => ~Away
    BY <1>3
  <2>3. CASE pico.proc = "send_var"
    <3>1. CASE pico.step = 2
      <4>1. c = "ACK"
        BY <1>1, <1>6, <2>3, <3>1 DEF PicoTakesAt
      <4>2. At({"get", "refuse_get", "refuse_data"}, 1, pico.id)
        <5>1. ~Away
          BY <2>2, <4>1
        <5> QED BY <2>1, <2>3, <3>1, <5>1 DEF Faced, SendFaced
      <4>3. \/ Away'
            \/ calc'.proc \in {"get", "refuse_get", "refuse_data"} /\ calc'.step = 1 + 1
                /\ calc'.id = pico.id
        BY <1>0, <4>2, FollowsSending
      <4>4. pico'.step = 3
        BY <2>1, <3>1
      <4> QED BY <2>1, <2>3, <4>1, <4>3, <4>4, OneOf DEF SendFaced, At
    <3>2. CASE pico.step = 3
      <4>1. c = "CTS"
        BY <1>1, <1>6, <2>3, <3>2 DEF PicoTakesAt
      <4>2. At({"get", "refuse_get", "refuse_data"}, 2, pico.id)
        <5>1. ~Away
          BY <2>2, <4>1
        <5> QED BY <2>1, <2>3, <3>2, <5>1 DEF Faced, SendFaced
      <4>3. \/ Away'
            \/ calc'.proc \in {"get", "refuse_get", "refuse_data"} /\ calc'.step = 2 + 1
                /\ calc'.id = pico.id
        BY <1>0, <4>2, FollowsSending
      <4>4. pico'.step = 4
        BY <2>1, <3>2
      <4> QED BY <2>1, <2>3, <4>1, <4>3, <4>4, OneOf DEF SendFaced, At
    <3>3. CASE pico.step = 6
      <4>1. c = "ACK"
        BY <1>1, <1>6, <2>3, <3>3 DEF PicoTakesAt
      <4>2. At({"get", "refuse_get", "refuse_data"}, 5, pico.id)
        <5>1. ~Away
          BY <2>2, <4>1
        <5> QED BY <2>1, <2>3, <3>3, <5>1 DEF Faced, SendFaced
      <4>3. calc.proc = "get"
        BY <1>3, <4>1, <4>2 DEF At
      <4>4. [hdr |-> pico.id, data |-> pico.id] \in stored
        BY <2>1, <2>3, <3>3, <4>3 DEF Faced, SendFaced
      <4>5. pico'.step = 7
        BY <2>1, <3>3
      <4> QED BY <1>0, <2>1, <2>3, <4>4, <4>5, OneOf DEF SendFaced
    <3> QED BY <1>1, <2>3, <3>1, <3>2, <3>3 DEF PicoTakesAt
  <2>4. CASE pico.proc = "req_var"
    <3>1. CASE pico.step = 2
      <4>1. c = "ACK"
        BY <1>1, <1>6, <2>4, <3>1 DEF PicoTakesAt
      <4>2. At({"give", "no_var"}, 1, pico.id)
        <5>1. ~Away
          BY <2>2, <4>1
        <5> QED BY <2>1, <2>4, <3>1, <5>1 DEF Faced, ReqFaced
      <4>3. \/ Away'
            \/ calc'.proc \in {"give", "no_var"} /\ calc'.step = 1 + 1 /\ calc'.id = pico.id
        BY <1>0, <4>2, FollowsSending
      <4>4. pico'.step = 3
        BY <2>1, <3>1
      <4> QED BY <2>1, <2>4, <4>1, <4>3, <4>4, OneOf DEF ReqFaced, At
    <3>2. CASE pico.step = 3
      <4>1. c = "VAR"
        BY <1>1, <1>6, <2>4, <3>2 DEF PicoTakesAt
      <4>2. At({"give", "no_var"}, 2, pico.id)
        <5>1. ~Away
          BY <2>2, <4>1
        <5> QED BY <2>1, <2>4, <3>2, <5>1 DEF Faced, ReqFaced
      <4>3. \/ Away'
            \/ calc'.proc \in {"give", "no_var"} /\ calc'.step = 2 + 1 /\ calc'.id = pico.id
        BY <1>0, <4>2, FollowsSending
      <4>4. pico'.step = 4
        BY <2>1, <3>2
      <4>5. calc.id = pico.id
        BY <4>2 DEF At
      <4> QED BY <2>1, <2>4, <4>1, <4>3, <4>4, <4>5, OneOf DEF ReqFaced, At
    <3>3. CASE pico.step = 6
      <4>1. c = "ACK"
        BY <1>1, <1>6, <2>4, <3>3 DEF PicoTakesAt
      <4>2. At({"give", "no_var"}, 5, pico.id)
        <5>1. ~Away
          BY <2>2, <4>1
        <5> QED BY <2>1, <2>4, <3>3, <5>1 DEF Faced, ReqFaced
      <4>3. \/ Away'
            \/ calc'.proc \in {"give", "no_var"} /\ calc'.step = 5 + 1 /\ calc'.id = pico.id
        BY <1>0, <4>2, FollowsSending
      <4>4. pico'.step = 7
        BY <2>1, <3>3
      <4>5. pico.hdr = pico.id
        BY <2>1, <2>4, <3>3 DEF Faced, ReqFaced
      <4> QED BY <2>1, <2>4, <4>1, <4>3, <4>4, <4>5, OneOf DEF ReqFaced, At
    <3>4. CASE pico.step = 7
      <4>1. c = "DATA"
        BY <1>1, <1>6, <2>4, <3>4 DEF PicoTakesAt
      <4>2. At({"give", "no_var"}, 6, pico.id)
        <5>1. ~Away
          BY <2>2, <4>1
        <5> QED BY <2>1, <2>4, <3>4, <5>1 DEF Faced, ReqFaced
      <4>3. \/ Away'
            \/ calc'.proc \in {"give", "no_var"} /\ calc'.step = 6 + 1 /\ calc'.id = pico.id
        BY <1>0, <4>2, FollowsSending
      <4>4. pico'.step = 8
        BY <2>1, <3>4
      <4>5. pico.hdr = pico.id /\ calc.id = pico.id
        BY <2>1, <2>4, <3>4, <4>2 DEF Faced, ReqFaced, At
      <4> QED BY <2>1, <2>4, <4>1, <4>3, <4>4, <4>5, OneOf DEF ReqFaced, At
    <3> QED BY <1>1, <2>4, <3>1, <3>2, <3>3, <3>4 DEF PicoTakesAt
  <2>5. CASE pico.proc = "delete_var"
    <3>1. CASE pico.step = 2
      <4>1. c = "ACK"
        BY <1>1, <1>6, <2>5, <3>1 DEF PicoTakesAt
      <4>2. At({"del"}, 1, pico.id)
        <5>1. ~Away
          BY <2>2, <4>1
        <5> QED BY <2>1, <2>5, <3>1, <5>1 DEF Faced, DeleteFaced
      <4>3. \/ Away'
            \/ calc'.proc \in {"del"} /\ calc'.step = 1 + 1 /\ calc'.id = pico.id
        BY <1>0, <4>2, FollowsSending
      <4>4. pico'.step = 3
        BY <2>1, <3>1
      <4> QED BY <2>1, <2>5, <4>1, <4>3, <4>4, OneOf DEF DeleteFaced, At
    <3>2. CASE pico.step = 3
      <4>1. pico'.step = 4
        BY <2>1, <3>2
      <4> QED BY <2>1, <2>5, <4>1, OneOf DEF DeleteFaced
    <3> QED BY <1>1, <2>5, <3>1, <3>2 DEF PicoTakesAt
  <2>6. CASE pico.proc = "recv_var"
    <3>1. CASE pico.step = 1
      <4>1. c \in {"RTS", "VAR"}
        BY <1>1, <1>6, <2>6, <3>1 DEF PicoTakesAt
      <4>2. \/ Away'
            \/ calc'.proc = "put" /\ calc'.step = 2 /\ calc'.id = calc.id
            \/ calc'.proc = "give" /\ calc'.step = 3 /\ calc'.id = calc.id
        BY <1>0, <1>2, <4>1 DEF CalcWent, Away
      <4>3. pico'.step = 2 /\ pico'.hdr = calc.id
        BY <2>1, <3>1, <4>1
      <4> QED BY <2>1, <2>6, <4>2, <4>3, OneOf DEF RecvFaced, At
    <3>2. CASE pico.step = 4
      <4>1. c = "ACK"
        BY <1>1, <1>6, <2>6, <3>2 DEF PicoTakesAt
      <4>2. At({"put"}, 4, pico.hdr) \/ At({"give"}, 5, pico.hdr)
        <5>1. ~Away
          BY <2>2, <4>1
        <5> QED BY <2>1, <2>6, <3>2, <5>1 DEF Faced, RecvFaced
      <4>3. \/ Away'
            \/ calc'.proc \in {"put"} /\ calc'.step = 4 + 1 /\ calc'.id = pico.hdr
            \/ calc'.proc \in {"give"} /\ calc'.step = 5 + 1 /\ calc'.id = pico.hdr
        BY <1>0, <4>2, FollowsSending
      <4>4. pico'.step = 5
        BY <2>1, <3>2
      <4> QED BY <2>1, <2>6, <4>1, <4>3, <4>4, OneOf DEF RecvFaced, At
    <3>3. CASE pico.step = 5
      <4>1. c = "DATA"
        BY <1>1, <1>6, <2>6, <3>3 DEF PicoTakesAt
      <4>2. calc.id = pico.hdr
        <5>1. ~Away
          BY <2>2, <4>1
        <5> QED BY <2>1, <2>6, <3>3, <5>1 DEF Faced, RecvFaced, At
      <4>3. pico'.step = 6 /\ pico'.data = pico'.hdr
        BY <2>1, <3>3, <4>1, <4>2
      <4> QED BY <2>1, <2>6, <4>3, OneOf DEF RecvFaced
    <3>4. CASE pico.step = 7
      BY <1>1, <1>6, <2>6, <3>4 DEF PicoTakesAt
    <3> QED BY <1>1, <2>6, <3>1, <3>2, <3>3, <3>4 DEF PicoTakesAt
  <2>7. CASE pico.proc = "finish"
    <3>1. CASE pico.step = 3
      <4>1. c = "ACK"
        BY <1>1, <1>6, <2>7, <3>1 DEF PicoTakesAt
      <4>2. At({"put"}, 4, pico.hdr) \/ At({"give"}, 5, pico.hdr)
        <5>1. ~Away
          BY <2>2, <4>1
        <5> QED BY <2>1, <2>7, <3>1, <5>1 DEF Faced, FinishFaced
      <4>3. \/ Away'
            \/ calc'.proc \in {"put"} /\ calc'.step = 4 + 1 /\ calc'.id = pico.hdr
            \/ calc'.proc \in {"give"} /\ calc'.step = 5 + 1 /\ calc'.id = pico.hdr
        BY <1>0, <4>2, FollowsSending
      <4>4. pico'.step = 4
        BY <2>1, <3>1
      <4> QED BY <2>1, <2>7, <4>1, <4>3, <4>4, OneOf DEF FinishFaced, At
    <3>2. CASE pico.step = 4
      <4>1. c = "DATA"
        BY <1>1, <1>6, <2>7, <3>2 DEF PicoTakesAt
      <4>2. calc.id = pico.hdr
        <5>1. ~Away
          BY <2>2, <4>1
        <5> QED BY <2>1, <2>7, <3>2, <5>1 DEF Faced, FinishFaced, At
      <4>3. pico'.step = 5 /\ pico'.data = pico'.hdr
        BY <2>1, <3>2, <4>1, <4>2
      <4> QED BY <2>1, <2>7, <4>3, OneOf DEF FinishFaced
    <3>3. CASE pico.step = 6
      BY <1>1, <1>6, <2>7, <3>3 DEF PicoTakesAt
    <3> QED BY <1>1, <2>7, <3>1, <3>2, <3>3 DEF PicoTakesAt
  <2> QED BY <2>1, <2>3, <2>4, <2>5, <2>6, <2>7 DEF Doing, Calls
<1> QED BY <1>0, <1>4, <1>5, <1>6, PicoContinues
    DEF PicoTook, PicoLeft, CallOnVar, Listen, Run, Doing, Calls

\* A packet that does not come whole leaves nothing known, or what was known.
LEMMA TornFaced == TypeOK /\ Faced /\ Torn => Faced'
<1> SUFFICES ASSUME TypeOK, Faced, Torn, pico'.proc \in Doing, ~pico'.mixed PROVE Faced'
  BY NotDoing, Mixed
<1>0. PicoTyped /\ pico \in PicoRun /\ Garbled \in Ids /\ PicoAt("recv")
  BY TypeParts, TransferAssumption DEF Torn, PicoTyped, Garbled, Ids
<1>1. CASE pico' = Midway(pico) /\ UNCHANGED picoHist
  <2>1. /\ pico'.part
        /\ pico'.proc = pico.proc /\ pico'.step = pico.step /\ pico'.id = pico.id
        /\ pico'.hdr = pico.hdr /\ pico'.data = pico.data /\ pico'.mixed = pico.mixed
    BY <1>0, <1>1, MidwayWhat
  <2>2. stored' = stored
    BY DEF Torn, CalcWent, calcHist
  <2> QED BY <2>1, <2>2 DEF Faced, SendFaced, ReqFaced, DeleteFaced, RecvFaced, FinishFaced
<1>2. ~PicoLeft
  BY DEF PicoLeft, CallOnVar, Listen, Run, Doing, Calls
<1>3. CASE \E c \in Cmds : PicoTook(c, Garbled)
  <2>1. PICK c \in Cmds : PicoTook(c, Garbled)
    BY <1>3
  <2>2. CASE /\ c \in {"RTS", "VAR"}
             /\ pico' = PicoKeep(Run("finish", Garbled, Garbled), c, Garbled)
    BY <1>0, <2>2, FinishBegins
  <2>3. CASE PicoStep = Drain /\ PicoWent(pico)
    BY <1>0, <2>3, DrainFaced
  <2>4. CASE PicoWent(PicoKeep(pico, c, Garbled))
    <3> DEFINE run == PicoKeep(pico, c, Garbled)
    <3>1. run.mixed /\ run.proc = pico.proc
      BY <1>0, PicoKeepWhat
    <3>2. PicoWent(run)
      BY <2>4
    <3> HIDE DEF run
    <3> QED BY <3>1, <3>2, PicoContinues
  <2> QED BY <1>2, <2>1, <2>2, <2>3, <2>4 DEF PicoTook
<1> QED BY <1>1, <1>2, <1>3 DEF Torn

-----------------------------------------------------------------------------
\* So does every step.
LEMMA FacedStep == TypeOK /\ Faced /\ HalfRead /\ CalcKept /\ [Next]_vars => Faced'
<1> SUFFICES ASSUME TypeOK, Faced, HalfRead, CalcKept, [Next]_vars PROVE Faced'
  OBVIOUS
<1>1. CASE Link
  <2>1. CASE CalcAlone
    BY <2>1, Starting DEF CalcAlone, calcHist, Faced, SendFaced, ReqFaced, DeleteFaced,
       RecvFaced, FinishFaced, Away
  <2>2. CASE PicoAlone
    BY <2>2, NotDoing DEF PicoAlone, PicoLeft, CallOnVar, Listen, Run, Doing, Calls
  <2> QED BY <1>1, <2>1, <2>2, LinkWhat, ToCalcFaced, ToPicoFaced, TornFaced DEF OnCable
<1>2. CASE ListenLoop
  BY <1>2, NotDoing DEF ListenLoop, Listen, Run, Doing, Calls
<1>3. CASE PicoCall
  <2>1. \E p \in Calls : pico' = Run(p, starts + 1, 0)
    BY <1>3, TransferAssumption DEF PicoCall, Calls
  <2>2. pico'.proc \in Calls /\ pico'.step = 1
    BY <2>1 DEF Run, Calls
  <2> QED BY <2>2, OneOf DEF Calls, SendFaced, ReqFaced, DeleteFaced, RecvFaced
<1>4. CASE CalcStart
  <2>1. Away' /\ calc'.proc # "get" /\ pico' = pico /\ stored' = stored
    BY <1>4, TransferAssumption DEF CalcStart, Run, Away, calcHist
  <2> QED BY <2>1 DEF Faced, SendFaced, ReqFaced, DeleteFaced, RecvFaced, FinishFaced
<1>5. CASE UNCHANGED vars
  BY <1>5 DEF vars, Faced, SendFaced, ReqFaced, DeleteFaced, RecvFaced, FinishFaced, Away, At
<1> QED BY <1>1, <1>2, <1>3, <1>4, <1>5 DEF Next

\* What the calculator holds stays with its transfer.
LEMMA KeptStep == TypeOK /\ CalcKept /\ [Next]_vars => CalcKept'
<1> SUFFICES ASSUME TypeOK, CalcKept, [Next]_vars PROVE CalcKept'
  OBVIOUS
<1>0. CalcTyped /\ Home.proc = "home"
  BY TypeParts, Starting
<1>1. CASE Link
  <2>1. CASE CalcAlone \/ PicoAlone
    BY <1>0, <2>1 DEF CalcAlone, PicoAlone, CalcKept, calcHist
  <2>2. CASE ToCalc
    <3> DEFINE c == Cmd(PicoStep)
    <3>1. CalcTook(c, pico.id) /\ CalcAt("recv")
      BY <2>2 DEF ToCalc
    <3>2. c \in CalcStep.cmds /\ calc.proc = "get" => c \notin {"RTS", "VAR", "REQ"}
      BY <1>0, <3>1, Openers, CalcPlaces DEF CalcTyped, CalcRun
    <3> HIDE DEF c
    <3> QED BY <1>0, <3>1, <3>2 DEF CalcTook, CalcKept
  <2>3. CASE ToPico \/ Torn
    <3>1. \/ CalcWent
          \/ /\ deleted' = deleted
             /\ calc'.proc = calc.proc /\ calc'.id = calc.id /\ calc'.hdr = calc.hdr
      BY <1>0, <2>3, MidwayWhat DEF ToPico, Torn, calcHist
    <3> QED BY <1>0, <3>1 DEF CalcWent, CalcKept
  <2> QED BY <1>1, <2>1, <2>2, <2>3, LinkWhat DEF OnCable
<1>2. CASE ListenLoop \/ PicoCall \/ UNCHANGED vars
  BY <1>2 DEF ListenLoop, PicoCall, vars, calcHist, CalcKept
<1>3. CASE CalcStart
  <2>1. calc'.proc \notin {"get", "del"}
    BY <1>3, TransferAssumption DEF CalcStart, Run
  <2> QED BY <2>1 DEF CalcKept
<1> QED BY <1>1, <1>2, <1>3 DEF Next

\* Half a packet is read where one is received.
LEMMA HalfStep == TypeOK /\ HalfRead /\ [Next]_vars => HalfRead'
<1> SUFFICES ASSUME TypeOK, HalfRead, [Next]_vars PROVE HalfRead'
  OBVIOUS
<1>0. PicoTyped /\ pico \in PicoRun /\ calc.id \in Ids /\ Garbled \in Ids
  BY TypeParts, TransferAssumption DEF PicoTyped, CalcTyped, CalcRun, Garbled, Ids
<1>1. CASE pico' = pico
  BY <1>1 DEF HalfRead, PicoAt, PicoStep
<1>2. CASE PicoLeft \/ \E run : PicoWent(run)
  <2>1. ~pico'.part
    BY <1>2, Starting DEF PicoLeft, PicoWent, Succeed, CallOnVar
  <2> QED BY <2>1 DEF HalfRead
<1>3. CASE \E c, id : id \in Ids /\ PicoTook(c, id)
  <2>1. PICK c, id : id \in Ids /\ PicoTook(c, id)
    BY <1>3
  <2>2. CASE c \in {"RTS", "VAR"} /\ pico' = PicoKeep(Run("finish", id, id), c, id)
    BY <2>1, <2>2, FinishBegins DEF HalfRead
  <2> QED BY <1>2, <2>1, <2>2 DEF PicoTook
<1>4. CASE Link
  <2>1. OnCable
    BY <1>4, LinkWhat
  <2>2. CASE Torn
    <3>1. CASE pico' = Midway(pico) /\ UNCHANGED picoHist
      BY <1>0, <2>2, <3>1, MidwayWhat DEF Torn, HalfRead
    <3>2. CASE \E c \in Cmds : PicoTook(c, Garbled)
      BY <1>0, <1>3, <3>2
    <3> QED BY <1>2, <2>2, <3>1, <3>2 DEF Torn
  <2>3. CASE ToPico
    BY <1>0, <1>3, <2>3 DEF ToPico
  <2> QED BY <1>1, <1>2, <2>1, <2>2, <2>3 DEF OnCable, CalcAlone, PicoAlone, ToCalc
<1>5. CASE ListenLoop \/ PicoCall
  <2>1. ~pico'.part
    BY <1>5 DEF ListenLoop, PicoCall, Listen, Run
  <2> QED BY <2>1 DEF HalfRead
<1>6. CASE CalcStart \/ UNCHANGED vars
  BY <1>1, <1>6 DEF CalcStart, vars
<1> QED BY <1>4, <1>5, <1>6 DEF Next

-----------------------------------------------------------------------------
\* on_var is called at the drain of a variable only, however that ends.
LEMMA OnVarWhat ==
    ASSUME TypeOK, OnCable
    PROVE  onVar' = onVar \/ (pico.proc = "finish" /\ pico.step = 6 /\ CallOnVar(pico))
<1>0. PicoTyped
  BY TypeParts
<1>1. CASE CalcAlone
  BY <1>1 DEF CalcAlone, picoHist
<1>2. CASE PicoLeft
  BY <1>2 DEF PicoLeft
<1>3. CASE ToCalc /\ PicoWent(pico)
  <2>1. ~(pico.proc = "finish" /\ pico.step = 6)
    BY <1>0, <1>3, PicoSends DEF ToCalc, PicoSendsAt
  <2> QED BY <1>3, <2>1 DEF PicoWent, Succeed
<1>4. ASSUME NEW c, NEW id \in Ids, PicoAt("recv"), PicoTook(c, id)
      PROVE  onVar' = onVar \/ (pico.proc = "finish" /\ pico.step = 6 /\ CallOnVar(pico))
  <2> DEFINE run == PicoKeep(pico, c, id)
  <2>1. CASE PicoStep = Drain /\ PicoWent(pico)
    BY <2>1 DEF PicoWent, Succeed
  <2>2. CASE PicoStep # Drain /\ PicoWent(run)
    <3>1. run.proc = pico.proc /\ run.step = pico.step
      BY <1>0, <1>4, PicoKeepWhat DEF PicoTyped
    <3>2. ~(pico.proc = "finish" /\ pico.step = 6)
      BY <1>0, <1>4, <2>2, PicoReceives DEF PicoTakesAt
    <3> HIDE DEF run
    <3> QED BY <2>2, <3>1, <3>2 DEF PicoWent, Succeed
  <2> QED BY <1>2, <1>4, <2>1, <2>2 DEF PicoTook
<1>5. CASE ToPico \/ Torn
  <2>1. calc.id \in Ids /\ Garbled \in Ids
    BY TypeParts, TransferAssumption DEF CalcTyped, CalcRun, Garbled, Ids
  <2> QED BY <1>2, <1>4, <1>5, <2>1 DEF ToPico, Torn, picoHist
<1> QED BY <1>1, <1>2, <1>3, <1>5 DEF OnCable, PicoAlone, ToCalc

\* What such a call adds.
LEMMA OnVarGrows ==
    ASSUME PicoTyped, CallOnVar(pico), onVar' # onVar
    PROVE  /\ DOMAIN onVar' = 1..(Len(onVar) + 1) /\ Len(onVar) \in Nat
           /\ DOMAIN onVar = 1..Len(onVar)
           /\ \A i \in 1..Len(onVar) : onVar'[i] = onVar[i]
           /\ onVar'[Len(onVar) + 1] =
                [hdr |-> pico.hdr, data |-> pico.data, mixed |-> pico.mixed]
           /\ [hdr |-> pico.hdr, data |-> pico.data, mixed |-> pico.mixed] \in Var
BY DEF PicoTyped, CallOnVar, PicoRun, Var

\* What remains of a transfer of the Pico's after a step.
LEMMA CallsStay ==
    ASSUME TypeOK, OnCable, pico'.proc \in Calls
    PROVE  pico.proc \in Calls /\ pico'.id = pico.id /\ onVar' = onVar
<1>0. PicoTyped /\ CalcTyped /\ pico \in PicoRun /\ calc.id \in Ids /\ pico'.proc \in Doing
      /\ pico'.proc # "finish"
  BY TypeParts DEF PicoTyped, CalcTyped, CalcRun, Doing, Calls
<1>1. CASE CalcAlone
  BY <1>1 DEF CalcAlone, picoHist
<1>2. CASE PicoLeft \/ PicoWent(pico)
  BY <1>0, <1>2, PicoContinues DEF Doing
<1>3. ASSUME NEW c, NEW id \in Ids, PicoTook(c, id)
      PROVE  pico.proc \in Calls /\ pico'.id = pico.id /\ onVar' = onVar
  <2> DEFINE run == PicoKeep(pico, c, id)
  <2>1. CASE PicoWent(run)
    <3>1. run.proc = pico.proc /\ run.id = pico.id
      BY <1>0, <1>3, PicoKeepWhat
    <3> HIDE DEF run
    <3> QED BY <1>0, <2>1, <3>1, PicoContinues DEF Doing
  <2>2. CASE c \in {"RTS", "VAR"} /\ pico' = PicoKeep(Run("finish", id, id), c, id)
    BY <1>0, <1>3, <2>2, FinishBegins
  <2> QED BY <1>2, <1>3, <2>1, <2>2 DEF PicoTook
<1>4. CASE pico' = Midway(pico) /\ UNCHANGED picoHist /\ PicoAt("recv")
  BY <1>0, <1>4, MidwayWhat DEF picoHist
<1>5. Garbled \in Ids
  BY TransferAssumption DEF Garbled, Ids
<1> QED BY <1>0, <1>1, <1>2, <1>3, <1>4, <1>5
    DEF OnCable, PicoAlone, ToCalc, ToPico, Torn

\* Where the header of the variable being received is from.
LEMMA FinishStays ==
    ASSUME TypeOK, OnCable, pico'.proc = "finish"
    PROVE  /\ onVar' = onVar
           /\ \/ /\ pico.proc = "finish" /\ pico'.hdr = pico.hdr
                 /\ pico.mixed => pico'.mixed
              \/ pico.proc = "listen" /\ pico'.hdr = calc.id /\ Early /\ ~Early'
              \/ pico'.hdr = Garbled /\ pico'.mixed
<1>0. /\ PicoTyped /\ CalcTyped /\ pico \in PicoRun /\ calc.id \in Ids /\ Garbled \in Ids
      /\ pico'.proc \in Doing
  BY TypeParts, TransferAssumption DEF PicoTyped, CalcTyped, CalcRun, Doing, Calls, Garbled, Ids
<1>1. CASE CalcAlone
  BY <1>1 DEF CalcAlone, picoHist
<1>2. CASE PicoLeft \/ PicoWent(pico)
  BY <1>0, <1>2, PicoContinues
<1>3. ASSUME NEW c, NEW id \in Ids, PicoAt("recv"), PicoTook(c, id)
      PROVE  /\ onVar' = onVar
             /\ \/ /\ pico.proc = "finish" /\ pico'.hdr = pico.hdr
                   /\ pico.mixed => pico'.mixed
                \/ /\ pico.proc = "listen" /\ c \in {"RTS", "VAR"}
                   /\ pico'.hdr = id /\ (id = Garbled => pico'.mixed)
  <2> DEFINE run == PicoKeep(pico, c, id)
  <2>1. CASE PicoStep # Drain /\ c \in PicoStep.cmds /\ PicoWent(run)
    <3>1. /\ run.proc = pico.proc /\ (pico.mixed => run.mixed)
          /\ run.hdr = IF c \in {"RTS", "VAR", "REQ"} THEN id ELSE pico.hdr
      BY <1>0, <1>3, PicoKeepWhat
    <3>2. pico.proc = "finish" => c \notin {"RTS", "VAR", "REQ"}
      <4>1. pico.proc = "finish" => PicoStep.cmds \in {{"ACK"}, {"DATA"}}
        BY <1>0, <1>3, <2>1, PicoReceives DEF PicoTakesAt
      <4> QED BY <2>1, <4>1
    <3> HIDE DEF run
    <3> QED BY <1>0, <2>1, <3>1, <3>2, PicoContinues
  <2>2. CASE /\ pico.proc = "listen" /\ c \in {"RTS", "VAR"}
             /\ pico' = PicoKeep(Run("finish", id, id), c, id)
             /\ UNCHANGED <<results, onVar>>
    BY <1>3, <2>2, FinishBegins
  <2>3. CASE PicoLeft \/ PicoWent(pico)
    BY <1>0, <2>3, PicoContinues
  <2> QED BY <1>3, <2>1, <2>2, <2>3 DEF PicoTook
<1>4. CASE ToPico
  <2> DEFINE c == Cmd(CalcStep)
  <2>1. PicoTook(c, calc.id) /\ PicoAt("recv") /\ CalcAt("send") /\ CalcWent
    BY <1>4 DEF ToPico
  <2>2. c \in {"RTS", "VAR"} => Early /\ ~Early'
    <3>1. c \in {"RTS", "VAR"} =>
            (calc.proc = "put" /\ calc.step = 1) \/ (calc.proc = "give" /\ calc.step = 2)
      BY <1>0, <2>1, Openers DEF CalcTyped, CalcRun
    <3> QED BY <2>1, <3>1, Starting DEF CalcWent, Early
  <2> HIDE DEF c
  <2> QED BY <1>0, <1>3, <2>1, <2>2
<1>5. CASE Torn
  <2>1. CASE pico' = Midway(pico) /\ UNCHANGED picoHist
    BY <1>0, <1>5, <2>1, MidwayWhat DEF Torn, picoHist
  <2>2. CASE \E c \in Cmds : PicoTook(c, Garbled)
    BY <1>0, <1>3, <1>5, <2>2 DEF Torn
  <2> QED BY <1>2, <1>5, <2>1, <2>2 DEF Torn
<1> QED BY <1>1, <1>2, <1>4, <1>5 DEF OnCable, PicoAlone, ToCalc

\* Where the number of the calculator's transfer is from.
LEMMA CalcNumber ==
    ASSUME TypeOK, OnCable
    PROVE  /\ calc'.id \in {0, calc.id} \/ (pico.proc \in Calls /\ calc'.id = pico.id)
           /\ Early' => \/ Early /\ calc'.id = calc.id
                        \/ /\ pico.proc \in Calls /\ calc'.id = pico.id
                           /\ pico'.proc # "finish" /\ onVar' = onVar
<1>0. PicoTyped /\ CalcTyped /\ calc.step \in 1..9 /\ Home.proc = "home" /\ Home.id = 0
  BY TypeParts, Starting DEF CalcTyped, CalcRun
<1>1. CASE CalcAlone \/ PicoAlone
  BY <1>0, <1>1 DEF CalcAlone, PicoAlone, Early
<1>2. CASE ToPico \/ Torn
  <2>1. \/ CalcWent
        \/ calc'.proc = calc.proc /\ calc'.step = calc.step /\ calc'.id = calc.id
    BY <1>0, <1>2, MidwayWhat DEF ToPico, Torn
  <2> QED BY <1>0, <2>1 DEF CalcWent, Early
<1>3. CASE ToCalc
  <2> DEFINE c == Cmd(PicoStep)
  <2>1. CalcTook(c, pico.id) /\ PicoAt("send") /\ (PicoLeft \/ PicoWent(pico))
    BY <1>3 DEF ToCalc
  <2>2. c \in {"RTS", "REQ", "DEL"} => pico.proc \in Calls
    BY <1>0, <2>1, PicoSends DEF PicoSendsAt
  <2> HIDE DEF c
  <2>3. CASE calc.proc = "home" /\ calc' # Home
    <3>1. pico.proc \in Calls /\ calc'.id = pico.id
      BY <1>0, <2>1, <2>2, <2>3 DEF CalcTook
    <3>2. pico'.proc # "finish" /\ onVar' = onVar
      BY <2>1, <3>1 DEF PicoLeft, PicoWent, Succeed, Idle, Run, Doing, Calls
    <3> QED BY <3>1, <3>2
  <2>4. CASE calc.proc # "home" /\ calc' # Home
    <3>1. calc'.proc = calc.proc /\ calc'.step = calc.step + 1 /\ calc'.id = calc.id
      BY <2>1, <2>4 DEF CalcTook
    <3> QED BY <1>0, <3>1 DEF Early
  <2>5. CASE calc' = Home
    BY <1>0, <2>5 DEF Early
  <2> QED BY <2>3, <2>4, <2>5
<1> QED BY <1>1, <1>2, <1>3 DEF OnCable

-----------------------------------------------------------------------------
\* Transfer numbers are numbers.
LEMMA IdsAreNumbers == TypeOK =>
    /\ starts \in Nat /\ calc.id \in Nat /\ pico.id \in Nat /\ pico.hdr \in Nat
    /\ \A i \in DOMAIN onVar : onVar[i].hdr \in Nat
<1> SUFFICES ASSUME TypeOK PROVE
        /\ starts \in Nat /\ calc.id \in Nat /\ pico.id \in Nat /\ pico.hdr \in Nat
        /\ \A i \in DOMAIN onVar : onVar[i].hdr \in Nat
  OBVIOUS
<1>1. Ids \subseteq Nat
  BY TransferAssumption DEF Ids
<1>2. pico \in PicoRun /\ calc \in CalcRun /\ starts \in Ids /\ onVar \in Seq(Var)
  BY TypeParts DEF PicoTyped, CalcTyped
<1>3. \A i \in DOMAIN onVar : onVar[i] \in Var
  BY <1>2
<1> QED BY <1>1, <1>2, <1>3 DEF PicoRun, CalcRun, Var

\* No step uses a number before it is given out.
LEMMA NumberedStep == TypeOK /\ Numbered /\ [Next]_vars => Numbered'
<1> SUFFICES ASSUME TypeOK, Numbered, [Next]_vars PROVE Numbered'
  OBVIOUS
<1>0. /\ starts \in Nat /\ calc.id \in Nat /\ pico.id \in Nat /\ pico.hdr \in Nat
      /\ \A i \in DOMAIN onVar : onVar[i].hdr \in Nat
      /\ PicoTyped
  BY IdsAreNumbers, TypeParts
<1>1. CASE Link
  <2>0. OnCable /\ starts' = starts
    BY <1>1, LinkWhat DEF OnCable
  <2>1. calc'.id <= starts'
    BY <1>0, <2>0, CalcNumber DEF Numbered
  <2>2. pico'.proc \in Calls => pico'.id <= starts'
    BY <2>0, CallsStay DEF Numbered
  <2>3. pico'.proc = "finish" => pico'.hdr <= starts'
    BY <1>0, <2>0, FinishStays DEF Numbered, Garbled
  <2>4. \A i \in DOMAIN onVar' : onVar'[i].hdr <= starts'
    <3>1. CASE onVar' = onVar
      BY <2>0, <3>1 DEF Numbered
    <3>2. CASE pico.proc = "finish" /\ CallOnVar(pico) /\ onVar' # onVar
      <4>1. /\ DOMAIN onVar' = 1..(Len(onVar) + 1) /\ Len(onVar) \in Nat
            /\ DOMAIN onVar = 1..Len(onVar)
            /\ \A i \in 1..Len(onVar) : onVar'[i] = onVar[i]
            /\ onVar'[Len(onVar) + 1].hdr = pico.hdr
        BY <1>0, <3>2, OnVarGrows
      <4>2. ASSUME NEW i \in DOMAIN onVar' PROVE onVar'[i].hdr <= starts'
        <5>1. i \in 1..Len(onVar) \/ i = Len(onVar) + 1
          BY <4>1
        <5> QED BY <2>0, <3>2, <4>1, <5>1 DEF Numbered
      <4> QED BY <4>2
    <3> QED BY <2>0, <3>1, <3>2, OnVarWhat
  <2> QED BY <2>1, <2>2, <2>3, <2>4 DEF Numbered
<1>2. CASE ListenLoop
  BY <1>2 DEF ListenLoop, Numbered, Listen, Run, Calls, picoHist, calcHist
<1>3. CASE PicoCall \/ CalcStart
  <2>1. /\ starts' = starts + 1 /\ onVar' = onVar
        /\ \/ calc' = calc /\ \E p \in Calls : pico' = Run(p, starts + 1, 0)
           \/ pico' = pico /\ \E p \in {"put", "ask", "ready"} : calc' = Run(p, starts + 1, 0)
    BY <1>3, TransferAssumption DEF PicoCall, CalcStart, Calls, picoHist
  <2>2. CASE calc' = calc /\ \E p \in Calls : pico' = Run(p, starts + 1, 0)
    <3>1. pico'.id = starts + 1 /\ pico'.proc # "finish"
      BY <2>2 DEF Run, Calls
    <3> QED BY <1>0, <2>1, <2>2, <3>1 DEF Numbered
  <2>3. CASE pico' = pico /\ \E p \in {"put", "ask", "ready"} : calc' = Run(p, starts + 1, 0)
    <3>1. calc'.id = starts + 1
      BY <2>3 DEF Run
    <3> QED BY <1>0, <2>1, <2>3, <3>1 DEF Numbered
  <2> QED BY <2>1, <2>2, <2>3
<1>4. CASE UNCHANGED vars
  BY <1>4 DEF vars, Numbered
<1> QED BY <1>1, <1>2, <1>3, <1>4 DEF Next

\* No step makes an old variable come after a newer one.
LEMMA FreshStep == TypeOK /\ Numbered /\ Fresh /\ [Next]_vars => Fresh'
<1> SUFFICES ASSUME TypeOK, Numbered, Fresh, [Next]_vars PROVE Fresh'
  OBVIOUS
<1>0. /\ starts \in Nat /\ calc.id \in Nat /\ pico.id \in Nat /\ pico.hdr \in Nat
      /\ \A i \in DOMAIN onVar : onVar[i].hdr \in Nat
      /\ PicoTyped
  BY IdsAreNumbers, TypeParts
<1>1. CASE Link
  <2>0. OnCable
    BY <1>1, LinkWhat DEF OnCable
  <2>1. pico'.proc \in Calls => After(pico.id)'
    BY <2>0, CallsStay DEF Fresh, After
  <2>2. pico'.proc = "finish" /\ ~pico'.mixed => After(pico.hdr)'
    BY <2>0, FinishStays DEF Fresh, After
  <2>3. Early' =>
          After(calc.id)' /\ (pico'.proc = "finish" /\ ~pico'.mixed => pico'.hdr < calc'.id)
    <3> SUFFICES ASSUME Early'
                 PROVE  /\ After(calc.id)'
                        /\ pico'.proc = "finish" /\ ~pico'.mixed => pico'.hdr < calc'.id
      OBVIOUS
    <3>1. CASE Early /\ calc'.id = calc.id
      <4>1. pico'.proc = "finish" /\ ~pico'.mixed => pico'.hdr < calc'.id
        BY <2>0, <3>1, FinishStays DEF Fresh
      <4>2. CASE onVar' = onVar
        BY <3>1, <4>1, <4>2 DEF Fresh, After
      <4>3. CASE pico.proc = "finish" /\ CallOnVar(pico) /\ onVar' # onVar
        <5>1. /\ DOMAIN onVar' = 1..(Len(onVar) + 1) /\ Len(onVar) \in Nat
              /\ DOMAIN onVar = 1..Len(onVar)
              /\ \A i \in 1..Len(onVar) : onVar'[i] = onVar[i]
              /\ onVar'[Len(onVar) + 1].hdr = pico.hdr
              /\ onVar'[Len(onVar) + 1].mixed = pico.mixed
          BY <1>0, <4>3, OnVarGrows
        <5>2. ASSUME NEW i \in DOMAIN onVar', ~onVar'[i].mixed
              PROVE  onVar'[i].hdr < calc'.id
          <6>1. i \in 1..Len(onVar) \/ i = Len(onVar) + 1
            BY <5>1
          <6> QED BY <3>1, <4>3, <5>1, <5>2, <6>1 DEF Fresh, After
        <5> QED BY <4>1, <5>2 DEF After
      <4> QED BY <2>0, <4>2, <4>3, OnVarWhat
    <3>2. CASE /\ pico.proc \in Calls /\ calc'.id = pico.id
               /\ pico'.proc # "finish" /\ onVar' = onVar
      BY <3>2 DEF Fresh, After
    <3> QED BY <2>0, <3>1, <3>2, CalcNumber
  <2> QED BY <2>1, <2>2, <2>3 DEF Fresh
<1>2. CASE ListenLoop
  <2>1. pico'.proc = "listen" /\ calc' = calc /\ onVar' = onVar
    BY <1>2 DEF ListenLoop, Listen, Run, picoHist
  <2> QED BY <2>1 DEF Fresh, After, Early, Calls
<1>3. CASE PicoCall \/ CalcStart
  <2>1. /\ onVar' = onVar
        /\ \/ calc' = calc /\ \E p \in Calls : pico' = Run(p, starts + 1, 0)
           \/ pico' = pico /\ \E p \in {"put", "ask", "ready"} : calc' = Run(p, starts + 1, 0)
    BY <1>3, TransferAssumption DEF PicoCall, CalcStart, Calls, picoHist
  <2>2. After(starts + 1)
    BY <1>0 DEF Numbered, After
  <2>3. CASE calc' = calc /\ \E p \in Calls : pico' = Run(p, starts + 1, 0)
    <3>1. pico'.id = starts + 1 /\ pico'.proc # "finish"
      BY <2>3 DEF Run, Calls
    <3> QED BY <2>1, <2>2, <2>3, <3>1 DEF Fresh, After, Early
  <2>4. CASE pico' = pico /\ \E p \in {"put", "ask", "ready"} : calc' = Run(p, starts + 1, 0)
    <3>1. calc'.id = starts + 1
      BY <2>4 DEF Run
    <3>2. pico.proc = "finish" => pico.hdr < starts + 1
      BY <1>0 DEF Numbered
    <3> QED BY <2>1, <2>2, <2>4, <3>1, <3>2 DEF Fresh, After
  <2> QED BY <2>1, <2>3, <2>4
<1>4. CASE UNCHANGED vars
  BY <1>4 DEF vars, Fresh, After, Early
<1> QED BY <1>1, <1>2, <1>3, <1>4 DEF Next

\* on_var is called in order, each variable whole.
LEMMA OnceStep ==
    TypeOK /\ FinishFaced /\ Fresh /\ OnVarOnceWhole /\ [Next]_vars => OnVarOnceWhole'
<1> SUFFICES ASSUME TypeOK, FinishFaced, Fresh, OnVarOnceWhole, [Next]_vars
             PROVE  OnVarOnceWhole'
  OBVIOUS
<1>1. CASE onVar' = onVar
  BY <1>1 DEF OnVarOnceWhole
<1>2. CASE pico.proc = "finish" /\ pico.step = 6 /\ CallOnVar(pico) /\ onVar' # onVar
  <2>1. /\ DOMAIN onVar' = 1..(Len(onVar) + 1) /\ Len(onVar) \in Nat
        /\ DOMAIN onVar = 1..Len(onVar)
        /\ \A i \in 1..Len(onVar) : onVar'[i] = onVar[i]
        /\ onVar'[Len(onVar) + 1].hdr = pico.hdr
        /\ onVar'[Len(onVar) + 1].data = pico.data
        /\ onVar'[Len(onVar) + 1].mixed = pico.mixed
    BY <1>2, TypeParts, OnVarGrows
  <2>2. ~pico.mixed => pico.data = pico.hdr /\ After(pico.hdr)
    BY <1>2 DEF FinishFaced, Fresh
  <2>3. \A i \in DOMAIN onVar' : i \in 1..Len(onVar) \/ i = Len(onVar) + 1
    BY <2>1
  <2>4. ASSUME NEW i \in DOMAIN onVar', ~onVar'[i].mixed
        PROVE  onVar'[i].hdr = onVar'[i].data
    BY <2>1, <2>2, <2>3, <2>4 DEF OnVarOnceWhole
  <2>5. ASSUME NEW i \in DOMAIN onVar', NEW j \in DOMAIN onVar', i < j,
               ~onVar'[i].mixed, ~onVar'[j].mixed
        PROVE  onVar'[i].hdr < onVar'[j].hdr
    <3>1. i \in 1..Len(onVar) /\ (j \in 1..Len(onVar) \/ j = Len(onVar) + 1)
      BY <2>1, <2>5
    <3> QED BY <2>1, <2>2, <2>5, <3>1 DEF After, OnVarOnceWhole
  <2> QED BY <2>4, <2>5 DEF OnVarOnceWhole
<1>3. onVar' = onVar \/ Link
  BY StartWhat DEF Next, vars, picoHist
<1> QED BY <1>1, <1>2, <1>3, LinkWhat, OnVarWhat DEF OnCable

-----------------------------------------------------------------------------
\* What a call returns when its last packet passed.
LEMMA SucceedHonest ==
    ASSUME NEW run, Succeed(run), ResultsHonest, stored \subseteq stored',
           deleted \subseteq deleted',
           ~run.mixed =>
               /\ run.proc = "send_var" => [hdr |-> run.id, data |-> run.id] \in stored'
               /\ run.proc = "delete_var" => run.id \in deleted'
               /\ run.proc = "req_var" => run.hdr = run.id /\ run.data = run.id
               /\ run.proc = "recv_var" => run.hdr = run.data
    PROVE  ResultsHonest'
<1> DEFINE new == [proc |-> run.proc, id |-> run.id, hdr |-> run.hdr, data |-> run.data,
                   mixed |-> run.mixed]
<1>1. results' = results \cup {new}
  BY DEF Succeed
<1>2. /\ new.proc = run.proc /\ new.id = run.id /\ new.hdr = run.hdr /\ new.data = run.data
      /\ new.mixed = run.mixed
  OBVIOUS
<1> HIDE DEF new
<1>3. ASSUME NEW r \in results', ~r.mixed PROVE
        /\ r.proc = "send_var" => [hdr |-> r.id, data |-> r.id] \in stored'
        /\ r.proc = "delete_var" => r.id \in deleted'
        /\ r.proc = "req_var" => r.hdr = r.id /\ r.data = r.id
        /\ r.proc = "recv_var" => r.hdr = r.data
  <2>1. CASE r \in results
    BY <1>3, <2>1 DEF ResultsHonest
  <2>2. CASE r = new
    BY <1>2, <1>3, <2>2
  <2> QED BY <1>1, <2>1, <2>2
<1> QED BY <1>3 DEF ResultsHonest

\* Where a script ends.
LEMMA LastStep ==
    ASSUME NEW run, run.step = Len(PicoScript(run.proc))
    PROVE  /\ run.proc = "send_var" => run.step \in {6, 7}
           /\ run.proc = "req_var" => run.step = 8
           /\ run.proc = "delete_var" => run.step = 3
           /\ run.proc = "recv_var" => run.step \in {6, 7}
BY Lengths

\* Nothing returned, nothing unlearnt by the calculator.
LEMMA SameHonest ==
    ASSUME ResultsHonest, results' = results, stored \subseteq stored',
           deleted \subseteq deleted'
    PROVE  ResultsHonest'
BY DEF ResultsHonest

\* What a call returns after its drain.
LEMMA DrainHonest ==
    ASSUME PicoTyped, Faced, ResultsHonest, PicoAt("recv"), PicoStep = Drain, PicoWent(pico),
           stored' = stored, deleted' = deleted
    PROVE  ResultsHonest'
<1>1. CASE results' = results
  BY <1>1, SameHonest
<1>2. CASE pico.proc \in Calls /\ Succeed(pico)
  <2>1. pico.proc = "recv_var" /\ pico.step = 7
    BY <1>2, DrainWhere DEF Doing, Calls
  <2>2. ~pico.mixed => pico.hdr = pico.data
    BY <2>1 DEF Faced, RecvFaced
  <2> QED BY <1>2, <2>1, <2>2, SucceedHonest
<1> QED BY <1>1, <1>2 DEF PicoWent, CallOnVar

\* A call that accepted a garbled packet is excused.
LEMMA TornHonest ==
    ASSUME TypeOK, Faced, ResultsHonest, Torn PROVE ResultsHonest'
<1>0. /\ PicoTyped /\ pico \in PicoRun /\ Garbled \in Ids /\ PicoAt("recv")
      /\ stored' = stored /\ deleted' = deleted
  BY TypeParts, TransferAssumption
     DEF Torn, PicoTyped, Garbled, Ids, CalcWent, calcHist
<1>1. CASE results' = results
  BY <1>0, <1>1, SameHonest
<1>2. CASE \E c \in Cmds : PicoWent(PicoKeep(pico, c, Garbled))
  <2>1. PICK c \in Cmds : PicoWent(PicoKeep(pico, c, Garbled))
    BY <1>2
  <2> DEFINE run == PicoKeep(pico, c, Garbled)
  <2>2. run.mixed /\ PicoWent(run)
    BY <1>0, <2>1, PicoKeepWhat
  <2> HIDE DEF run
  <2>3. CASE Succeed(run)
    BY <1>0, <2>2, <2>3, SucceedHonest
  <2> QED BY <1>1, <2>2, <2>3 DEF PicoWent, CallOnVar
<1>3. CASE PicoStep = Drain /\ PicoWent(pico)
  BY <1>0, <1>3, DrainHonest
<1>4. \/ results' = results
      \/ \E c \in Cmds : PicoWent(PicoKeep(pico, c, Garbled))
      \/ PicoStep = Drain /\ PicoWent(pico)
  BY DEF Torn, PicoTook, PicoLeft, CallOnVar, picoHist
<1> QED BY <1>1, <1>2, <1>3, <1>4

\* What a call returns on the calculator's last packet.
LEMMA ToPicoHonest ==
    ASSUME TypeOK, Faced, CalcKept, ResultsHonest, ToPico PROVE ResultsHonest'
<1>0. PicoTyped /\ CalcTyped /\ pico \in PicoRun /\ calc.id \in Ids
  BY TypeParts DEF PicoTyped, CalcTyped, CalcRun
<1> DEFINE c == Cmd(CalcStep)
           run == PicoKeep(pico, c, calc.id)
<1>1. /\ stored' = stored /\ deleted' = deleted /\ PicoAt("recv") /\ CalcAt("send")
      /\ ~pico.part
      /\ PicoTook(c, calc.id) /\ PicoTakesAt(pico.proc, pico.step, PicoStep)
  BY <1>0, PicoReceives DEF ToPico, CalcWent
<1>2. CASE results' = results
  BY <1>1, <1>2, SameHonest
<1>3. CASE PicoStep = Drain /\ PicoWent(pico)
  BY <1>0, <1>1, <1>3, DrainHonest
<1>4. CASE /\ run.step = Len(PicoScript(run.proc)) /\ run.proc \in Calls
           /\ PicoStep # Drain /\ c \in PicoStep.cmds /\ Succeed(run)
  <2>1. /\ run.proc = pico.proc /\ run.step = pico.step /\ run.id = pico.id
        /\ pico.mixed => run.mixed
    BY <1>0, PicoKeepWhat
  <2>9. /\ pico.proc = "send_var" => pico.step \in {6, 7}
        /\ pico.proc = "req_var" => pico.step = 8
        /\ pico.proc = "delete_var" => pico.step = 3
        /\ pico.proc = "recv_var" => pico.step \in {6, 7}
    BY <1>4, <2>1, LastStep
  <2>2. Away => c \in {"RTS", "REQ", "RDY"}
    BY <1>0, <1>1, CalcPlaces DEF CalcTyped, CalcRun
  <2>3. CalcAt("send") /\ calc.proc \in {"refuse_get", "refuse_data"} /\ calc.step = 5
          => c # "ACK"
    BY <1>0, CalcPlaces DEF CalcTyped, CalcRun
  <2> HIDE DEF run, c
  <2>4. pico.proc = "send_var" /\ ~pico.mixed => [hdr |-> pico.id, data |-> pico.id] \in stored'
    <3> SUFFICES ASSUME pico.proc = "send_var", ~pico.mixed
                 PROVE  [hdr |-> pico.id, data |-> pico.id] \in stored'
      OBVIOUS
    <3>1. pico.step = 6 /\ c = "ACK"
      BY <1>1, <1>4, <2>9 DEF PicoTakesAt
    <3>2. At({"get", "refuse_get", "refuse_data"}, 5, pico.id)
      BY <1>1, <2>2, <3>1 DEF Faced, SendFaced
    <3>3. calc.proc = "get"
      BY <1>1, <2>3, <3>1, <3>2 DEF At
    <3> QED BY <1>1, <3>1, <3>3 DEF Faced, SendFaced
  <2>5. pico.proc = "delete_var" /\ ~pico.mixed => pico.id \in deleted'
    <3> SUFFICES ASSUME pico.proc = "delete_var", ~pico.mixed PROVE pico.id \in deleted'
      OBVIOUS
    <3>1. pico.step = 3 /\ c = "ACK"
      BY <1>1, <1>4, <2>9 DEF PicoTakesAt
    <3>2. At({"del"}, 2, pico.id)
      BY <1>1, <2>2, <3>1 DEF Faced, DeleteFaced
    <3> QED BY <1>1, <3>2 DEF At, CalcKept
  <2>6. pico.proc \notin {"req_var", "recv_var"}
    BY <1>1, <1>4, <2>9 DEF PicoTakesAt
  <2> QED BY <1>1, <1>4, <2>1, <2>4, <2>5, <2>6, SucceedHonest
<1> HIDE DEF run, c
<1>5. \/ results' = results
      \/ PicoStep = Drain /\ PicoWent(pico)
      \/ PicoStep # Drain /\ c \in PicoStep.cmds /\ PicoWent(run)
  BY <1>1 DEF PicoTook, PicoLeft, CallOnVar, run
<1> QED BY <1>2, <1>3, <1>4, <1>5 DEF PicoWent, CallOnVar

\* No call reports what is not so.
LEMMA HonestStep ==
    TypeOK /\ Faced /\ HalfRead /\ CalcKept /\ ResultsHonest /\ [Next]_vars => ResultsHonest'
<1> SUFFICES ASSUME TypeOK, Faced, HalfRead, CalcKept, ResultsHonest, [Next]_vars
             PROVE  ResultsHonest'
  OBVIOUS
<1>0. PicoTyped /\ CalcTyped /\ pico \in PicoRun /\ calc.id \in Ids
  BY TypeParts DEF PicoTyped, CalcTyped, CalcRun
<1>1. CASE ToCalc /\ PicoWent(pico)
  <2>1. stored \subseteq stored' /\ deleted \subseteq deleted' /\ PicoAt("send")
    BY <1>1 DEF ToCalc, CalcTook
  <2>2. CASE /\ pico.step = Len(PicoScript(pico.proc)) /\ pico.proc \in Calls
             /\ Succeed(pico)
    <3>1. PicoSendsAt(pico.proc, pico.step, Cmd(PicoStep))
      BY <1>0, <2>1, PicoSends
    <3>9. /\ pico.proc = "send_var" => pico.step \in {6, 7}
          /\ pico.proc = "req_var" => pico.step = 8
          /\ pico.proc = "delete_var" => pico.step = 3
          /\ pico.proc = "recv_var" => pico.step \in {6, 7}
      BY <2>2, LastStep
    <3>2. pico.proc = "send_var" => pico.step = 7
      BY <3>9, <3>1 DEF PicoSendsAt
    <3>3. pico.proc = "req_var" => pico.step = 8
      BY <3>9
    <3>4. pico.proc # "delete_var"
      BY <3>9, <3>1 DEF PicoSendsAt
    <3>5. pico.proc = "recv_var" => pico.step = 6
      BY <3>9, <3>1 DEF PicoSendsAt
    <3>6. ~pico.mixed /\ pico.proc = "send_var" => [hdr |-> pico.id, data |-> pico.id] \in stored'
      BY <2>1, <3>2 DEF Faced, SendFaced
    <3>7. ~pico.mixed /\ pico.proc = "req_var" => pico.hdr = pico.id /\ pico.data = pico.id
      BY <3>3 DEF Faced, ReqFaced
    <3>8. ~pico.mixed /\ pico.proc = "recv_var" => pico.hdr = pico.data
      BY <3>5 DEF Faced, RecvFaced
    <3> QED BY <2>1, <2>2, <3>4, <3>6, <3>7, <3>8, SucceedHonest
  <2>3. CASE results' = results
    BY <2>1, <2>3, SameHonest
  <2> QED BY <1>1, <2>2, <2>3 DEF PicoWent, CallOnVar
<1>2. CASE ToPico
  BY <1>2, ToPicoHonest
<1>7. CASE Torn
  BY <1>7, TornHonest
<1>3. CASE CalcAlone \/ PicoAlone \/ (ToCalc /\ PicoLeft)
  <2>1. results' = results /\ stored \subseteq stored' /\ deleted \subseteq deleted'
    BY <1>3 DEF CalcAlone, PicoAlone, PicoLeft, CallOnVar, ToCalc, CalcTook, picoHist, calcHist
  <2> QED BY <2>1, SameHonest
<1>4. CASE ListenLoop \/ PicoCall \/ CalcStart \/ UNCHANGED vars
  <2>1. results' = results /\ stored' = stored /\ deleted' = deleted
    BY <1>4 DEF ListenLoop, PicoCall, CalcStart, vars, picoHist, calcHist
  <2> QED BY <2>1, SameHonest
<1>5. Link => CalcAlone \/ PicoAlone \/ ToCalc \/ ToPico \/ Torn
  BY LinkWhat DEF OnCable
<1>6. ToCalc => PicoLeft \/ PicoWent(pico)
  BY DEF ToCalc
<1> QED BY <1>1, <1>2, <1>3, <1>4, <1>5, <1>6, <1>7 DEF Next

-----------------------------------------------------------------------------
\* The inductive invariant.
TransferInv ==
    /\ TypeOK /\ Faced /\ HalfRead /\ CalcKept /\ Numbered /\ Fresh
    /\ ResultsHonest /\ OnVarOnceWhole

\* It holds at the start,
LEMMA InitTransferInv == Init => TransferInv
<1> SUFFICES ASSUME Init PROVE TransferInv
  OBVIOUS
<1>1. /\ pico = Idle /\ calc = Home /\ starts = 0 /\ faults = 0
      /\ stored = {} /\ deleted = {} /\ calcDone = {} /\ results = {} /\ onVar = <<>>
  BY DEF Init
<1>2. 0 \in Ids /\ 0 \in 0..MaxFaults
  BY TransferAssumption DEF Ids
<1>3. TypeOK
  <2>1. PicoTyped
    BY <1>1, Starting DEF PicoTyped
  <2>2. CalcTyped
    BY <1>1, Starting DEF CalcTyped, CalcProc
  <2> QED BY <1>1, <1>2, <2>1, <2>2, TypeParts
<1>4. Faced /\ HalfRead /\ CalcKept
  BY <1>1, Starting
     DEF Faced, SendFaced, ReqFaced, DeleteFaced, RecvFaced, FinishFaced, HalfRead, CalcKept
<1>5. DOMAIN onVar = {}
  BY <1>1
<1>6. Numbered /\ Fresh
  BY <1>1, <1>5, Starting DEF Numbered, Fresh, Early, Calls
<1>7. ResultsHonest /\ OnVarOnceWhole
  BY <1>1, <1>5 DEF ResultsHonest, OnVarOnceWhole
<1> QED BY <1>3, <1>4, <1>6, <1>7 DEF TransferInv

\* every step keeps it,
LEMMA TransferInvStep == TransferInv /\ [Next]_vars => TransferInv'
<1> SUFFICES ASSUME TransferInv, [Next]_vars PROVE TransferInv'
  OBVIOUS
<1>1. TypeOK'
  <2>1. CASE Next
    BY <2>1, LinkWhat, StartWhat DEF Next, TransferInv
  <2>2. CASE UNCHANGED vars
    BY <2>2 DEF vars, TypeOK, TransferInv
  <2> QED BY <2>1, <2>2
<1>2. Faced' /\ HalfRead' /\ CalcKept' /\ Numbered' /\ Fresh'
  BY FacedStep, HalfStep, KeptStep, NumberedStep, FreshStep DEF TransferInv
<1>3. ResultsHonest' /\ OnVarOnceWhole'
  BY HonestStep, OnceStep DEF TransferInv, Faced
<1> QED BY <1>1, <1>2, <1>3 DEF TransferInv

\* and so it always holds.
LEMMA AlwaysTransferInv == Spec => []TransferInv
BY InitTransferInv, TransferInvStep, PTL DEF Spec

\* Every reachable state of the two ends of the cable is a state of their scripts.
THEOREM TransferTypeCorrect == Spec => []TypeOK
<1>1. TransferInv => TypeOK
  BY DEF TransferInv
<1> QED BY <1>1, AlwaysTransferInv, PTL

\* What send_var, req_var, delete_var and recv_var return on success is true of the
\* calculator, for any number of transfers, of spoilt packets and of late answers, unless
\* the call itself accepted a packet that was not whole.
THEOREM ResultsAlwaysHonest == Spec => []ResultsHonest
<1>1. TransferInv => ResultsHonest
  BY DEF TransferInv
<1> QED BY <1>1, AlwaysTransferInv, PTL

\* listen_loop calls on_var with header and body of one transfer, at most once for each
\* and in the order of the calculator's sends, the variables with a packet that was not
\* whole left out.
THEOREM OnVarAlwaysOnceWhole == Spec => []OnVarOnceWhole
<1>1. TransferInv => OnVarOnceWhole
  BY DEF TransferInv
<1> QED BY <1>1, AlwaysTransferInv, PTL

=============================================================================

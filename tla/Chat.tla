-------------------------------- MODULE Chat --------------------------------
(***************************************************************************)
(* The whole chat as its user sees it: the supervisor of Bridge composed   *)
(* with the calculator's programs DECK.basic (ask, wait, page through the  *)
(* reply) and VIEW.basic (page through what is there).                     *)
(*                                                                         *)
(* The deck asks, zeroes N, runs prgmCHAT, stops in `Pause N` and, on      *)
(* ENTER, shows page 1 of N; the arrow keys turn pages and each turn draws *)
(* the string anew.  Nothing in a reply says which ask it answers: what    *)
(* the user reads depends on every queue between the deck and the relay.   *)
(***************************************************************************)
EXTENDS Bridge

CONSTANTS
    Patient,        \* whether the user waits in `Pause N` until N > 0
    AskAfterLoss    \* bound: whether the deck is run again once an ask lost a half

ASSUME ChatAssumption == Patient \in BOOLEAN /\ AskAfterLoss \in BOOLEAN

VARIABLES
    deck,       \* "home"; "ask": prgmCHAT, then Pause N; "show": the pager's
                \* getKey loop; "view": that loop in prgmVIEW
    page,       \* the real P; 1 while no pager runs: 1->P is its first line
    screen,     \* the page on the display: its reply, and whether N then
                \* announced one whole reply
    clean,      \* history: only DECK asked, and each wait was sat out
    hurt        \* history: a push did not reach the calculator

deckVars == <<deck, page, screen, clean>>
chatVars == <<vars, deckVars, hurt>>

Blank == [reply |-> 0, whole |-> TRUE]

ChatInit ==
    /\ Init
    /\ deck = "home" /\ page = 1 /\ screen = Blank
    /\ clean = TRUE /\ hurt = FALSE

-----------------------------------------------------------------------------
(* The programs.                                                           *)

OneReply(n) == \A p, q \in 1..n : str[p] = str[q]

\* A failure that may keep an answer from the user.
Failed == drops > 0 \/ wlanDrops > 0 \/ lossy \/ hurt

\* Back at the home screen.
Home == deck' = "home" /\ page' = 1 /\ screen' = Blank

\* The string of page p; any other P falls through the Gotos to the first.
Slot(p) == IF p \in 1..MaxPages THEN p ELSE 1

\* Lbl A to Lbl Z: draw page p; sub( of a string that was never stored is an
\* error that ends the program.
Draw(p, loop) ==
    IF str[Slot(p)] = 0
    THEN Home
    ELSE /\ deck' = loop /\ page' = p
         /\ screen' = [reply |-> str[Slot(p)], whole |-> cnt > 0 /\ OneReply(cnt)]

\* Run the deck up to prgmCHAT; any other shape is prgmCHAT, or another
\* variable, sent by hand from the home screen.
Ask ==
    /\ deck = "home" /\ (lossy => AskAfterLoss) /\ AskStart
    /\ LET byDeck == outbox' = <<"prompt", "math">>
       IN /\ deck' = IF byDeck THEN "ask" ELSE "home"
          /\ clean' = (clean /\ byDeck)
    /\ UNCHANGED <<page, screen, hurt>>

\* A string is lost; the error may end the deck as well.
AskFails ==
    /\ LoseHalf
    /\ deck' \in {deck, "home"}
    /\ clean' = (clean /\ deck' = deck)
    /\ UNCHANGED <<page, screen, hurt>>

\* ENTER ends `Pause N`, whatever N is.
Enter ==
    /\ deck = "ask" /\ outbox = <<>>
    /\ Patient => cnt > 0
    /\ Draw(1, "show")
    /\ UNCHANGED <<vars, clean, hurt>>

\* prgmVIEW: the pager alone.
View ==
    /\ deck = "home" /\ outbox = <<>>
    /\ Draw(1, "view")
    /\ UNCHANGED <<vars, clean, hurt>>

\* Mutant of Turn: no bounds on P.
TurnFreely(k) == IF k = 24 THEN page - 1 ELSE page + 1

\* The new P after a key: 24 is the left arrow, 26 the right one.
Turn(k) ==
    IF k = 24 /\ page > 1 THEN page - 1
    ELSE IF k = 26 /\ page < cnt THEN page + 1 ELSE page

\* An arrow key leaves the getKey loop: turn the page and draw it anew.
ArrowKey ==
    /\ deck \in {"show", "view"}
    /\ \E k \in {24, 26} : Draw(Turn(k), deck)
    /\ UNCHANGED <<vars, clean, hurt>>

\* CLEAR: Return.
ClearKey ==
    /\ deck \in {"show", "view"} /\ Home
    /\ UNCHANGED <<vars, clean, hurt>>

\* ON breaks a running BASIC program; out of Pause it abandons the ask.
OnKey ==
    /\ deck # "home" /\ outbox = <<>>
    /\ Home
    /\ clean' = (clean /\ deck # "ask")
    /\ UNCHANGED <<vars, hurt>>

-----------------------------------------------------------------------------
\* What the calculator misses of a push: a page that aborts the reply, or N.
PushLost ==
    \/ pc = "push" /\ pc' = "poll"
    \/ pc = "count" /\ cnt' # push.n

\* Every other step of Bridge leaves the programs alone.  KeyboardInterrupt is
\* left to the runs of Bridge: nothing comes after it.
Beneath ==
    /\ \/ Supervisor \/ OnVar \/ ListenOther
       \/ Reply \/ PeerDrop \/ WlanDrop
    /\ hurt' = (hurt \/ PushLost)
    /\ UNCHANGED deckVars

User == Ask \/ AskFails \/ Enter \/ View \/ ArrowKey \/ ClearKey \/ OnKey

ChatNext == Beneath \/ User

ChatSpec == ChatInit /\ [][ChatNext]_chatVars

\* Besides the supervisor: the calculator goes on sending what prgmCHAT has to
\* send until listen_loop takes it (or AskFails), and the relay answers each
\* frame (CallsAnswered in Relay).
ChatFairSpec ==
    /\ ChatSpec
    /\ WF_chatVars(Supervisor /\ Beneath)
    /\ SF_chatVars(OnVar /\ Beneath)
    /\ WF_chatVars(Reply /\ Beneath)

-----------------------------------------------------------------------------
(* Safety.                                                                 *)

\* The deck's variables keep their types: the arrow keys never leave the pages
\* there are strings for, though N may change under the pager.
ChatTypeOK ==
    /\ deck \in {"home", "ask", "show", "view"}
    /\ page \in 1..MaxPages
    /\ screen \in [reply : Nat, whole : BOOLEAN]
    /\ clean \in BOOLEAN /\ hurt \in BOOLEAN

\* A user who waits for N > 0 and never abandons an ask reads the answer to the
\* ask in hand, on every page and after every turn, as long as no half was lost:
\* replies carry no number, so this rests on N being zeroed before prgmCHAT, on
\* one frame per ask and on one reply per frame, across reconnects.
ShownAnswersAsk ==
    Patient /\ clean /\ ~lossy /\ deck = "show" =>
        /\ sent[screen.reply].prompt = asked
        /\ screen.whole

\* Claim (bridge.py): "Deck busy-waits on N>0 to know the paginated reply is
\* ready. Pushed AFTER all pages so partial state is never observable" - what
\* the deck shows is a page of one whole reply that N announced.
PartialNeverShown == deck = "show" => screen.whole

\* Unless something failed or the user gives up, every ask makes N announce a
\* reply: no frame, reply or push is forgotten between the five parties.
AskAnswered == (deck = "ask") ~> (cnt > 0 \/ deck = "home" \/ Failed)

=============================================================================

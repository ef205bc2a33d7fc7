-------------------------------- MODULE Text --------------------------------
(***************************************************************************)
(* What becomes of the text on its way, in both directions: the bytes of a *)
(* calculator string until they are part of a frame (Tokens), and a reply  *)
(* until the deck draws it: laid out (PageLayout), packed into a frame by  *)
(* _llm_reply_pages, parsed by the bridge, encoded as strings of the       *)
(* calculator, and cut into rows with sub(.                                *)
(***************************************************************************)
EXTENDS PageLayout, Tokens

CONSTANTS
    InMax,      \* INMAX_CHARS (128 in the code, where a page has 112)
    MaxTyped    \* bound: bytes of a string

ASSUME TextAssumption ==
    /\ InMax \in Nat /\ \A g \in Grids : g[1] * g[2] <= InMax
    /\ MaxTyped \in Nat

Nul == -4

VARIABLES
    side,       \* "ask" or "reply", the same throughout
    typed,      \* the bytes of a string of the calculator
    mode,       \* "text" for Str1, "math" for Str2
    ascii,      \* what tokens_to_ascii made of them, <<>> before
    frame,      \* the frame of _llm_reply_pages: its N and its body, N = 0 before
    strs        \* the page strings on the calculator, <<>> before

askVars == <<typed, mode, ascii>>
pageVars == <<frame, strs>>
vars == <<side, grid, replyVars, askVars, pageVars>>

NoFrame == [n |-> 0, body |-> <<>>]

Init ==
    /\ side \in {"ask", "reply"}
    /\ grid \in Grids /\ Blank
    /\ typed = <<>> /\ mode \in {"text", "math"} /\ ascii = <<>>
    /\ frame = NoFrame /\ strs = <<>>
    \* What the other side does not look at is fixed: a bound.
    /\ IF side = "ask" THEN grid = CHOOSE g \in Grids : TRUE ELSE mode = "text"

-----------------------------------------------------------------------------
(* A string of the calculator becomes a line of a frame.                   *)

Type == \E b \in Bytes :
    /\ side = "ask" /\ ascii = <<>> /\ Len(typed) < MaxTyped
    /\ typed' = Append(typed, b)
    /\ UNCHANGED <<side, grid, replyVars, mode, ascii, pageVars>>

\* on_var
Decode ==
    /\ side = "ask" /\ ascii = <<>> /\ typed # <<>>
    /\ ascii' = TokensToAscii(mode, typed)
    /\ UNCHANGED <<side, grid, replyVars, typed, mode, pageVars>>

-----------------------------------------------------------------------------
(* A reply becomes pages on the calculator.                                *)

Answer ==
    /\ side = "reply" /\ frame = NoFrame
    /\ NewEntry \/ NewLine \/ Write
    /\ UNCHANGED <<side, grid, askVars, pageVars>>

Join(pages) ==
    FoldLeft(LAMBDA body, page : body \o <<Nul>> \o page, Head(pages), Tail(pages))

\* _llm_reply_pages
LayOut ==
    /\ side = "reply" /\ frame = NoFrame
    /\ LET pages == LayoutPages(reply) IN frame' = [n |-> Len(pages), body |-> Join(pages)]
    /\ UNCHANGED <<side, grid, replyVars, askVars, strs>>

\* Outside 0x20..0x7E is "?", which has no token.
BytesToAscii(s) == [i \in DOMAIN s |-> IF s[i] < 0 THEN Odd ELSE s[i]]

\* Whatever N says, the NULs tell the pages.
ParsePagesFrame(f) ==
    LET chunks == IF f.body = <<>> THEN <<>> ELSE Split(f.body, Nul)
    IN  OrBlank([p \in DOMAIN chunks |-> BytesToAscii(chunks[p])])

\* Mutant of AsciiToTokensLossy: drop_unknown=True.
AsciiToTokensDrop(s) == SelectSeq(s, LAMBDA c : c # Odd)

\* What has no token becomes a space.
AsciiToTokensLossy(s) == [i \in DOMAIN s |-> IF s[i] = Odd THEN Space ELSE s[i]]

AsciiToStrPayload(text) == AsciiToTokensLossy(First(text, InMax))

\* _push_paginated_reply, when every page gets through
Push ==
    /\ frame # NoFrame /\ strs = <<>>
    /\ LET texts == First(ParsePagesFrame(frame), MaxPages)
       IN  strs' = [p \in DOMAIN texts |-> AsciiToStrPayload(texts[p])]
    /\ UNCHANGED <<side, grid, replyVars, askVars, frame>>

\* The next string, or the next reply.
Again ==
    /\ ascii # <<>> \/ strs # <<>>
    /\ reply' = <<>> /\ glyphs' = 0 /\ size' = 0
    /\ typed' = <<>> /\ ascii' = <<>> /\ frame' = NoFrame /\ strs' = <<>>
    /\ UNCHANGED <<side, grid, mode>>

Next == Type \/ Decode \/ Answer \/ LayOut \/ Push \/ Again

Spec == Init /\ [][Next]_vars

-----------------------------------------------------------------------------
(* Where a character is, in the reply and on the screens the deck draws.   *)

\* Output(r,1,sub(StrP,1+(r-1)*Cols,Cols: an error unless the string is long enough.
Drawable(s) == \A r \in 1..Rows : 1 + (r - 1) * Cols + Cols - 1 <= Len(s)
DrawnRow(p, r) == SubSeq(strs[p], 1 + (r - 1) * Cols, r * Cols)

GlyphAt(place) == reply[place[1]].lines[place[2]][place[3]]
Places == {x \in (1..MaxSize) \X (1..MaxSize) \X (1..MaxSize) :
    /\ x[1] <= Len(reply) /\ x[2] <= Len(reply[x[1]].lines)
    /\ x[3] <= Len(reply[x[1]].lines[x[2]]) /\ GlyphAt(x) > 0}

Cell(i) == DrawnRow((i - 1) \div PageChars + 1, ((i - 1) % PageChars) \div Cols + 1)
               [((i - 1) % Cols) + 1]
CellsOf(g) == {i \in 1..(Len(strs) * PageChars) : Cell(i) = g}
Shown(g) == CellsOf(g) # {}
CellOf(g) == CHOOSE i \in CellsOf(g) : TRUE
RowOf(g) == (CellOf(g) - 1) \div Cols
ColOf(g) == ((CellOf(g) - 1) % Cols) + 1
PageOf(g) == (CellOf(g) - 1) \div PageChars

\* The words of a line, as their first and last character.
WordsOf(line) ==
    {w \in (DOMAIN line) \X (DOMAIN line) :
        /\ w[1] <= w[2] /\ \A k \in w[1]..w[2] : Visible(line[k])
        /\ w[1] > 1 => ~Visible(line[w[1] - 1])
        /\ w[2] < Len(line) => ~Visible(line[w[2] + 1])}

-----------------------------------------------------------------------------
(* Safety.                                                                 *)

\* A reply gives one to MaxPages strings, each long enough for every sub( of the
\* deck: any other length is an ERR:INVALID DIM on the calculator, as when a
\* character without a token is dropped.
TypeOK ==
    /\ side \in {"ask", "reply"} /\ mode \in {"text", "math"} /\ grid \in Grids
    /\ typed \in Seq(Bytes) /\ ascii \in Seq(Bytes \cup {"*", "?"})
    /\ reply \in Seq([kind : {"lines", "text"}, lines : Seq(Seq(Odd..MaxSize))])
    /\ glyphs \in 0..MaxSize /\ size \in 0..MaxSize
    /\ frame.n \in 0..MaxPages /\ frame.body \in Seq(Nul..glyphs)
    /\ strs \in Seq(Seq(0..glyphs)) /\ Len(strs) <= MaxPages
    /\ \A p \in DOMAIN strs : Drawable(strs[p])

\* Every character of the reply that the calculator has is on the screens once, in
\* the order written.  Only what is beyond the clamp of its line, or beyond MaxPages
\* pages, is missing.
TextKept ==
    strs # <<>> =>
        /\ \A i, j \in 1..(Len(strs) * PageChars) :
            i < j /\ Cell(i) > 0 /\ Cell(j) > 0 => Cell(i) < Cell(j)
        /\ \A x \in Places :
            \/ Shown(GlyphAt(x))
            \/ reply[x[1]].kind = "lines" /\ x[3] > PageChars
            \/ reply[x[1]].kind = "text" /\ x[3] > PageChars * MaxPages
            \/ Len(strs) = MaxPages /\ \A g \in GlyphAt(x)..glyphs : ~Shown(g)

\* A word that fits a row is never cut.
WordsWhole(line) ==
    \A w \in WordsOf(line) : w[2] - w[1] < Cols =>
        \A j, k \in w[1]..w[2] :
            Shown(line[j]) /\ Shown(line[k]) /\ line[j] > 0 /\ line[k] > 0
            => RowOf(line[j]) = RowOf(line[k])

\* The wrap is greedy: a line is broken between two words only where the second
\* would not have fitted in the row of the first, or at a line break of its own, which
\* a row may keep or not (the comments have it kept, the code makes it a space).
RowsFilled(line) ==
    \A v, w \in WordsOf(line) :
        /\ v[2] < w[1]
        /\ \A k \in (v[2] + 1)..(w[1] - 1) : ~Visible(line[k]) /\ line[k] # Newline
        /\ line[v[2]] > 0 /\ line[w[1]] > 0
        /\ Shown(line[v[2]]) /\ Shown(line[w[1]])
        /\ RowOf(line[v[2]]) # RowOf(line[w[1]])
        => ColOf(line[v[2]]) + (w[2] - v[2]) > Cols

\* The rows the deck draws are the lines the model wrote, wrapped between words, with
\* its pages on pages of their own, and its lines on rows of their own, blank ones
\* too.
LinesAsWritten ==
    strs # <<>> =>
        /\ \A e \in DOMAIN reply : \A l \in DOMAIN reply[e].lines :
            WordsWhole(reply[e].lines[l]) /\ RowsFilled(reply[e].lines[l])
        /\ \A x, y \in Places :
            Shown(GlyphAt(x)) /\ Shown(GlyphAt(y)) =>
                /\ x[1] < y[1] => PageOf(GlyphAt(x)) < PageOf(GlyphAt(y))
                /\ x[1] = y[1] /\ x[2] < y[2] =>
                    RowOf(GlyphAt(y)) - RowOf(GlyphAt(x)) >= y[2] - x[2]

\* tokens_to_ascii shows each token of the string once, in order, wherever two-byte
\* tokens begin and end, and "*" where values are juxtaposed and nowhere else.  At the
\* disputed places either reading will do.
TokensRead ==
    ascii # <<>> =>
        \E bare \in SUBSET Disputed(typed) :
            ascii = FlattenSeq([i \in DOMAIN typed |-> Shows(mode, typed, i, bare)])

=============================================================================

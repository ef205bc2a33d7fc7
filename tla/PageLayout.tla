----------------------------- MODULE PageLayout -----------------------------
(***************************************************************************)
(* The relay's page layout (tools/relay_server.py): _ascii_clamp,          *)
(* _rewrap_line and _layout_pages turn whatever the model replied into     *)
(* pages of exactly Rows * Cols characters, which the deck's pager cuts    *)
(* into rows.                                                              *)
(*                                                                         *)
(* A character is a number: the k-th that the calculator can show is k, so *)
(* that each can be told from every other; spaces, newlines, characters    *)
(* outside ASCII, and visible ones that have no token are Space, Newline,  *)
(* Foreign and Odd.  A reply is a sequence of entries, each a list of      *)
(* lines ({"lines": [...]}) or one string ("text").                        *)
(***************************************************************************)
EXTENDS Integers, Sequences, SequencesExt

CONSTANTS
    Grids,          \* pairs of PAGE_COLS and PAGE_ROWS (16 and 7 in the code)
    MaxPages,       \* MAX_PAGES (8 in the code)
    MaxSize         \* bound: entries, lines and characters of a reply

ASSUME LayoutAssumption ==
    /\ Grids \subseteq (Nat \ {0}) \X (Nat \ {0})
    /\ MaxPages \in Nat \ {0} /\ MaxSize \in Nat

Space == 0
Newline == -1
Foreign == -2
Odd == -3

Visible(c) == c > 0 \/ c = Odd

Least(a, b) == IF a <= b THEN a ELSE b
First(s, n) == SubSeq(s, 1, Least(n, Len(s)))

VARIABLES
    grid,       \* the size of a page, the same throughout
    reply,      \* what _call_ollama returns: entries [kind, lines]
    glyphs,     \* characters in it that the calculator can show
    size        \* entries, lines and characters in it

replyVars == <<reply, glyphs, size>>

Cols == grid[1]
Rows == grid[2]
PageChars == Cols * Rows

Blank == reply = <<>> /\ glyphs = 0 /\ size = 0

-----------------------------------------------------------------------------
(* _ascii_clamp and _rewrap_line.                                          *)

\* Mutant of AsciiClamp: cut one short.
AsciiClampShort(s, n) == [i \in 1..Least(n - 1, Len(s)) |-> IF Visible(s[i]) THEN s[i] ELSE Space]

\* Only 0x20..0x7E survive; the rest, newlines too, become spaces.
AsciiClamp(s, n) == [i \in 1..Least(n, Len(s)) |-> IF Visible(s[i]) THEN s[i] ELSE Space]

\* str.split and str.rstrip.
Split(s, sep) ==
    FoldLeft(LAMBDA parts, c : IF c = sep THEN Append(parts, <<>>)
                               ELSE [parts EXCEPT ![Len(parts)] = Append(@, c)],
             << <<>> >>, s)
RStrip(s) == First(s, SelectLastInSeq(s, LAMBDA c : c # Space))

\* A word longer than a row: flush the row, then cut the word; its tail opens
\* the next row.
HardSplit(acc, w) ==
    LET full == Len(w) \div Cols
        slices == [k \in 1..full |-> SubSeq(w, (k - 1) * Cols + 1, k * Cols)]
    IN  [out |-> (IF acc.cur = <<>> THEN acc.out ELSE Append(acc.out, acc.cur)) \o slices,
         cur |-> SubSeq(w, full * Cols + 1, Len(w))]

\* Mutant of Place: what does not fit is cut at the edge.
PlaceFills(acc, w) ==
    LET joined == IF acc.cur = <<>> THEN w ELSE acc.cur \o <<Space>> \o w IN
    IF Len(joined) <= Cols THEN [acc EXCEPT !.cur = joined]
    ELSE HardSplit([acc EXCEPT !.cur = <<>>], joined)

\* One word of the greedy wrap.
Place(acc, w) ==
    IF Len(w) > Cols THEN HardSplit(acc, w)
    ELSE IF acc.cur = <<>> THEN [acc EXCEPT !.cur = w]
    ELSE IF Len(acc.cur) + 1 + Len(w) <= Cols THEN [acc EXCEPT !.cur = @ \o <<Space>> \o w]
    ELSE [out |-> Append(acc.out, acc.cur), cur |-> w]

\* "or [""]": there is always a row.
OrBlank(rows) == IF rows = <<>> THEN << <<>> >> ELSE rows

RewrapLine(line) ==
    LET end == FoldLeft(Place, [out |-> <<>>, cur |-> <<>>], Split(RStrip(line), Space)) IN
    OrBlank(IF end.cur = <<>> THEN end.out ELSE Append(end.out, end.cur))

-----------------------------------------------------------------------------
(* _layout_pages.                                                          *)

EntryLines(entry) ==
    IF entry.kind = "lines"
    THEN [i \in DOMAIN entry.lines |-> AsciiClamp(entry.lines[i], PageChars)]
    ELSE Split(AsciiClamp(entry.lines[1], PageChars * MaxPages), Newline)

\* PAGE_BREAK, and the last page.
NewPage(acc) ==
    IF acc.rows = <<>> THEN acc
    ELSE [pages |-> Append(acc.pages, acc.rows), rows |-> <<>>]

\* A row goes to the page begun, or spills into a new one.
AddRow(acc, row) ==
    IF Len(acc.rows) >= Rows THEN [pages |-> Append(acc.pages, acc.rows), rows |-> <<row>>]
    ELSE [acc EXCEPT !.rows = Append(@, row)]

AddEntry(acc, entry) ==
    LET lines == EntryLines(entry) IN
    FoldLeft(AddRow, NewPage(acc), FlattenSeq([i \in DOMAIN lines |-> RewrapLine(lines[i])]))

\* Padded on the right and below.
Grid(rows) ==
    [i \in 1..PageChars |->
        LET r == (i - 1) \div Cols + 1
            c == ((i - 1) % Cols) + 1
        IN  IF r <= Len(rows) /\ c <= Len(rows[r]) THEN rows[r][c] ELSE Space]

\* pages[:max_pages]
Keep(all) == First(all, MaxPages)

LayoutPages(entries) ==
    LET end == NewPage(FoldLeft(AddEntry, [pages |-> <<>>, rows |-> <<>>], entries))
        kept == Keep(IF end.pages = <<>> THEN << << <<>> >> >> ELSE end.pages)
    IN  [p \in DOMAIN kept |-> Grid(kept[p])]

-----------------------------------------------------------------------------
(* The model writes its reply.                                             *)

AddTo(entries) == size < MaxSize /\ size' = size + 1 /\ reply' = entries

NewEntry == \E kind \in {"lines", "text"} :
    /\ AddTo(Append(reply, [kind |-> kind, lines |-> IF kind = "text" THEN << <<>> >> ELSE <<>>]))
    /\ UNCHANGED glyphs

NewLine ==
    /\ reply # <<>> /\ Last(reply).kind = "lines"
    /\ AddTo([reply EXCEPT ![Len(reply)].lines = Append(@, <<>>)])
    /\ UNCHANGED glyphs

\* Newlines come in strings and foreign characters in lines: a bound, for the clamp
\* treats both alike.
Write ==
    /\ reply # <<>> /\ Last(reply).lines # <<>>
    /\ \E c \in {Space, Odd, glyphs + 1, IF Last(reply).kind = "text" THEN Newline ELSE Foreign} :
        /\ AddTo([reply EXCEPT ![Len(reply)].lines[Len(Last(reply).lines)] = Append(@, c)])
        /\ glyphs' = IF c > 0 THEN c ELSE glyphs

=============================================================================

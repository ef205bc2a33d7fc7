--------------------------- MODULE WsBridgeProofs ---------------------------
(***************************************************************************)
(* Proofs about the WebSocket proxy: both of its directions implement the  *)
(* safe part of FrameChannel, for any number of messages and events, and   *)
(* whatever becomes of the posts; the page keeps its order under them; and *)
(* pumps, posts, queue and rows keep their types and limits.               *)
(***************************************************************************)
EXTENDS WsBridge, SequenceTheorems, TLAPS

-----------------------------------------------------------------------------
(* The console, for queues, pages and limits of any size: what RowsInOrder *)
(* says, in parts.                                                         *)

Below(s, u) == \A i \in 1..Len(s), j \in 1..Len(u) : s[i] < u[j]
Rising(s) == \A i, j \in 1..Len(s) : i < j => s[i] < s[j]

\* The rows come first, then what is kept back, then what is queued.
InOrder ==
    /\ Rising(rows) /\ Rising(pending) /\ Rising(queue)
    /\ Below(rows, pending) /\ Below(rows, queue) /\ Below(pending, queue)

\* A stream's queue is fresh, a page that shows all keeps nothing back, and ids are
\* those of the table.
ConsoleInv ==
    /\ stored \in Nat
    /\ rows \in Seq(0..stored) /\ pending \in Seq(0..stored) /\ queue \in Seq(0..stored)
    /\ page = "load" => rows = <<>> /\ pending = <<>>
    /\ page # "live" => queue = <<>>
    /\ paused \in BOOLEAN /\ (~paused => pending = <<>>)
    /\ InOrder

-----------------------------------------------------------------------------
(* Sequences.                                                              *)

LEMMA ConcatAt ==
    ASSUME NEW n \in Nat, NEW s \in Seq(0..n), NEW u \in Seq(0..n)
    PROVE  /\ s \o u \in Seq(0..n) /\ Len(s \o u) = Len(s) + Len(u)
           /\ Len(s) \in Nat /\ Len(u) \in Nat
           /\ \A i \in 1..Len(s \o u) :
                \/ i \in 1..Len(s) /\ (s \o u)[i] = s[i]
                \/ i - Len(s) \in 1..Len(u) /\ (s \o u)[i] = u[i - Len(s)]
OBVIOUS

LEMMA RisingConcat ==
    ASSUME NEW n \in Nat, NEW s \in Seq(0..n), NEW u \in Seq(0..n),
           Rising(s), Rising(u), Below(s, u)
    PROVE  Rising(s \o u)
<1> DEFINE w == s \o u
<1>1. /\ Len(w) = Len(s) + Len(u) /\ Len(s) \in Nat /\ Len(u) \in Nat
      /\ \A i \in 1..Len(w) : \/ i \in 1..Len(s) /\ w[i] = s[i]
                              \/ i - Len(s) \in 1..Len(u) /\ w[i] = u[i - Len(s)]
  BY ConcatAt
<1> HIDE DEF w
<1> SUFFICES ASSUME NEW i \in 1..Len(w), NEW j \in 1..Len(w), i < j PROVE w[i] < w[j]
  BY DEF Rising, w
<1>2. CASE j \in 1..Len(s) /\ w[j] = s[j]
  <2>1. i \in 1..Len(s) /\ w[i] = s[i]
    BY <1>1, <1>2
  <2> QED BY <1>2, <2>1 DEF Rising
<1>3. CASE j - Len(s) \in 1..Len(u) /\ w[j] = u[j - Len(s)]
  <2>1. CASE i \in 1..Len(s) /\ w[i] = s[i]
    BY <1>3, <2>1 DEF Below
  <2>2. CASE i - Len(s) \in 1..Len(u) /\ w[i] = u[i - Len(s)]
    <3>1. i - Len(s) < j - Len(s)
      BY <1>1
    <3> QED BY <1>3, <2>2, <3>1 DEF Rising
  <2> QED BY <1>1, <2>1, <2>2
<1> QED BY <1>1, <1>2, <1>3

\* What is below both parts, or above both, is below or above the whole.
LEMMA BelowConcat ==
    ASSUME NEW n \in Nat, NEW s \in Seq(0..n), NEW u \in Seq(0..n), NEW v \in Seq(0..n)
    PROVE  /\ Below(s, v) /\ Below(u, v) => Below(s \o u, v)
           /\ Below(v, s) /\ Below(v, u) => Below(v, s \o u)
<1> DEFINE w == s \o u
<1>1. \A i \in 1..Len(w) : \/ i \in 1..Len(s) /\ w[i] = s[i]
                           \/ i - Len(s) \in 1..Len(u) /\ w[i] = u[i - Len(s)]
  BY ConcatAt
<1> HIDE DEF w
<1>2. Below(s, v) /\ Below(u, v) => Below(w, v)
  BY <1>1 DEF Below
<1>3. Below(v, s) /\ Below(v, u) => Below(v, w)
  BY <1>1 DEF Below
<1> QED BY <1>2, <1>3 DEF w

\* The page drops its first rows only.
LEMMA NewestAt ==
    ASSUME NEW n \in Nat, NEW s \in Seq(0..n)
    PROVE  /\ Newest(s) \in Seq(0..n)
           /\ \E k \in Nat : /\ Len(Newest(s)) + k = Len(s)
                             /\ \A i \in 1..Len(Newest(s)) : Newest(s)[i] = s[i + k]
<1>1. MaxRows \in Nat \ {0} /\ Len(s) \in Nat
  BY ConsoleAssumption
<1>2. CASE Len(s) <= MaxRows
  <2>1. Newest(s) = s
    BY <1>2 DEF Newest
  <2>2. Len(s) + 0 = Len(s) /\ \A i \in 1..Len(s) : s[i] = s[i + 0]
    BY <1>1
  <2> QED BY <2>1, <2>2
<1>3. CASE ~(Len(s) <= MaxRows)
  <2> DEFINE k == Len(s) - MaxRows
  <2>1. k \in Nat /\ Newest(s) = SubSeq(s, k + 1, Len(s)) /\ Len(s) - (k + 1) + 1 = MaxRows
    BY <1>1, <1>3 DEF Newest
  <2>2. /\ SubSeq(s, k + 1, Len(s)) \in Seq(0..n)
        /\ Len(SubSeq(s, k + 1, Len(s))) = MaxRows
        /\ \A i \in 1..MaxRows : SubSeq(s, k + 1, Len(s))[i] = s[i + k]
    BY <1>1, <1>3, <2>1
  <2>3. MaxRows + k = Len(s)
    BY <1>1
  <2> QED BY <2>1, <2>2, <2>3
<1> QED BY <1>2, <1>3

LEMMA NewestOrder ==
    ASSUME NEW n \in Nat, NEW s \in Seq(0..n), Rising(s)
    PROVE  /\ Rising(Newest(s))
           /\ \A v \in Seq(0..n) : Below(s, v) => Below(Newest(s), v)
<1> DEFINE w == Newest(s)
<1>1. PICK k \in Nat : Len(w) + k = Len(s) /\ \A i \in 1..Len(w) : w[i] = s[i + k]
  BY NewestAt
<1>2. Len(w) \in Nat /\ Len(s) \in Nat
  BY NewestAt
<1> HIDE DEF w
<1>3. \A i \in 1..Len(w) : i + k \in 1..Len(s) /\ w[i] = s[i + k]
  BY <1>1, <1>2
<1>4. Rising(w)
  <2> SUFFICES ASSUME NEW i \in 1..Len(w), NEW j \in 1..Len(w), i < j PROVE w[i] < w[j]
    BY DEF Rising
  <2>1. i + k < j + k
    BY <1>1, <1>2
  <2> QED BY <1>3, <2>1 DEF Rising
<1>5. \A v \in Seq(0..n) : Below(s, v) => Below(w, v)
  BY <1>3 DEF Below
<1> QED BY <1>4, <1>5 DEF w

LEMMA Single ==
    ASSUME NEW n \in Nat, NEW e \in 0..n
    PROVE  <<e>> \in Seq(0..n) /\ Rising(<<e>>)
           /\ \A s \in Seq(0..n) : /\ (\A i \in 1..Len(s) : s[i] < e) => Below(s, <<e>>)
                                   /\ (\A i \in 1..Len(s) : e < s[i]) => Below(<<e>>, s)
BY DEF Rising, Below

LEMMA Nothing ==
    ASSUME NEW n \in Nat
    PROVE  /\ <<>> \in Seq(0..n) /\ Rising(<<>>)
           /\ \A s \in Seq(0..n) : /\ Below(s, <<>>) /\ Below(<<>>, s)
                                  /\ s \o <<>> = s /\ <<>> \o s = s
BY DEF Rising, Below

LEMMA TailOrder ==
    ASSUME NEW n \in Nat, NEW s \in Seq(0..n), s # <<>>, Rising(s)
    PROVE  /\ Tail(s) \in Seq(0..n) /\ Head(s) \in 0..n /\ Rising(Tail(s))
           /\ \A i \in 1..Len(Tail(s)) : Head(s) < Tail(s)[i]
           /\ \A v \in Seq(0..n) : Below(v, s) =>
                Below(v, Tail(s)) /\ \A i \in 1..Len(v) : v[i] < Head(s)
<1> DEFINE w == Tail(s)
           h == Head(s)
<1>1. Len(s) \in Nat \ {0} /\ DOMAIN s = 1..Len(s)
  BY EmptySeq
<1>2. w \in Seq(0..n) /\ Len(w) = Len(s) - 1 /\ h \in 0..n /\ h = s[1]
  BY <1>1, HeadTailProperties
<1>3. \A i \in 1..(Len(s) - 1) : w[i] = s[i + 1]
  BY <1>1
<1> HIDE DEF w, h
<1>4. \A i \in 1..Len(w) : i + 1 \in 1..Len(s) /\ 1 < i + 1 /\ w[i] = s[i + 1] /\ 1 \in 1..Len(s)
  BY <1>1, <1>2, <1>3
<1>5. Rising(w)
  <2> SUFFICES ASSUME NEW i \in 1..Len(w), NEW j \in 1..Len(w), i < j PROVE w[i] < w[j]
    BY DEF Rising
  <2>1. i + 1 < j + 1
    BY <1>1, <1>2
  <2> QED BY <1>4, <2>1 DEF Rising
<1>6. \A i \in 1..Len(w) : h < w[i]
  BY <1>2, <1>4 DEF Rising
<1>7. \A v \in Seq(0..n) : Below(v, s) => Below(v, w) /\ \A i \in 1..Len(v) : v[i] < h
  <2> SUFFICES ASSUME NEW v \in Seq(0..n), Below(v, s)
               PROVE  Below(v, w) /\ \A i \in 1..Len(v) : v[i] < h
    OBVIOUS
  <2>1. \A i \in 1..Len(v) : \A j \in 1..Len(s) : v[i] < s[j]
    BY DEF Below
  <2>2. Below(v, w)
    BY <1>4, <2>1 DEF Below
  <2>3. 1 \in 1..Len(s)
    BY <1>1
  <2> QED BY <1>2, <2>1, <2>2, <2>3
<1> QED BY <1>2, <1>5, <1>6, <1>7 DEF w, h

\* The first rows of the table.
LEMMA UptoOrder ==
    ASSUME NEW n \in Nat, NEW k \in 0..n
    PROVE  Upto(k) \in Seq(0..n) /\ Rising(Upto(k))
<1>1. Upto(k) \in Seq(0..n) /\ Len(Upto(k)) = k /\ \A i \in 1..k : Upto(k)[i] = i
  BY DEF Upto
<1> QED BY <1>1 DEF Rising

LEMMA MoreRows == ASSUME NEW n \in Nat, NEW s \in Seq(0..n) PROVE s \in Seq(0..(n + 1))
<1>1. 0..n \subseteq 0..(n + 1)
  OBVIOUS
<1> QED BY <1>1

-----------------------------------------------------------------------------
(* The steps.                                                              *)

\* append keeps the order, of ids that come after what the page has.
LEMMA AppendOrder ==
    ASSUME ConsoleInv, NEW ids \in Seq(0..stored), AppendRows(ids), Rising(ids),
           Below(rows, ids), Below(pending, ids),
           NEW q \in Seq(0..stored), Below(ids, q), Below(rows, q), Below(pending, q)
    PROVE  /\ rows' \in Seq(0..stored) /\ pending' \in Seq(0..stored)
           /\ Rising(rows') /\ Rising(pending') /\ Below(rows', pending')
           /\ Below(rows', q) /\ Below(pending', q)
           /\ ~paused => pending' = <<>>
<1>1. /\ stored \in Nat /\ rows \in Seq(0..stored) /\ pending \in Seq(0..stored)
      /\ ~paused => pending = <<>>
      /\ Rising(rows) /\ Rising(pending) /\ Below(rows, pending)
  BY DEF ConsoleInv, InOrder
<1>2. CASE paused
  <2>1. pending' = pending \o ids /\ rows' = rows
    BY <1>2 DEF AppendRows
  <2>2. pending \o ids \in Seq(0..stored) /\ Rising(pending \o ids)
    BY <1>1, ConcatAt, RisingConcat
  <2>3. Below(rows, pending \o ids) /\ Below(pending \o ids, q)
    BY <1>1, BelowConcat
  <2> QED BY <1>1, <1>2, <2>1, <2>2, <2>3
<1>3. CASE ~paused
  <2>1. rows' = Newest(rows \o ids) /\ pending' = <<>>
    BY <1>1, <1>3 DEF AppendRows
  <2>2. rows \o ids \in Seq(0..stored) /\ Rising(rows \o ids)
    BY <1>1, ConcatAt, RisingConcat
  <2>3. Below(rows \o ids, q)
    BY <1>1, BelowConcat
  <2>4. Newest(rows \o ids) \in Seq(0..stored)
    BY <1>1, <2>2, NewestAt
  <2>5. Rising(Newest(rows \o ids)) /\ Below(Newest(rows \o ids), q)
    BY <1>1, <2>2, <2>3, NewestOrder
  <2>6. Below(rows', <<>>) /\ Below(<<>>, q) /\ <<>> \in Seq(0..stored) /\ Rising(<<>>)
    BY <1>1, <2>1, <2>4, Nothing
  <2> QED BY <2>1, <2>4, <2>5, <2>6
<1> QED BY <1>2, <1>3

LEMMA FetchStep == ConsoleInv /\ FetchRows => ConsoleInv'
<1> SUFFICES ASSUME ConsoleInv, FetchRows PROVE ConsoleInv'
  OBVIOUS
<1>1. /\ stored \in Nat /\ rows = <<>> /\ pending = <<>> /\ queue = <<>>
      /\ paused \in BOOLEAN /\ paused' = paused /\ queue' = queue /\ stored' = stored
      /\ page' = "fetched"
  BY DEF ConsoleInv, FetchRows
<1>2. Limit \in Nat \ {0}
  BY ConsoleAssumption
<1>3. PICK ids \in {<<>>, Upto(SmallOf(stored, Limit))} : AppendRows(ids)
  BY DEF FetchRows
<1>4. SmallOf(stored, Limit) \in 0..stored
  BY <1>1, <1>2 DEF SmallOf
<1>5. ids \in Seq(0..stored) /\ Rising(ids)
  BY <1>1, <1>3, <1>4, UptoOrder, Nothing
<1>6. /\ <<>> \in Seq(0..stored) /\ Rising(<<>>)
      /\ Below(<<>>, ids) /\ Below(ids, <<>>) /\ Below(<<>>, <<>>)
  BY <1>1, <1>5, Nothing
<1>7. /\ rows' \in Seq(0..stored) /\ pending' \in Seq(0..stored)
      /\ Rising(rows') /\ Rising(pending') /\ Below(rows', pending')
      /\ Below(rows', <<>>) /\ Below(pending', <<>>)
      /\ ~paused => pending' = <<>>
  BY <1>1, <1>3, <1>5, <1>6, AppendOrder
<1> QED BY <1>1, <1>6, <1>7 DEF ConsoleInv, InOrder

LEMMA EventStep == ConsoleInv /\ StreamEvent => ConsoleInv'
<1> SUFFICES ASSUME ConsoleInv, StreamEvent PROVE ConsoleInv'
  OBVIOUS
<1> DEFINE h == Head(queue)
           q == Tail(queue)
<1>1. /\ stored \in Nat /\ rows \in Seq(0..stored) /\ pending \in Seq(0..stored)
      /\ queue \in Seq(0..stored) /\ queue # <<>> /\ page = "live" /\ page' = page
      /\ paused \in BOOLEAN /\ paused' = paused /\ queue' = q /\ stored' = stored
      /\ InOrder /\ AppendRows(<<h>>)
  BY DEF ConsoleInv, StreamEvent
<1>2. /\ q \in Seq(0..stored) /\ h \in 0..stored /\ Rising(q)
      /\ \A i \in 1..Len(q) : h < q[i]
      /\ \A v \in Seq(0..stored) : Below(v, queue) =>
            Below(v, q) /\ \A i \in 1..Len(v) : v[i] < h
  BY <1>1, TailOrder DEF InOrder
<1> HIDE DEF h, q
<1>3. /\ Below(rows, q) /\ Below(pending, q)
      /\ \A i \in 1..Len(rows) : rows[i] < h
      /\ \A i \in 1..Len(pending) : pending[i] < h
  BY <1>1, <1>2 DEF InOrder
<1>4. <<h>> \in Seq(0..stored) /\ Rising(<<h>>) /\ Below(<<h>>, q) /\ Below(rows, <<h>>)
      /\ Below(pending, <<h>>)
  BY <1>1, <1>2, <1>3, Single
<1>5. /\ rows' \in Seq(0..stored) /\ pending' \in Seq(0..stored)
      /\ Rising(rows') /\ Rising(pending') /\ Below(rows', pending')
      /\ Below(rows', q) /\ Below(pending', q)
      /\ ~paused => pending' = <<>>
  BY <1>1, <1>2, <1>3, <1>4, AppendOrder
<1> QED BY <1>1, <1>2, <1>5 DEF ConsoleInv, InOrder

LEMMA InsertStep == ConsoleInv /\ Insert => ConsoleInv'
<1> SUFFICES ASSUME ConsoleInv, Insert PROVE ConsoleInv'
  OBVIOUS
<1> DEFINE n == stored + 1
<1>1. /\ stored \in Nat /\ stored' = n /\ rows' = rows /\ pending' = pending /\ page' = page
      /\ paused' = paused
      /\ rows \in Seq(0..stored) /\ pending \in Seq(0..stored) /\ queue \in Seq(0..stored)
      /\ (queue' = Append(queue, n) /\ page = "live") \/ queue' = queue
  BY DEF ConsoleInv, Insert, pageVars
<1>2. n \in Nat /\ n \in 0..n /\ rows \in Seq(0..n) /\ pending \in Seq(0..n) /\ queue \in Seq(0..n)
  BY <1>1, MoreRows
<1>3. CASE queue' = queue
  BY <1>1, <1>2, <1>3 DEF ConsoleInv, InOrder
<1>4. CASE queue' = Append(queue, n) /\ page = "live"
  <2>1. queue' = queue \o <<n>>
    BY <1>2, <1>4
  <2>2. /\ \A i \in 1..Len(rows) : rows[i] < n
        /\ \A i \in 1..Len(pending) : pending[i] < n
        /\ \A i \in 1..Len(queue) : queue[i] < n
    BY <1>1
  <2> HIDE DEF n
  <2>3. <<n>> \in Seq(0..n) /\ Rising(<<n>>) /\ Below(rows, <<n>>) /\ Below(pending, <<n>>)
        /\ Below(queue, <<n>>)
    BY <1>2, <2>2, Single
  <2>4. Rising(queue) /\ Below(rows, queue) /\ Below(pending, queue)
    BY DEF ConsoleInv, InOrder
  <2>5. /\ queue \o <<n>> \in Seq(0..n) /\ Rising(queue \o <<n>>)
        /\ Below(rows, queue \o <<n>>) /\ Below(pending, queue \o <<n>>)
    BY <1>2, <2>3, <2>4, ConcatAt, RisingConcat, BelowConcat
  <2> QED BY <1>1, <1>2, <1>4, <2>1, <2>5 DEF ConsoleInv, InOrder
<1> QED BY <1>1, <1>3, <1>4

LEMMA PauseStep == ConsoleInv /\ Pause => ConsoleInv'
<1> SUFFICES ASSUME ConsoleInv, Pause PROVE ConsoleInv'
  OBVIOUS
<1>1. /\ stored \in Nat /\ rows \in Seq(0..stored) /\ pending \in Seq(0..stored)
      /\ queue \in Seq(0..stored) /\ paused \in BOOLEAN /\ paused' \in BOOLEAN
      /\ stored' = stored /\ page' = page /\ queue' = queue /\ paused' = ~paused /\ InOrder
  BY DEF ConsoleInv, Pause
<1>2. CASE ~paused
  BY <1>1, <1>2 DEF ConsoleInv, InOrder, Pause
<1>3. CASE paused
  <2>1. rows' = Newest(rows \o pending) /\ pending' = <<>>
    BY <1>3 DEF Pause
  <2>2. /\ rows \o pending \in Seq(0..stored)
        /\ Rising(rows \o pending) /\ Below(rows \o pending, queue)
    BY <1>1, ConcatAt, RisingConcat, BelowConcat DEF InOrder
  <2>3. rows' \in Seq(0..stored) /\ Rising(rows') /\ Below(rows', queue)
    BY <1>1, <2>1, <2>2, NewestAt, NewestOrder
  <2>4. /\ <<>> \in Seq(0..stored) /\ Rising(<<>>) /\ Below(rows', <<>>) /\ Below(<<>>, queue)
    BY <1>1, <2>3, Nothing
  <2>5. page = "load" => rows' = <<>>
    <3>1. page = "load" => rows = <<>> /\ pending = <<>>
      BY DEF ConsoleInv
    <3>2. <<>> \o <<>> = <<>> /\ Newest(<<>>) = <<>>
      BY ConsoleAssumption DEF Newest
    <3> QED BY <2>1, <3>1, <3>2
  <2> QED BY <1>1, <2>1, <2>3, <2>4, <2>5 DEF ConsoleInv, InOrder
<1> QED BY <1>1, <1>2, <1>3

LEMMA OtherSteps ==
    ConsoleInv /\ (OpenStream \/ StreamBreaks \/ Clear \/ UNCHANGED consoleVars) => ConsoleInv'
<1> SUFFICES ASSUME ConsoleInv, OpenStream \/ StreamBreaks \/ Clear \/ UNCHANGED consoleVars
             PROVE  ConsoleInv'
  OBVIOUS
<1> USE DEF pageVars
<1>1. /\ stored \in Nat /\ rows \in Seq(0..stored) /\ pending \in Seq(0..stored)
      /\ queue \in Seq(0..stored) /\ InOrder
  BY DEF ConsoleInv
<1>2. /\ <<>> \in Seq(0..stored) /\ Rising(<<>>) /\ Below(rows, <<>>) /\ Below(pending, <<>>)
      /\ Below(<<>>, pending) /\ Below(<<>>, queue)
  BY <1>1, Nothing
<1>3. CASE OpenStream \/ StreamBreaks
  BY <1>1, <1>2, <1>3 DEF OpenStream, StreamBreaks, ConsoleInv, InOrder
<1>4. CASE Clear
  BY <1>1, <1>2, <1>4 DEF Clear, ConsoleInv, InOrder
<1>5. CASE UNCHANGED consoleVars
  BY <1>5 DEF consoleVars, ConsoleInv, InOrder
<1> QED BY <1>3, <1>4, <1>5

\* The console's own steps, whoever composes them, keep the invariant.
LEMMA ConsoleStep == ConsoleInv /\ (Insert \/ Browse \/ UNCHANGED consoleVars) => ConsoleInv'
BY FetchStep, EventStep, InsertStep, PauseStep, OtherSteps DEF Browse

LEMMA ConsoleStart == ConsoleInit => ConsoleInv
<1> SUFFICES ASSUME ConsoleInit PROVE ConsoleInv
  OBVIOUS
<1>1. stored = 0 /\ queue = <<>> /\ page = "load" /\ rows = <<>> /\ paused = FALSE /\ pending = <<>>
  BY DEF ConsoleInit
<1>2. <<>> \in Seq(0..0) /\ Rising(<<>>) /\ Below(<<>>, <<>>)
  BY Nothing
<1> QED BY <1>1, <1>2 DEF ConsoleInv, InOrder

\* The invariant is RowsInOrder, in parts.
LEMMA ConsoleOrder == ConsoleInv => RowsInOrder
<1> SUFFICES ASSUME ConsoleInv PROVE RowsInOrder
  OBVIOUS
<1>1. /\ stored \in Nat /\ rows \in Seq(0..stored) /\ pending \in Seq(0..stored)
      /\ queue \in Seq(0..stored) /\ InOrder
  BY DEF ConsoleInv
<1>2. rows \o pending \in Seq(0..stored) /\ Rising(rows \o pending) /\ Below(rows \o pending, queue)
  BY <1>1, ConcatAt, RisingConcat, BelowConcat DEF InOrder
<1> DEFINE s == (rows \o pending) \o queue
<1>3. s \in Seq(0..stored) /\ Rising(s)
  BY <1>1, <1>2, ConcatAt, RisingConcat DEF InOrder
<1>4. rows \o pending \o queue = s
  OBVIOUS
<1> HIDE DEF s
<1>5. DOMAIN s = 1..Len(s)
  BY <1>3
<1> QED BY <1>3, <1>4, <1>5 DEF RowsInOrder, Increasing, Rising

-----------------------------------------------------------------------------
(* The limits.                                                             *)

\* The page keeps MAX_ROWS rows at most.
LEMMA NewestType ==
    ASSUME NEW n \in Nat, NEW s \in Seq(1..n)
    PROVE  Newest(s) \in Seq(1..n) /\ Len(Newest(s)) <= MaxRows
<1>1. MaxRows \in Nat \ {0} /\ Len(s) \in Nat
  BY ConsoleAssumption
<1>2. CASE Len(s) <= MaxRows
  BY <1>1, <1>2 DEF Newest
<1>3. CASE ~(Len(s) <= MaxRows)
  <2> DEFINE k == Len(s) - MaxRows
  <2>1. k \in Nat /\ Newest(s) = SubSeq(s, k + 1, Len(s)) /\ Len(s) - (k + 1) + 1 = MaxRows
    BY <1>1, <1>3 DEF Newest
  <2>2. SubSeq(s, k + 1, Len(s)) \in Seq(1..n) /\ Len(SubSeq(s, k + 1, Len(s))) = MaxRows
    BY <1>1, <1>3, <2>1
  <2> QED BY <1>1, <2>1, <2>2
<1> QED BY <1>2, <1>3

\* append takes rows of the table and leaves rows of the table, not too many.
LEMMA AppendType ==
    ASSUME ConsoleTypeOK, NEW ids \in Seq(1..stored), AppendRows(ids)
    PROVE  rows' \in Seq(1..stored) /\ Len(rows') <= MaxRows /\ pending' \in Seq(1..stored)
<1>1. /\ stored \in Nat /\ rows \in Seq(1..stored) /\ pending \in Seq(1..stored)
      /\ Len(rows) <= MaxRows
  BY ConsoleAssumption DEF ConsoleTypeOK
<1>2. rows \o ids \in Seq(1..stored) /\ pending \o ids \in Seq(1..stored)
  BY <1>1
<1>3. Newest(rows \o ids) \in Seq(1..stored) /\ Len(Newest(rows \o ids)) <= MaxRows
  BY <1>1, <1>2, NewestType
<1> QED BY <1>1, <1>2, <1>3 DEF AppendRows

\* Every step of the console keeps its types and limits.
LEMMA ConsoleTypeStep ==
    ConsoleTypeOK /\ (Insert \/ Browse \/ UNCHANGED consoleVars) => ConsoleTypeOK'
<1> SUFFICES ASSUME ConsoleTypeOK, Insert \/ Browse \/ UNCHANGED consoleVars
             PROVE  ConsoleTypeOK'
  OBVIOUS
<1> USE DEF pageVars
<1>1. /\ stored \in Nat /\ stored <= MaxEvents /\ MaxEvents \in Nat /\ MaxClicks \in Nat
      /\ QueueSize \in Nat \ {0} /\ Limit \in Nat \ {0} /\ MaxRows \in Nat \ {0}
      /\ stored \in 0..MaxEvents
      /\ clicks \in 0..MaxClicks /\ paused \in BOOLEAN
      /\ page \in {"load", "fetched", "live", "lost"}
      /\ queue \in Seq(1..stored) /\ Len(queue) <= QueueSize /\ Len(queue) \in Nat
      /\ rows \in Seq(1..stored) /\ Len(rows) <= MaxRows
      /\ pending \in Seq(1..stored)
  BY ConsoleAssumption DEF ConsoleTypeOK
<1>2. <<>> \in Seq(1..stored) /\ Len(<<>>) = 0
  OBVIOUS
<1>3. CASE Insert
  <2>1. stored' = stored + 1 /\ stored' \in 0..MaxEvents
    BY <1>1, <1>3 DEF Insert
  <2>2. /\ rows \in Seq(1..stored') /\ pending \in Seq(1..stored')
        /\ queue \in Seq(1..stored') /\ stored' \in 1..stored'
    <3>1. 1..stored \subseteq 1..stored' /\ stored' \in 1..stored'
      BY <1>1, <2>1
    <3> QED BY <1>1, <3>1
  <2>3. queue' \in Seq(1..stored') /\ Len(queue') <= QueueSize
    <3>1. CASE queue' = queue
      BY <1>1, <2>2, <3>1
    <3>2. CASE Len(queue) < QueueSize /\ queue' = Append(queue, stored')
      <4>1. Append(queue, stored') \in Seq(1..stored')
            /\ Len(Append(queue, stored')) = Len(queue) + 1
        BY <2>2, AppendProperties
      <4> QED BY <1>1, <3>2, <4>1
    <3> QED BY <1>3, <3>1, <3>2 DEF Insert
  <2> QED BY <1>1, <1>3, <2>1, <2>2, <2>3 DEF Insert, ConsoleTypeOK
<1>4. CASE FetchRows
  <2>1. PICK ids \in {<<>>, Upto(SmallOf(stored, Limit))} : AppendRows(ids)
    BY <1>4 DEF FetchRows
  <2>2. SmallOf(stored, Limit) \in 0..stored
    BY <1>1 DEF SmallOf
  <2>3. Upto(SmallOf(stored, Limit)) \in Seq(1..stored)
    <3>1. \A k \in 0..stored : Upto(k) \in Seq(1..stored)
      BY <1>1 DEF Upto
    <3> QED BY <2>2, <3>1
  <2>4. rows' \in Seq(1..stored) /\ Len(rows') <= MaxRows /\ pending' \in Seq(1..stored)
    BY <1>2, <2>1, <2>3, AppendType
  <2> QED BY <1>1, <1>4, <2>4 DEF FetchRows, ConsoleTypeOK
<1>5. CASE StreamEvent
  <2>1. queue # <<>> /\ queue' = Tail(queue) /\ AppendRows(<<Head(queue)>>)
    BY <1>5 DEF StreamEvent
  <2>2. Head(queue) \in 1..stored /\ Tail(queue) \in Seq(1..stored)
        /\ Len(Tail(queue)) = Len(queue) - 1
    BY <1>1, <2>1, HeadTailProperties
  <2>3. <<Head(queue)>> \in Seq(1..stored)
    BY <2>2
  <2>4. rows' \in Seq(1..stored) /\ Len(rows') <= MaxRows /\ pending' \in Seq(1..stored)
    BY <2>1, <2>3, AppendType
  <2>5. Len(queue') <= QueueSize
    BY <1>1, <2>1, <2>2
  <2> QED BY <1>1, <1>5, <2>1, <2>2, <2>4, <2>5 DEF StreamEvent, ConsoleTypeOK
<1>6. CASE Pause
  <2>1. rows \o pending \in Seq(1..stored)
    BY <1>1
  <2>2. Newest(rows \o pending) \in Seq(1..stored) /\ Len(Newest(rows \o pending)) <= MaxRows
    BY <1>1, <2>1, NewestType
  <2>3. rows' \in Seq(1..stored) /\ Len(rows') <= MaxRows /\ pending' \in Seq(1..stored)
    BY <1>1, <1>2, <1>6, <2>2 DEF Pause
  <2> QED BY <1>1, <1>6, <2>3 DEF Pause, ConsoleTypeOK
<1>7. CASE OpenStream \/ StreamBreaks
  <2>1. queue' \in Seq(1..stored) /\ Len(queue') <= QueueSize
    <3>1. queue' = <<>>
      BY <1>7 DEF OpenStream, StreamBreaks
    <3>2. 0 <= QueueSize
      BY <1>1
    <3> QED BY <1>2, <3>1, <3>2
  <2>2. clicks' \in 0..MaxClicks /\ page' \in {"load", "fetched", "live", "lost"}
    BY <1>1, <1>7 DEF OpenStream, StreamBreaks
  <2> QED BY <1>1, <1>7, <2>1, <2>2 DEF OpenStream, StreamBreaks, ConsoleTypeOK
<1>8. CASE Clear
  BY <1>1, <1>2, <1>8 DEF Clear, ConsoleTypeOK
<1>9. CASE UNCHANGED consoleVars
  BY <1>1, <1>9 DEF consoleVars, ConsoleTypeOK
<1> QED BY <1>3, <1>4, <1>5, <1>6, <1>7, <1>8, <1>9 DEF Browse

\* The console starts within its limits.
LEMMA ConsoleTypeStart == ConsoleInit => ConsoleTypeOK
<1> SUFFICES ASSUME ConsoleInit PROVE ConsoleTypeOK
  OBVIOUS
<1>1. /\ stored = 0 /\ queue = <<>> /\ page = "load" /\ rows = <<>> /\ paused = FALSE
      /\ pending = <<>> /\ clicks = 0
  BY DEF ConsoleInit
<1>2. <<>> \in Seq(1..0) /\ Len(<<>>) = 0
  OBVIOUS
<1>3. /\ queue \in Seq(1..stored) /\ rows \in Seq(1..stored) /\ pending \in Seq(1..stored)
      /\ Len(queue) = 0 /\ Len(rows) = 0
  BY <1>1, <1>2
<1>4. /\ stored \in 0..MaxEvents /\ clicks \in 0..MaxClicks
      /\ Len(queue) <= QueueSize /\ Len(rows) <= MaxRows
  BY <1>1, <1>3, ConsoleAssumption
<1> QED BY <1>1, <1>3, <1>4 DEF ConsoleTypeOK

-----------------------------------------------------------------------------
(* The inductive invariant.                                                *)

HopType ==
    /\ told \in Seq(Nat) /\ heard \in Seq(Nat) /\ spoken \in Seq(Nat) /\ shown \in Seq(Nat)
    /\ wsIn \in Seq(Nat) /\ tcpIn \in Seq(Nat) /\ framed \in Nat

\* The relay's connection and the pumps start with the dial, the connection ends with
\* the handler, and a broken WebSocket has nothing left to read.
Phases ==
    /\ tcp \in {"none", "open", "eof", "reset", "shut"}
    /\ handler = "dial" => tcp = "none"
    /\ tcp = "none" => up = "idle" /\ down = "idle"
    /\ tcp = "open" => handler = "gather"
    /\ ws = "broken" => wsIn = <<>>

\* Messages and frames are numbered in the order sent.
Numbered == (\A i \in DOMAIN told : told[i] = i) /\ (\A i \in DOMAIN spoken : spoken[i] = i)

\* The numbers from b + 1 on, after z text messages.
Run(s, b, z) == \A i \in 1..Len(s) : IF i <= z THEN s[i] = 0 ELSE s[i] = b + i - z

\* Until the hop is cut, what the client sent and the relay has not been written is
\* waiting, after a text message if there is one.
UpQueue == ~UpCut =>
    \E z \in {0, 1} :
        /\ Len(heard) <= Len(told) /\ Len(wsIn) = Len(told) - Len(heard) + z
        /\ Run(wsIn, Len(heard), z)

\* The frame in the pump's hand.
Held == IF down = "send" THEN 1 ELSE 0

\* While the WebSocket is open, the client was shown a prefix of what the relay said;
\* the next frame is in the pump's hand or first in the queue.
DownQueue == ws = "open" =>
    /\ down = "send" => framed = Len(shown) + 1
    /\ Len(shown) + Held + Len(tcpIn) <= Len(spoken)
    /\ tcp \in {"none", "open"} => Len(shown) + Held + Len(tcpIn) = Len(spoken)
    /\ Run(tcpIn, Len(shown) + Held, 0)

HopInv == HopType /\ Phases /\ Numbered /\ UpQueue /\ DownQueue

-----------------------------------------------------------------------------
(* Sequences.                                                              *)

LEMMA AppendAt ==
    ASSUME NEW s \in Seq(Nat), NEW e \in Nat
    PROVE  /\ Append(s, e) \in Seq(Nat) /\ Len(Append(s, e)) = Len(s) + 1 /\ Len(s) \in Nat
           /\ DOMAIN s = 1..Len(s) /\ DOMAIN Append(s, e) = 1..(Len(s) + 1)
           /\ Append(s, e)[Len(s) + 1] = e
           /\ \A i \in 1..Len(s) : Append(s, e)[i] = s[i]
OBVIOUS

LEMMA TailAt ==
    ASSUME NEW s \in Seq(Nat), s # <<>>
    PROVE  /\ Tail(s) \in Seq(Nat) /\ Len(Tail(s)) = Len(s) - 1 /\ Len(s) \in Nat \ {0}
           /\ Head(s) = s[1] /\ Head(s) \in Nat
           /\ DOMAIN s = 1..Len(s) /\ DOMAIN Tail(s) = 1..(Len(s) - 1)
           /\ \A i \in 1..(Len(s) - 1) : Tail(s)[i] = s[i + 1]
<1>1. Len(s) \in Nat /\ DOMAIN s = 1..Len(s) /\ Len(s) > 0
  BY EmptySeq
<1>2. Tail(s) \in Seq(Nat) /\ Len(Tail(s)) = Len(s) - 1 /\ Head(s) \in Nat /\ Head(s) = s[1]
  BY <1>1, HeadTailProperties
<1>3. \A i \in 1..(Len(s) - 1) : Tail(s)[i] = s[i + 1]
  BY <1>1
<1>4. DOMAIN Tail(s) = 1..(Len(s) - 1)
  BY <1>1, <1>2, HeadTailProperties
<1> QED BY <1>1, <1>2, <1>3, <1>4

\* A numbered sequence stays one.
LEMMA NumberNext ==
    ASSUME NEW s \in Seq(Nat), \A i \in DOMAIN s : s[i] = i
    PROVE  LET u == Append(s, Len(s) + 1)
           IN  /\ u \in Seq(Nat) /\ Len(u) = Len(s) + 1 /\ SubSeq(u, 1, Len(s)) = s
               /\ \A i \in DOMAIN u : u[i] = i
<1> DEFINE u == Append(s, Len(s) + 1)
<1>1. /\ u \in Seq(Nat) /\ Len(u) = Len(s) + 1 /\ Len(s) \in Nat
      /\ DOMAIN s = 1..Len(s) /\ DOMAIN u = 1..(Len(s) + 1)
      /\ u[Len(s) + 1] = Len(s) + 1
      /\ \A i \in 1..Len(s) : u[i] = s[i]
  BY AppendAt
<1>2. SubSeq(u, 1, Len(s)) = s
  BY AppendProperties
<1> HIDE DEF u
<1>3. \A i \in DOMAIN u : u[i] = i
  BY <1>1
<1> QED BY <1>1, <1>2, <1>3 DEF u

LEMMA RunGrows ==
    ASSUME NEW s \in Seq(Nat), NEW b \in Nat, NEW z \in {0, 1}, z <= Len(s), Run(s, b, z)
    PROVE  Run(Append(s, b + Len(s) + 1 - z), b, z)
<1> DEFINE e == b + Len(s) + 1 - z
           u == Append(s, e)
<1>1. e \in Nat /\ Len(s) \in Nat
  OBVIOUS
<1>2. /\ Len(u) = Len(s) + 1 /\ u[Len(s) + 1] = e
      /\ \A i \in 1..Len(s) : u[i] = s[i]
  BY <1>1, AppendAt
<1>3. e = b + (Len(s) + 1) - z
  BY <1>1
<1> HIDE DEF u, e
<1> SUFFICES ASSUME NEW i \in 1..Len(u) PROVE IF i <= z THEN u[i] = 0 ELSE u[i] = b + i - z
  BY DEF Run, u, e
<1>4. CASE i \in 1..Len(s)
  BY <1>2, <1>4 DEF Run
<1>5. CASE i = Len(s) + 1
  BY <1>1, <1>2, <1>3, <1>5
<1> QED BY <1>1, <1>2, <1>4, <1>5

LEMMA RunTakes ==
    ASSUME NEW s \in Seq(Nat), s # <<>>, NEW b \in Nat, NEW z \in {0, 1}, Run(s, b, z)
    PROVE  /\ z = 1 => Head(s) = 0 /\ Run(Tail(s), b, 0)
           /\ z = 0 => Head(s) = b + 1 /\ Run(Tail(s), b + 1, 0)
<1> DEFINE u == Tail(s)
<1>1. /\ Len(u) = Len(s) - 1 /\ Len(s) \in Nat \ {0} /\ Head(s) = s[1]
      /\ \A i \in 1..(Len(s) - 1) : u[i] = s[i + 1]
  BY TailAt
<1> HIDE DEF u
<1>2. z = 1 => Head(s) = 0
  BY <1>1 DEF Run
<1>3. z = 0 => Head(s) = b + 1
  BY <1>1 DEF Run
<1>4. ASSUME NEW i \in 1..Len(u)
      PROVE  /\ z = 1 => u[i] = b + i - 0
             /\ z = 0 => u[i] = (b + 1) + i - 0
  <2>1. i + 1 \in 1..Len(s) /\ u[i] = s[i + 1] /\ ~(i + 1 <= z) /\ i \in Nat
    BY <1>1
  <2>2. z = 0 => u[i] = b + (i + 1) - 0
    BY <2>1 DEF Run
  <2>3. z = 1 => u[i] = b + (i + 1) - 1
    BY <2>1 DEF Run
  <2> QED BY <2>1, <2>2, <2>3
<1>5. \A i \in 1..Len(u) : ~(i <= 0)
  OBVIOUS
<1>6. z = 1 => Run(u, b, 0)
  BY <1>4, <1>5 DEF Run
<1>7. z = 0 => Run(u, b + 1, 0)
  BY <1>4, <1>5 DEF Run
<1> QED BY <1>2, <1>3, <1>6, <1>7 DEF u

LEMMA RunEmpty == \A b \in Nat : Run(<<>>, b, 0)
BY DEF Run

-----------------------------------------------------------------------------
(* A step that leaves the messages alone.                                  *)

pipes == <<told, heard, spoken, shown, wsIn, tcpIn, framed>>

\* When a hop is cut, it stays cut.
LEMMA CutForGood == HopInv /\ [Next]_vars => (UpCut => UpCut') /\ (DownCut => DownCut')
                                             /\ (ws # "open" => ws' # "open")
<1> SUFFICES ASSUME HopInv, [Next]_vars
             PROVE  (UpCut => UpCut') /\ (DownCut => DownCut') /\ (ws # "open" => ws' # "open")
  OBVIOUS
<1> USE DEF pumpVars, wireVars
<1>1. Phases
  BY DEF HopInv
<1>2. UpCut => UpCut'
  BY <1>1 DEF Phases, UpCut, Next, Peers, ClientSends, ClientCloses, ClientVanishes, RelaySpeaks,
     RelayCloses, RelayResets, Up, UpTakes, UpEnds, UpDrains, Down, DownReads, DownEnds,
     DownSends, Handle, Dial, Finally, HandleEnds, PostArrives, Show, vars
<1>3. DownCut => DownCut'
  BY <1>1 DEF Phases, DownCut, Ended, Next, Peers, ClientSends, ClientCloses, ClientVanishes,
     RelaySpeaks, RelayCloses, RelayResets, Up, UpTakes, UpEnds, UpDrains, Down, DownReads,
     DownEnds, DownSends, Handle, Dial, Finally, HandleEnds, PostArrives, Show, vars
<1>4. ws # "open" => ws' # "open"
  BY DEF Next, Peers, ClientSends, ClientCloses, ClientVanishes, RelaySpeaks, RelayCloses,
     RelayResets, Up, UpTakes, UpEnds, UpDrains, Down, DownReads, DownEnds, DownSends,
     Handle, Dial, Finally, HandleEnds, PostArrives, Show, vars
<1> QED BY <1>2, <1>3, <1>4

LEMMA PhasesStep == HopInv /\ [Next]_vars => Phases'
<1> SUFFICES ASSUME HopInv, [Next]_vars PROVE Phases'
  OBVIOUS
<1> USE DEF pumpVars, wireVars
<1>1. Phases
  BY DEF HopInv
<1>2. CASE Peers
  BY <1>1, <1>2 DEF Phases, Peers, ClientSends, ClientCloses, ClientVanishes, RelaySpeaks,
     RelayCloses, RelayResets
<1>3. CASE Up
  BY <1>1, <1>3 DEF Phases, Up, UpTakes, UpEnds, UpDrains
<1>4. CASE Down
  BY <1>1, <1>4 DEF Phases, Down, DownReads, DownEnds, DownSends
<1>5. CASE Handle
  BY <1>1, <1>5 DEF Phases, Handle, Dial, Finally, HandleEnds
<1>6. CASE PostArrives \/ Show \/ UNCHANGED vars
  BY <1>1, <1>6 DEF Phases, PostArrives, Show, vars
<1> QED BY <1>2, <1>3, <1>4, <1>5, <1>6 DEF Next

-----------------------------------------------------------------------------
(* Types and numbers.                                                      *)

\* What a step may do to the pipes, whatever else it does.
LEMMA PipeSteps ==
    ASSUME HopInv, [Next]_vars
    PROVE  \/ ClientSends \/ ClientVanishes \/ RelaySpeaks \/ RelayResets
           \/ UpTakes \/ DownReads \/ DownSends \/ UNCHANGED pipes
<1> USE DEF pumpVars, wireVars, pipes
<1> QED
  BY DEF Next, Peers, ClientCloses, RelayCloses, Up, UpEnds, UpDrains, Down, DownEnds, Handle, Dial,
     Finally, HandleEnds, PostArrives, Show, vars

LEMMA PipesTyped == HopInv /\ [Next]_vars => HopType' /\ Numbered'
<1> SUFFICES ASSUME HopInv, [Next]_vars PROVE HopType' /\ Numbered'
  OBVIOUS
<1> USE DEF pumpVars, wireVars
<1>1. HopType /\ Numbered
  BY DEF HopInv
<1>2. /\ told \in Seq(Nat) /\ heard \in Seq(Nat) /\ spoken \in Seq(Nat) /\ shown \in Seq(Nat)
      /\ wsIn \in Seq(Nat) /\ tcpIn \in Seq(Nat) /\ framed \in Nat
      /\ Len(told) + 1 \in Nat /\ Len(spoken) + 1 \in Nat
  BY <1>1 DEF HopType
<1>3. <<>> \in Seq(Nat)
  OBVIOUS
<1>4. CASE ClientSends
  <2>1. CASE told' = Append(told, Len(told) + 1) /\ wsIn' = Append(wsIn, Len(told) + 1)
    <3>1. told' \in Seq(Nat) /\ wsIn' \in Seq(Nat) /\ \A i \in DOMAIN told' : told'[i] = i
      BY <1>1, <1>2, <2>1, NumberNext, AppendAt DEF Numbered
    <3> QED BY <1>1, <1>2, <1>4, <3>1 DEF ClientSends, HopType, Numbered
  <2>2. CASE wsIn' = Append(wsIn, 0) /\ UNCHANGED told
    <3>1. wsIn' \in Seq(Nat)
      BY <1>2, <2>2, AppendAt
    <3> QED BY <1>1, <1>4, <2>2, <3>1 DEF ClientSends, HopType, Numbered
  <2> QED BY <1>4, <2>1, <2>2 DEF ClientSends
<1>5. CASE ClientVanishes
  BY <1>1, <1>3, <1>5 DEF ClientVanishes, HopType, Numbered
<1>6. CASE RelaySpeaks
  <2>1. spoken' \in Seq(Nat) /\ tcpIn' \in Seq(Nat) /\ \A i \in DOMAIN spoken' : spoken'[i] = i
    BY <1>1, <1>2, <1>6, NumberNext, AppendAt DEF RelaySpeaks, Numbered
  <2> QED BY <1>1, <1>6, <2>1 DEF RelaySpeaks, HopType, Numbered
<1>7. CASE RelayResets
  BY <1>1, <1>3, <1>7 DEF RelayResets, HopType, Numbered
<1>8. CASE UpTakes
  <2>1. wsIn' \in Seq(Nat) /\ Head(wsIn) \in Nat
    BY <1>2, <1>8, TailAt DEF UpTakes
  <2>3. Append(heard, Head(wsIn)) \in Seq(Nat)
    BY <1>2, <2>1, AppendAt
  <2>2. heard' \in Seq(Nat)
    BY <1>2, <1>8, <2>3 DEF UpTakes
  <2> QED BY <1>1, <1>8, <2>1, <2>2 DEF UpTakes, HopType, Numbered
<1>9. CASE DownReads
  <2>1. tcpIn' \in Seq(Nat) /\ framed' \in Nat
    BY <1>2, <1>9, TailAt DEF DownReads
  <2> QED BY <1>1, <1>9, <2>1 DEF DownReads, HopType, Numbered
<1>10. CASE DownSends
  <2>2. Append(shown, framed) \in Seq(Nat)
    BY <1>2, AppendAt
  <2>1. shown' \in Seq(Nat) /\ framed' \in Nat
    BY <1>2, <1>10, <2>2 DEF DownSends
  <2> QED BY <1>1, <1>10, <2>1 DEF DownSends, HopType, Numbered
<1>11. CASE UNCHANGED pipes
  BY <1>1, <1>11 DEF pipes, HopType, Numbered
<1> QED BY <1>4, <1>5, <1>6, <1>7, <1>8, <1>9, <1>10, <1>11, PipeSteps

-----------------------------------------------------------------------------
(* The way to the relay.                                                   *)

LEMMA UpStep == HopInv /\ [Next]_vars => UpQueue'
<1> SUFFICES ASSUME HopInv, [Next]_vars, ~UpCut' PROVE UpQueue'
  BY DEF UpQueue
<1> USE DEF pumpVars, wireVars
<1>1. HopType /\ Phases /\ Numbered /\ UpQueue /\ ~UpCut
  BY CutForGood DEF HopInv
<1>2. /\ told \in Seq(Nat) /\ heard \in Seq(Nat) /\ wsIn \in Seq(Nat)
      /\ Len(told) \in Nat /\ Len(heard) \in Nat /\ Len(wsIn) \in Nat
      /\ DOMAIN wsIn = 1..Len(wsIn)
  BY <1>1 DEF HopType
<1>3. PICK z \in {0, 1} :
        /\ Len(heard) <= Len(told) /\ Len(wsIn) = Len(told) - Len(heard) + z
        /\ Run(wsIn, Len(heard), z)
  BY <1>1 DEF UpQueue
<1>4. CASE UNCHANGED <<told, heard, wsIn>>
  BY <1>3, <1>4 DEF UpQueue
<1>5. CASE ClientSends
  <2>1. CASE told' = Append(told, Len(told) + 1) /\ wsIn' = Append(wsIn, Len(told) + 1)
    <3>1. Len(told') = Len(told) + 1 /\ Len(wsIn') = Len(wsIn) + 1 /\ heard' = heard
      BY <1>2, <1>5, <2>1, AppendAt DEF ClientSends
    <3>2. Len(told) + 1 = Len(heard) + Len(wsIn) + 1 - z /\ z <= Len(wsIn)
      BY <1>2, <1>3
    <3>3. Run(wsIn', Len(heard'), z)
      BY <1>2, <1>3, <2>1, <3>1, <3>2, RunGrows
    <3>4. Len(heard') <= Len(told') /\ Len(wsIn') = Len(told') - Len(heard') + z
      BY <1>2, <1>3, <3>1
    <3> QED BY <3>3, <3>4 DEF UpQueue
  <2>2. CASE wsIn' = Append(wsIn, 0) /\ wsIn = <<>> /\ UNCHANGED told
    <3>1. Len(wsIn) = 0 /\ heard' = heard /\ told' = told
      BY <1>5, <2>2 DEF ClientSends
    <3>2. Len(wsIn') = 1 /\ wsIn'[1] = 0
      BY <1>2, <2>2, <3>1, AppendAt
    <3>3. Len(wsIn') = Len(told') - Len(heard') + 1 /\ Len(heard') <= Len(told')
      BY <1>2, <1>3, <3>1, <3>2
    <3>4. Run(wsIn', Len(heard'), 1)
      BY <3>2 DEF Run
    <3> QED BY <3>3, <3>4 DEF UpQueue
  <2> QED BY <1>5, <2>1, <2>2 DEF ClientSends
<1>6. CASE ClientVanishes
  BY <1>6 DEF ClientVanishes, UpCut
<1>7. CASE UpTakes
  <2>1. wsIn # <<>> /\ wsIn' = Tail(wsIn) /\ told' = told
    BY <1>7 DEF UpTakes
  <2>2. Len(wsIn') = Len(wsIn) - 1 /\ Head(wsIn) \in Nat
    BY <1>2, <2>1, TailAt
  <2>3. tcp = "open"
    BY <1>1, <1>7 DEF UpTakes, Phases, UpCut
  <2>4. CASE z = 1
    <3>1. Head(wsIn) = 0 /\ Run(wsIn', Len(heard), 0)
      BY <1>2, <1>3, <2>1, <2>4, RunTakes
    <3>2. heard' = heard
      BY <1>7, <3>1 DEF UpTakes
    <3>3. Len(heard') <= Len(told') /\ Len(wsIn') = Len(told') - Len(heard') + 0
      BY <1>2, <1>3, <2>1, <2>2, <2>4, <3>2
    <3> QED BY <3>1, <3>2, <3>3 DEF UpQueue
  <2>5. CASE z = 0
    <3>1. Head(wsIn) = Len(heard) + 1 /\ Run(wsIn', Len(heard) + 1, 0)
      BY <1>2, <1>3, <2>1, <2>5, RunTakes
    <3>2. Head(wsIn) # 0
      BY <1>2, <3>1
    <3>3. heard' = Append(heard, Head(wsIn))
      BY <1>7, <2>3, <3>2 DEF UpTakes
    <3>4. Len(heard') = Len(heard) + 1
      BY <1>2, <2>2, <3>3, AppendAt
    <3>5. Len(wsIn) # 0
      BY <1>2, <2>1
    <3>6. Len(heard') <= Len(told') /\ Len(wsIn') = Len(told') - Len(heard') + 0
      BY <1>2, <1>3, <2>1, <2>2, <2>5, <3>4, <3>5
    <3> QED BY <3>1, <3>4, <3>6 DEF UpQueue
  <2> QED BY <2>4, <2>5
<1> QED
  BY <1>4, <1>5, <1>6, <1>7, PipeSteps DEF RelaySpeaks, RelayResets, DownReads, DownSends, pipes

-----------------------------------------------------------------------------
(* The way to the client.                                                  *)

LEMMA DownStep == HopInv /\ [Next]_vars => DownQueue'
<1> SUFFICES ASSUME HopInv, [Next]_vars, ws' = "open" PROVE DownQueue'
  BY DEF DownQueue
<1> USE DEF pumpVars, wireVars
<1>1. HopType /\ Phases /\ DownQueue /\ ws = "open"
  BY CutForGood DEF HopInv
<1>2. /\ spoken \in Seq(Nat) /\ shown \in Seq(Nat) /\ tcpIn \in Seq(Nat)
      /\ Len(spoken) \in Nat /\ Len(shown) \in Nat /\ Len(tcpIn) \in Nat
      /\ DOMAIN tcpIn = 1..Len(tcpIn) /\ Held \in {0, 1}
  BY <1>1 DEF HopType, Held
<1>3. /\ down = "send" => framed = Len(shown) + 1
      /\ Len(shown) + Held + Len(tcpIn) <= Len(spoken)
      /\ tcp \in {"none", "open"} => Len(shown) + Held + Len(tcpIn) = Len(spoken)
      /\ Run(tcpIn, Len(shown) + Held, 0)
  BY <1>1 DEF DownQueue
<1>4. ASSUME UNCHANGED <<spoken, shown, tcpIn, framed>>, Held' = Held,
             down' = "send" => down = "send",
             tcp' \in {"none", "open"} => tcp \in {"none", "open"}
      PROVE  DownQueue'
  BY <1>3, <1>4 DEF DownQueue
<1>5. CASE RelaySpeaks
  <2>1. /\ spoken' = Append(spoken, Len(spoken) + 1) /\ tcpIn' = Append(tcpIn, Len(spoken) + 1)
    BY <1>5 DEF RelaySpeaks
  <2>6. tcp = "open" /\ UNCHANGED <<shown, down, framed, tcp>> /\ Held' = Held
    BY <1>5 DEF RelaySpeaks, Held
  <2>2. Len(spoken') = Len(spoken) + 1 /\ Len(tcpIn') = Len(tcpIn) + 1
    BY <1>2, <2>1, AppendAt
  <2>3. Len(spoken) + 1 = (Len(shown) + Held) + Len(tcpIn) + 1 - 0 /\ Len(shown) + Held \in Nat
    BY <1>2, <1>3, <2>6
  <2>4. Run(tcpIn', Len(shown) + Held, 0)
    BY <1>2, <1>3, <2>1, <2>3, RunGrows
  <2>5. Len(shown') + Held' + Len(tcpIn') = Len(spoken') /\ Len(spoken') \in Nat
    BY <1>2, <1>3, <2>2, <2>6
  <2> QED BY <1>3, <2>4, <2>5, <2>6 DEF DownQueue
<1>6. CASE RelayResets
  <2>1. /\ tcpIn' = <<>> /\ Len(tcpIn') = 0 /\ tcp' = "reset"
        /\ UNCHANGED <<spoken, shown, down, framed>> /\ Held' = Held
    BY <1>6 DEF RelayResets, Held
  <2>2. Run(tcpIn', Len(shown') + Held', 0)
    BY <1>2, <2>1, RunEmpty
  <2>3. Len(shown') + Held' + Len(tcpIn') <= Len(spoken')
    BY <1>2, <1>3, <2>1
  <2> QED BY <1>3, <2>1, <2>2, <2>3 DEF DownQueue
<1>7. CASE DownReads
  <2>1. /\ tcpIn # <<>> /\ tcpIn' = Tail(tcpIn) /\ framed' = Head(tcpIn) /\ Held = 0 /\ Held' = 1
        /\ UNCHANGED <<spoken, shown, tcp>>
    BY <1>7 DEF DownReads, Held
  <2>2. Len(tcpIn') = Len(tcpIn) - 1
    BY <1>2, <2>1, TailAt
  <2>3. /\ framed' = (Len(shown) + Held) + 1
        /\ Run(tcpIn', (Len(shown) + Held) + 1, 0)
    BY <1>2, <1>3, <2>1, RunTakes
  <2>4. Len(shown) + Held + 1 = Len(shown') + Held' /\ framed' = Len(shown') + 1
    BY <1>2, <2>1, <2>3
  <2>5. Len(shown') + Held' + Len(tcpIn') = Len(shown) + Held + Len(tcpIn)
    BY <1>2, <2>1, <2>2
  <2> QED BY <1>3, <2>1, <2>3, <2>4, <2>5 DEF DownQueue
<1>8. CASE DownSends
  <2>1. /\ shown' = Append(shown, framed) /\ Held = 1 /\ Held' = 0 /\ down' # "send"
        /\ UNCHANGED <<spoken, tcpIn, tcp>>
    BY <1>1, <1>8 DEF DownSends, Held
  <2>2. framed \in Nat
    BY <1>1 DEF HopType
  <2>3. Len(shown') = Len(shown) + 1
    BY <1>2, <2>1, <2>2, AppendAt
  <2>4. Len(shown') + Held' = Len(shown) + Held
    BY <1>2, <2>1, <2>3
  <2> QED BY <1>3, <2>1, <2>4 DEF DownQueue
<1>9. CASE Dial
  <2>1. /\ UNCHANGED <<spoken, shown, tcpIn, framed>> /\ tcp = "none"
        /\ down = "idle" /\ down' # "send"
    BY <1>1, <1>9 DEF Dial, Phases
  <2> QED BY <1>4, <2>1 DEF Held
<1> QED
  BY <1>4, <1>5, <1>6, <1>7, <1>8, <1>9 DEF Next, Peers, ClientSends, ClientCloses, ClientVanishes,
     RelayCloses, Up, UpTakes, UpEnds, UpDrains, Down, DownEnds, Handle, Finally,
     HandleEnds, PostArrives, Show, vars, Held, Ended

-----------------------------------------------------------------------------
(* The theorems.                                                           *)

LEMMA InitHops == Init => HopInv
<1> SUFFICES ASSUME Init PROVE HopInv
  OBVIOUS
<1>1. /\ told = <<>> /\ heard = <<>> /\ spoken = <<>> /\ shown = <<>> /\ wsIn = <<>>
      /\ tcpIn = <<>> /\ framed = 0 /\ tcp = "none" /\ up = "idle" /\ down = "idle"
      /\ Len(<<>>) = 0 /\ handler = "dial"
  BY DEF Init
<1>2. HopType /\ Phases
  BY <1>1 DEF HopType, Phases
<1>3. Numbered /\ Held = 0
  BY <1>1 DEF Numbered, Held
<1>4. UpQueue
  BY <1>1, RunEmpty DEF UpQueue
<1>5. DownQueue
  BY <1>1, <1>3, RunEmpty DEF DownQueue
<1> QED BY <1>2, <1>3, <1>4, <1>5 DEF HopInv

LEMMA HopsAlways == Spec => []HopInv
<1>1. HopInv /\ [Next]_vars => HopInv'
  BY PhasesStep, PipesTyped, UpStep, DownStep DEF HopInv
<1> QED BY InitHops, <1>1, PTL DEF Spec

\* A step of the proxy is a step of the way to the relay, or leaves it alone.
LEMMA UpRefines == HopInv /\ [Next]_vars => [ToRelay!Next]_<<told, heard, UpCut>>
<1> SUFFICES ASSUME HopInv, [Next]_vars
             PROVE  ToRelay!Next \/ UNCHANGED <<told, heard, UpCut>>
  OBVIOUS
<1> USE DEF pumpVars, wireVars
<1>1. HopType /\ Phases /\ Numbered /\ UpQueue
  BY DEF HopInv
<1>2. UpCut \in BOOLEAN /\ UpCut' \in BOOLEAN
  BY DEF UpCut
<1>3. CASE UNCHANGED <<told, heard>>
  BY <1>2, <1>3, CutForGood DEF ToRelay!Next, ToRelay!Cut
<1>4. CASE ClientSends /\ told' = Append(told, Len(told) + 1)
  <2>1. Len(told') = Len(told) + 1 /\ SubSeq(told', 1, Len(told)) = told
    BY <1>1, <1>4, NumberNext DEF HopType, Numbered
  <2>2. heard' = heard /\ UpCut' = UpCut
    BY <1>4 DEF ClientSends, UpCut
  <2> QED BY <2>1, <2>2 DEF ToRelay!Next, ToRelay!Send
<1>5. CASE UpTakes /\ heard' = Append(heard, Head(wsIn)) /\ tcp = "open" /\ Head(wsIn) # 0
  <2>1. ~UpCut /\ UpCut' = UpCut /\ told' = told /\ wsIn # <<>>
    BY <1>1, <1>5 DEF UpTakes, UpCut, Phases
  <2>2. PICK z \in {0, 1} :
          /\ Len(heard) <= Len(told) /\ Len(wsIn) = Len(told) - Len(heard) + z
          /\ Run(wsIn, Len(heard), z)
    BY <1>1, <2>1 DEF UpQueue
  <2>3. /\ told \in Seq(Nat) /\ Len(heard) \in Nat /\ Len(told) \in Nat /\ wsIn \in Seq(Nat)
        /\ DOMAIN told = 1..Len(told) /\ Len(wsIn) \in Nat \ {0}
    BY <1>1, <2>1, EmptySeq DEF HopType
  <2>4. z = 0 /\ Head(wsIn) = Len(heard) + 1
    BY <1>5, <2>1, <2>2, <2>3, RunTakes
  <2>5. Len(heard) < Len(told) /\ Len(heard) + 1 \in DOMAIN told
    BY <2>2, <2>3, <2>4
  <2>6. told[Len(heard) + 1] = Head(wsIn)
    BY <1>1, <2>4, <2>5 DEF Numbered
  <2> QED BY <1>5, <2>1, <2>5, <2>6 DEF ToRelay!Next, ToRelay!Deliver
<1> QED
  BY <1>3, <1>4, <1>5, PipeSteps DEF ClientSends, ClientVanishes, RelaySpeaks, RelayResets, UpTakes,
     DownReads, DownSends, pipes

\* And so for the way to the client.
LEMMA DownRefines == HopInv /\ [Next]_vars => [ToClient!Next]_<<spoken, shown, DownCut>>
<1> SUFFICES ASSUME HopInv, [Next]_vars
             PROVE  ToClient!Next \/ UNCHANGED <<spoken, shown, DownCut>>
  OBVIOUS
<1> USE DEF pumpVars, wireVars
<1>1. HopType /\ Phases /\ Numbered /\ DownQueue
  BY DEF HopInv
<1>2. DownCut \in BOOLEAN /\ DownCut' \in BOOLEAN
  BY DEF DownCut
<1>3. CASE UNCHANGED <<spoken, shown>>
  BY <1>2, <1>3, CutForGood DEF ToClient!Next, ToClient!Cut
<1>4. CASE RelaySpeaks
  <2>1. spoken' = Append(spoken, Len(spoken) + 1)
    BY <1>4 DEF RelaySpeaks
  <2>2. Len(spoken') = Len(spoken) + 1 /\ SubSeq(spoken', 1, Len(spoken)) = spoken
    BY <1>1, <2>1, NumberNext DEF HopType, Numbered
  <2>3. shown' = shown /\ DownCut' = DownCut
    BY <1>4 DEF RelaySpeaks, DownCut
  <2> QED BY <2>2, <2>3 DEF ToClient!Next, ToClient!Send
<1>5. CASE DownSends /\ ws = "open"
  <2>1. /\ shown' = Append(shown, framed) /\ spoken' = spoken /\ Held = 1 /\ down = "send"
        /\ ~DownCut /\ ~DownCut'
    BY <1>5 DEF DownSends, Held, DownCut, Ended
  <2>2. /\ Len(shown) \in Nat /\ Len(spoken) \in Nat /\ Len(tcpIn) \in Nat
        /\ DOMAIN spoken = 1..Len(spoken)
    BY <1>1 DEF HopType
  <2>3. framed = Len(shown) + 1 /\ Len(shown) + 1 + Len(tcpIn) <= Len(spoken)
    BY <1>1, <1>5, <2>1 DEF DownQueue
  <2>4. Len(shown) < Len(spoken) /\ Len(shown) + 1 \in DOMAIN spoken
    BY <2>2, <2>3
  <2>5. spoken[Len(shown) + 1] = framed
    BY <1>1, <2>3, <2>4 DEF Numbered
  <2> QED BY <1>2, <2>1, <2>4, <2>5 DEF ToClient!Next, ToClient!Deliver
<1> QED
  BY <1>3, <1>4, <1>5, PipeSteps DEF ClientSends, ClientVanishes, RelayResets, UpTakes, DownReads,
     DownSends, pipes

\* Both directions of the proxy implement what FrameChannel promises to be safe:
\* frames come out whole, in order and once until the hop is cut, which is for good;
\* for any number of messages, any failure on either side, and any fate of the posts.
THEOREM ProxyImplementsChannels == Spec => ToRelay!Safe /\ ToClient!Safe
<1>1. Init => ToRelay!Init /\ ToClient!Init
  BY DEF Init, ToRelay!Init, ToClient!Init, UpCut, DownCut, Ended
<1> QED
  BY HopsAlways, <1>1, UpRefines, DownRefines, PTL DEF Spec, ToRelay!Safe, ToClient!Safe

\* Every step is a step of the console, or leaves it alone.
LEMMA ConsoleMoves == [Next]_vars => Insert \/ Browse \/ UNCHANGED consoleVars
BY DEF Next, Peers, ClientSends, ClientCloses, ClientVanishes, RelaySpeaks, RelayCloses,
   RelayResets, Up, UpTakes, UpEnds, UpDrains, Down, DownReads, DownEnds, DownSends,
   Handle, Dial, Finally, HandleEnds, Emit, PostArrives, Show, vars, pumpVars, wireVars

\* RowsInOrder: whichever executor thread's post comes first, and however the page's
\* stream breaks, its rows are rows of the table in order, none twice.
THEOREM RowsAlwaysInOrder == Spec => []RowsInOrder
<1>1. Init => ConsoleInv
  BY ConsoleStart DEF Init
<1>2. [Next]_vars => Insert \/ Browse \/ UNCHANGED consoleVars
  BY ConsoleMoves
<1>3. ConsoleInv /\ [Next]_vars => ConsoleInv'
  BY <1>2, ConsoleStep
<1> QED BY <1>1, <1>3, ConsoleOrder, PTL DEF Spec

-----------------------------------------------------------------------------
(* The types.                                                              *)

\* A pump that sends has a frame in its hand.
ProxyType == TypeOK /\ (down = "send" => framed # 0)

\* What the types say of the console, of the pumps, and of the pipes between them.
PipeTypes ==
    /\ wsIn \in Seq(0..MaxMsgs) /\ tcpIn \in Seq(1..MaxMsgs) /\ framed \in 0..MaxMsgs
    /\ told \in Seq(1..MaxMsgs) /\ heard \in Seq(1..MaxMsgs)
    /\ spoken \in Seq(1..MaxMsgs) /\ shown \in Seq(1..MaxMsgs)
    /\ down = "send" => framed # 0

TaskTypes ==
    /\ url \in BOOLEAN /\ handler \in {"dial", "gather", "finally", "done"}
    /\ up \in {"idle", "recv", "drain"} \cup Ended
    /\ down \in {"idle", "read", "send"} \cup Ended
    /\ ws \in {"open", "closed", "broken"}
    /\ tcp \in {"none", "open", "eof", "reset", "shut"}

\* The type invariant is its parts.
LEMMA ProxyTypeParts ==
    ProxyType <=> ConsoleTypeOK /\ TaskTypes /\ PipeTypes /\ posts \in 0..MaxEvents
BY DEF ProxyType, TypeOK, TaskTypes, PipeTypes

\* The tasks, the WebSocket and the connection are in states they have.
LEMMA TasksTyped == TaskTypes /\ [Next]_vars => TaskTypes'
BY DEF TaskTypes, Ended, Next, Peers, ClientSends, ClientCloses, ClientVanishes, RelaySpeaks,
   RelayCloses, RelayResets, Up, UpTakes, UpEnds, UpDrains, Down, DownReads, DownEnds,
   DownSends, Handle, Dial, Finally, HandleEnds, PostArrives, Show, vars, pumpVars, wireVars

\* Posts are made within the bound of events, and each arrives once at most.
LEMMA PostsTyped ==
    ASSUME ConsoleTypeOK, posts \in 0..MaxEvents, [Next]_vars
    PROVE  posts' \in 0..MaxEvents
<1>1. MaxEvents \in Nat /\ stored \in 0..MaxEvents /\ posts \in Nat
  BY ConsoleAssumption DEF ConsoleTypeOK
<1>2. CASE Emit
  <2>1. posts' \in {posts, posts + 1} /\ posts' + stored <= MaxEvents
    BY <1>2 DEF Emit
  <2>2. posts' = posts \/ posts' = posts + 1
    BY <2>1
  <2>3. posts' \in Nat
    BY <1>1, <2>2
  <2>4. posts' <= MaxEvents
    <3>1. stored \in Nat
      BY <1>1
    <3>2. posts' + stored <= MaxEvents
      BY <2>1
    <3>3. \A a, b, c \in Nat : a + b <= c => a <= c
      OBVIOUS
    <3> QED BY <1>1, <2>3, <3>1, <3>2, <3>3
  <2> QED BY <1>1, <2>3, <2>4
<1>3. CASE PostArrives
  BY <1>1, <1>3 DEF PostArrives
<1>4. CASE UNCHANGED posts
  BY <1>4
<1> QED
  BY <1>2, <1>3, <1>4 DEF Next, Peers, ClientSends, ClientCloses, ClientVanishes, RelaySpeaks,
     RelayCloses, RelayResets, Up, UpTakes, UpEnds, UpDrains, Down, DownReads, DownEnds,
     DownSends, Handle, Dial, Finally, HandleEnds, Show, vars, pumpVars, wireVars

\* The sequences the next lemma is about, over any range of numbers.
LEMMA RangeSeq ==
    ASSUME NEW S, NEW s \in Seq(S)
    PROVE  /\ \A e \in S : Append(s, e) \in Seq(S)
           /\ s # <<>> => Tail(s) \in Seq(S) /\ Head(s) \in S
           /\ <<>> \in Seq(S)
BY HeadTailProperties

\* Only the client's 0 is not a number from 1 on, and it is not written to the relay.
LEMMA PipeTypesKept == PipeTypes /\ [Next]_vars => PipeTypes'
<1> SUFFICES ASSUME PipeTypes, [Next]_vars PROVE PipeTypes'
  OBVIOUS
<1>1. /\ wsIn \in Seq(0..MaxMsgs) /\ tcpIn \in Seq(1..MaxMsgs) /\ framed \in 0..MaxMsgs
      /\ told \in Seq(1..MaxMsgs) /\ heard \in Seq(1..MaxMsgs)
      /\ spoken \in Seq(1..MaxMsgs) /\ shown \in Seq(1..MaxMsgs)
      /\ down = "send" => framed # 0
  BY DEF PipeTypes
<1>2. Most \in Nat /\ Most <= MaxMsgs /\ MaxMsgs \in Nat
  BY MsgsAssumption DEF Most
<1>3. CASE ClientSends
  <2>1. Len(told) + 1 \in 1..MaxMsgs /\ Len(told) + 1 \in 0..MaxMsgs /\ 0 \in 0..MaxMsgs
    BY <1>1, <1>2, <1>3 DEF ClientSends
  <2>2. /\ Append(told, Len(told) + 1) \in Seq(1..MaxMsgs)
        /\ Append(wsIn, Len(told) + 1) \in Seq(0..MaxMsgs)
        /\ Append(wsIn, 0) \in Seq(0..MaxMsgs)
    BY <1>1, <2>1, RangeSeq
  <2> QED BY <1>1, <1>3, <2>2 DEF ClientSends, PipeTypes, pumpVars
<1>4. CASE ClientVanishes \/ RelayResets
  BY <1>1, <1>4, RangeSeq DEF ClientVanishes, RelayResets, PipeTypes, pumpVars
<1>5. CASE RelaySpeaks
  <2>1. Len(spoken) + 1 \in 1..MaxMsgs
    BY <1>1, <1>2, <1>5 DEF RelaySpeaks
  <2>2. /\ Append(spoken, Len(spoken) + 1) \in Seq(1..MaxMsgs)
        /\ Append(tcpIn, Len(spoken) + 1) \in Seq(1..MaxMsgs)
    BY <1>1, <2>1, RangeSeq
  <2> QED BY <1>1, <1>5, <2>2 DEF RelaySpeaks, PipeTypes, pumpVars
<1>6. CASE UpTakes
  <2>1. Tail(wsIn) \in Seq(0..MaxMsgs) /\ Head(wsIn) \in 0..MaxMsgs
    BY <1>1, <1>6, RangeSeq DEF UpTakes
  <2>2. heard' \in Seq(1..MaxMsgs)
    <3>1. CASE Head(wsIn) = 0 \/ tcp # "open"
      BY <1>1, <1>6, <3>1 DEF UpTakes
    <3>2. CASE Head(wsIn) # 0 /\ tcp = "open"
      <4>1. Head(wsIn) \in 1..MaxMsgs
        BY <1>2, <2>1, <3>2
      <4>2. Append(heard, Head(wsIn)) \in Seq(1..MaxMsgs)
        BY <1>1, <4>1, RangeSeq
      <4> QED BY <1>6, <3>2, <4>2 DEF UpTakes
    <3> QED BY <3>1, <3>2
  <2> QED BY <1>1, <1>6, <2>1, <2>2 DEF UpTakes, PipeTypes
<1>7. CASE DownReads
  <2>1. Tail(tcpIn) \in Seq(1..MaxMsgs) /\ Head(tcpIn) \in 1..MaxMsgs
    BY <1>1, <1>7, RangeSeq DEF DownReads
  <2>2. framed' \in 0..MaxMsgs /\ framed' # 0
    BY <1>2, <1>7, <2>1 DEF DownReads
  <2> QED BY <1>1, <1>7, <2>1, <2>2 DEF DownReads, PipeTypes
<1>8. CASE DownSends
  <2>1. framed \in 1..MaxMsgs /\ framed' \in 0..MaxMsgs /\ down' # "send"
    BY <1>1, <1>2, <1>8 DEF DownSends
  <2>2. Append(shown, framed) \in Seq(1..MaxMsgs)
    BY <1>1, <2>1, RangeSeq
  <2> QED BY <1>1, <1>8, <2>1, <2>2 DEF DownSends, PipeTypes
<1>9. CASE UNCHANGED <<wsIn, tcpIn, framed, told, heard, spoken, shown>>
           /\ (down' = "send" => down = "send")
  BY <1>1, <1>9 DEF PipeTypes
<1> QED
  BY <1>3, <1>4, <1>5, <1>6, <1>7, <1>8, <1>9 DEF Next, Peers, ClientCloses, RelayCloses, Up,
     UpEnds, UpDrains, Down, DownEnds, Handle, Dial, Finally, HandleEnds, PostArrives, Show,
     vars, pumpVars, wireVars

\* TypeOK: the proxy's pumps, pipes and posts, and the console's queue, rows and pause,
\* keep their types and limits, whatever fails on either side.
THEOREM ProxyTypeCorrect == Spec => []TypeOK
<1>1. Init => ProxyType
  <2> SUFFICES ASSUME Init PROVE ProxyType
    OBVIOUS
  <2>1. ConsoleTypeOK
    BY ConsoleTypeStart DEF Init
  <2>2. TaskTypes
    BY DEF Init, TaskTypes
  <2>3. PipeTypes
    <3>1. /\ wsIn = <<>> /\ tcpIn = <<>> /\ framed = 0 /\ told = <<>> /\ heard = <<>>
          /\ spoken = <<>> /\ shown = <<>> /\ down = "idle"
      BY DEF Init
    <3>2. 0 \in 0..MaxMsgs /\ <<>> \in Seq(0..MaxMsgs) /\ <<>> \in Seq(1..MaxMsgs)
      BY MsgsAssumption
    <3> QED BY <3>1, <3>2 DEF PipeTypes
  <2>4. posts \in 0..MaxEvents
    <3>1. posts \in 0..SmallOf(1, MaxEvents) \/ posts = 0
      BY DEF Init
    <3> QED BY <3>1, ConsoleAssumption DEF SmallOf
  <2> QED BY <2>1, <2>2, <2>3, <2>4, ProxyTypeParts
<1>2. ProxyType /\ [Next]_vars => ProxyType'
  <2> SUFFICES ASSUME ProxyType, [Next]_vars PROVE ProxyType'
    OBVIOUS
  <2>1. ConsoleTypeOK /\ TaskTypes /\ PipeTypes /\ posts \in 0..MaxEvents
    BY ProxyTypeParts
  <2>2. ConsoleTypeOK' /\ TaskTypes' /\ PipeTypes' /\ posts' \in 0..MaxEvents
    BY <2>1, ConsoleMoves, ConsoleTypeStep, TasksTyped, PipeTypesKept, PostsTyped
  <2> QED BY <2>2 DEF ProxyType, TypeOK, TaskTypes, PipeTypes
<1>3. ProxyType => TypeOK
  BY DEF ProxyType
<1> QED BY <1>1, <1>2, <1>3, PTL DEF Spec

=============================================================================

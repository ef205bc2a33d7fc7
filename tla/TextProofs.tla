----------------------------- MODULE TextProofs -----------------------------
(***************************************************************************)
(* Proofs about Text: what is typed and what is answered, whatever its     *)
(* length, on a screen of any size.                                        *)
(*                                                                         *)
(* The folds of Tokens and PageLayout are unrolled into functions of the   *)
(* prefix (ReadFold, SplitFold, PlaceFold, AddRowsFold, EntriesFold,       *)
(* JoinFold), about which NatSet does the induction.  What they compute is *)
(* said by relations between an input and an output that name the places   *)
(* where the one is in the other: Parted (the words of a line), Cut (the   *)
(* rows of a line), Strung (a flattened sequence), Sheets (the pages of an *)
(* entry), LaidOut (the pages of a reply).  IsLayout puts them together    *)
(* without the state, so that TextInv survives the steps that leave the    *)
(* grid and the reply alone.  From the plan of a layout follow the rows    *)
(* (RowOrder), the cells (CellHasSpot, CharHasSpot) and the properties.    *)
(***************************************************************************)
EXTENDS Text, SequenceTheorems, WellFoundedInduction, TLAPS

\* An element of a sequence.
LEMMA ElementIs ==
    ASSUME NEW T, NEW s \in Seq(T), NEW n, Len(s) = n, NEW i \in 1..n
    PROVE  s[i] \in T
OBVIOUS

\* A set of numbers that holds 0 and the successor of each of its members.
LEMMA NatSet ==
    ASSUME NEW S, 0 \in S, \A n \in Nat : n \in S => n + 1 \in S
    PROVE  \A n \in Nat : n \in S
<1> DEFINE T == Nat \ S
           R == OpToRel(<, Nat)
<1>1. SUFFICES ASSUME T # {} PROVE FALSE
  OBVIOUS
<1>2. IsWellFoundedOn(R, Nat)
  BY NatLessThanWellFounded
<1>3. PICK x \in T : \A y \in T : ~(<<y, x>> \in R)
  <2> HIDE DEF R
  <2>1. T \subseteq Nat
    OBVIOUS
  <2> QED BY <1>1, <1>2, <2>1, WFMin
<1>4. x # 0 /\ x \in Nat
  OBVIOUS
<1>5. x - 1 \in Nat /\ x - 1 < x /\ x = (x - 1) + 1
  BY <1>4
<1>6. <<x - 1, x>> \in R
  BY <1>4, <1>5 DEF OpToRel
<1>7. x - 1 \in S
  BY <1>3, <1>5, <1>6
<1> QED BY <1>4, <1>5, <1>7

\* The largest member of a set, when one is known.
LEMMA MaxIs ==
    ASSUME NEW S \in SUBSET Nat, NEW m \in S, \A y \in S : m >= y
    PROVE  Max(S) = m
<1>1. ASSUME NEW x \in S, \A y \in S : x >= y PROVE x = m
  <2>1. x >= m /\ m >= x /\ x \in Nat /\ m \in Nat
    BY <1>1
  <2> QED BY <2>1
<1>2. Max(S) = CHOOSE x \in S : \A y \in S : x >= y
  BY DEF Max
<1> QED BY <1>1, <1>2

\* The largest member of a set that has the last number of an interval.
LEMMA MaxOfInitial ==
    ASSUME NEW k \in Nat, NEW S \in SUBSET (1..(k + 1)), k + 1 \in S
    PROVE  Max(S) = k + 1
<1>1. S \in SUBSET Nat /\ \A y \in S : k + 1 >= y
  OBVIOUS
<1> QED BY <1>1, MaxIs

\* The largest of some places is one of them.
LEMMA MaxOfPlaces ==
    ASSUME NEW n \in Nat
    PROVE  /\ \A S \in SUBSET (1..n) : S # {} => Max(S) \in S /\ \A y \in S : Max(S) >= y
           /\ \A i \in 1..n : Max(1..i) = i
<1> DEFINE Found == {k \in Nat : \A S \in SUBSET (1..k) : S # {} =>
                        \E m \in S : \A y \in S : m >= y}
<1>1. 0 \in Found
  <2>1. \A S \in SUBSET (1..0) : S = {}
    OBVIOUS
  <2> QED BY <2>1
<1>2. ASSUME NEW k \in Nat, k \in Found PROVE k + 1 \in Found
  <2> SUFFICES ASSUME NEW S \in SUBSET (1..(k + 1)), S # {}
               PROVE  \E m \in S : \A y \in S : m >= y
    OBVIOUS
  <2>1. CASE k + 1 \in S
    BY <2>1
  <2>2. CASE k + 1 \notin S
    <3>1. S \in SUBSET (1..k)
      BY <2>2
    <3> QED BY <1>2, <3>1
  <2> QED BY <2>1, <2>2
<1>3. n \in Found
  <2> HIDE DEF Found
  <2> QED BY <1>1, <1>2, NatSet
<1>4. ASSUME NEW S \in SUBSET (1..n), S # {} PROVE Max(S) \in S /\ \A y \in S : Max(S) >= y
  <2>1. PICK m \in S : \A y \in S : m >= y
    BY <1>3, <1>4
  <2>2. Max(S) = m
    BY <2>1, MaxIs
  <2> QED BY <2>1, <2>2
<1>5. ASSUME NEW i \in 1..n PROVE Max(1..i) = i
  <2>1. 1..i \in SUBSET Nat /\ i \in 1..i /\ \A y \in 1..i : i >= y
    OBVIOUS
  <2> QED BY <2>1, MaxIs
<1> QED BY <1>4, <1>5

\* The recursion of FoldLeft, with the step as a function, over the sets of places;
\* and its values on the initial segments, one step each.
IsFold(f, A, n, base, step) ==
    /\ f \in [SUBSET (1..n) -> A]
    /\ \A S \in SUBSET (1..n) :
        f[S] = IF S = {} THEN base ELSE step[<<Max(S), f[S \ {Max(S)}]>>]
IsFoldOver(f, A, n, base, step) ==
    \A S \in SUBSET (1..n) :
        \/ S = {} /\ f[S] = base
        \/ S # {} /\ (f[S \ {Max(S)}] \in A => f[S] = step[<<Max(S), f[S \ {Max(S)}]>>])
IsRun(acc, A, n, base, step, end) ==
    /\ acc \in [0..n -> A] /\ acc[0] = base /\ acc[n] = end
    /\ \A i \in 1..n : acc[i] = step[<<i, acc[i - 1]>>]

\* There is such a recursion.
LEMMA FoldExists ==
    ASSUME NEW A, NEW n \in Nat, NEW base \in A, NEW step \in [(1..n) \X A -> A]
    PROVE  \E f : IsFold(f, A, n, base, step)
<1> DEFINE Good(k, f) ==
              /\ f \in [SUBSET (1..k) -> A]
              /\ \A S \in SUBSET (1..k) :
                   /\ S # {} => Max(S) \in S
                   /\ f[S] = IF S = {} THEN base ELSE step[<<Max(S), f[S \ {Max(S)}]>>]
           Reached == {k \in Nat : k <= n => \E f : Good(k, f)}
<1>1. 0 \in Reached
  <2> DEFINE f == [S \in SUBSET (1..0) |-> base]
  <2>1. SUBSET (1..0) = {{}}
    OBVIOUS
  <2>2. f \in [SUBSET (1..0) -> A] /\ \A S \in SUBSET (1..0) : S = {} /\ f[S] = base
    BY <2>1
  <2> HIDE DEF f
  <2>3. Good(0, f)
    BY <2>2
  <2> QED BY <2>3
<1>2. ASSUME NEW k \in Nat, k \in Reached PROVE k + 1 \in Reached
  <2> HIDE DEF Good
  <2> SUFFICES ASSUME k + 1 <= n PROVE \E f : Good(k + 1, f)
    BY <1>2
  <2>1. PICK f : Good(k, f)
    BY <1>2
  <2> USE DEF Good
  <2> DEFINE m == k + 1
             Val(S) == IF m \in S THEN step[<<m, f[S \ {m}]>>] ELSE f[S]
             g == [S \in SUBSET (1..m) |-> Val(S)]
  <2>2. \A S \in SUBSET (1..m) : S \ {m} \in SUBSET (1..k) /\ (m \notin S => S \in SUBSET (1..k))
    OBVIOUS
  <2>3. m \in 1..n
    OBVIOUS
  <2>4. \A S \in SUBSET (1..k) : f[S] \in A
    BY <2>1
  <2>5. \A S \in SUBSET (1..m) : Val(S) \in A
    <3> TAKE S \in SUBSET (1..m)
    <3>1. CASE m \in S
      <4>1. f[S \ {m}] \in A
        BY <2>2, <2>4
      <4> QED BY <2>3, <3>1, <4>1
    <3>2. CASE m \notin S
      BY <2>2, <2>4, <3>2
    <3> QED BY <3>1, <3>2
  <2> HIDE DEF m
  <2>6. g \in [SUBSET (1..m) -> A] /\ \A S \in SUBSET (1..m) : g[S] = Val(S)
    BY <2>5
  <2> HIDE DEF g
  <2>7. ASSUME NEW S \in SUBSET (1..m)
        PROVE  /\ S # {} => Max(S) \in S
               /\ g[S] = IF S = {} THEN base ELSE step[<<Max(S), g[S \ {Max(S)}]>>]
    <3>1. CASE m \in S
      <4>1. Max(S) = m
        BY <3>1, MaxOfInitial DEF m
      <4>2. S \ {m} \in SUBSET (1..k) /\ S \ {m} \in SUBSET (1..m) /\ m \notin S \ {m}
        BY <2>2
      <4>3. g[S \ {m}] = f[S \ {m}]
        BY <2>6, <4>2
      <4>4. g[S] = step[<<m, f[S \ {m}]>>]
        BY <2>6, <3>1
      <4> QED BY <3>1, <4>1, <4>3, <4>4
    <3>2. CASE m \notin S
      <4>1. S \in SUBSET (1..k) /\ g[S] = f[S]
        BY <2>2, <2>6, <3>2
      <4>2. /\ S # {} => Max(S) \in S
            /\ f[S] = IF S = {} THEN base ELSE step[<<Max(S), f[S \ {Max(S)}]>>]
        BY <2>1, <4>1
      <4>3. g[S \ {Max(S)}] = f[S \ {Max(S)}]
        <5> DEFINE U == S \ {Max(S)}
        <5>1. U \in SUBSET (1..m) /\ m \notin U
          BY <3>2
        <5> HIDE DEF U
        <5>2. g[U] = f[U]
          BY <2>6, <5>1
        <5> QED BY <5>2 DEF U
      <4> QED BY <4>1, <4>2, <4>3
    <3> QED BY <3>1, <3>2
  <2>8. Good(m, g)
    BY <2>6, <2>7
  <2> QED BY <2>8 DEF m
<1>3. n \in Reached
  <2> HIDE DEF Reached
  <2> QED BY <1>1, <1>2, NatSet
<1>4. PICK f : Good(n, f)
  <2> HIDE DEF Good
  <2> QED BY <1>3
<1> QED BY <1>4 DEF IsFold

\* Its values on the initial segments: one step each.
LEMMA FoldChain ==
    ASSUME NEW A, NEW n \in Nat, NEW base \in A, NEW step \in [(1..n) \X A -> A], NEW iter,
           IsFoldOver(iter, A, n, base, step)
    PROVE  \E acc : IsRun(acc, A, n, base, step, iter[1..n])
<1>1. iter[1..0] = base
  <2>1. 1..0 = {} /\ {} \in SUBSET (1..n)
    OBVIOUS
  <2> QED BY <2>1 DEF IsFoldOver
<1>2. ASSUME NEW i \in 1..n, iter[1..(i - 1)] \in A
      PROVE  iter[1..i] = step[<<i, iter[1..(i - 1)]>>]
  <2>1. 1..i \in SUBSET (1..n) /\ 1..i # {} /\ (1..i) \ {i} = 1..(i - 1)
    OBVIOUS
  <2>2. Max(1..i) = i
    BY MaxOfPlaces
  <2> QED BY <1>2, <2>1, <2>2 DEF IsFoldOver
<1>3. \A i \in 0..n : iter[1..i] \in A
  <2> DEFINE Typed == {i \in Nat : i <= n => iter[1..i] \in A}
  <2>1. 0 \in Typed
    BY <1>1
  <2>2. ASSUME NEW i \in Nat, i \in Typed PROVE i + 1 \in Typed
    <3> SUFFICES ASSUME i + 1 <= n PROVE iter[1..(i + 1)] \in A
      OBVIOUS
    <3>1. i + 1 \in 1..n /\ iter[1..i] \in A /\ (i + 1) - 1 = i
      BY <2>2
    <3>2. iter[1..(i + 1)] = step[<<i + 1, iter[1..i]>>]
      BY <1>2, <3>1
    <3> QED BY <3>1, <3>2
  <2> HIDE DEF Typed
  <2>3. \A i \in Nat : i \in Typed
    BY <2>1, <2>2, NatSet
  <2> QED BY <2>3 DEF Typed
<1> DEFINE acc == [i \in 0..n |-> iter[1..i]]
<1>4. acc \in [0..n -> A] /\ \A i \in 0..n : acc[i] = iter[1..i]
  BY <1>3
<1> HIDE DEF acc
<1>5. \A i \in 1..n : i \in 0..n /\ i - 1 \in 0..n
  OBVIOUS
<1>6. \A i \in 1..n : acc[i] = step[<<i, acc[i - 1]>>]
  BY <1>2, <1>3, <1>4, <1>5
<1>7. acc[0] = base /\ acc[n] = iter[1..n]
  BY <1>1, <1>4
<1> QED BY <1>4, <1>6, <1>7 DEF IsRun

\* Induction on the places of a sequence.
LEMMA UpTo ==
    ASSUME NEW n \in Nat, NEW S, 0 \in S, \A i \in 0..(n - 1) : i \in S => i + 1 \in S
    PROVE  \A i \in 0..n : i \in S
<1> DEFINE T == {i \in Nat : i <= n => i \in S}
<1>1. 0 \in T
  OBVIOUS
<1>2. ASSUME NEW i \in Nat, i \in T PROVE i + 1 \in T
  <2> SUFFICES ASSUME i + 1 <= n PROVE i + 1 \in S
    OBVIOUS
  <2>1. i \in 0..(n - 1) /\ i \in S
    BY <1>2
  <2> QED BY <2>1
<1> HIDE DEF T
<1>3. \A i \in Nat : i \in T
  BY <1>1, <1>2, NatSet
<1> QED BY <1>3 DEF T

\* There is a run of any steps.
LEMMA RunExists ==
    ASSUME NEW A, NEW n \in Nat, NEW base \in A, NEW step \in [(1..n) \X A -> A]
    PROVE  \E acc, end : IsRun(acc, A, n, base, step, end)
<1>1. PICK f : IsFold(f, A, n, base, step)
  BY FoldExists
<1>2. IsFoldOver(f, A, n, base, step)
  BY <1>1 DEF IsFold, IsFoldOver
<1> QED BY <1>2, FoldChain

\* FlattenSeq appends one sequence after the other.
LEMMA FlattenIs ==
    ASSUME NEW T, NEW seqs \in Seq(Seq(T))
    PROVE  \E acc \in [0..Len(seqs) -> Seq(T)] :
             /\ acc[0] = <<>> /\ acc[Len(seqs)] = FlattenSeq(seqs)
             /\ \A i \in 1..Len(seqs) : acc[i] = acc[i - 1] \o seqs[i]
<1> DEFINE n == Len(seqs)
           step == [p \in (1..n) \X Seq(T) |-> p[2] \o seqs[p[1]]]
           P(f) == f = [i \in 1..n |-> IF i = 1 THEN seqs[i] ELSE f[i - 1] \o seqs[i]]
           flatten == CHOOSE f : P(f)
<1>1. n \in Nat /\ \A i \in 1..n : seqs[i] \in Seq(T)
  OBVIOUS
<1>2. <<>> \in Seq(T) /\ \A a, b \in Seq(T) : a \o b \in Seq(T)
  OBVIOUS
<1>3. /\ step \in [(1..n) \X Seq(T) -> Seq(T)]
      /\ \A i \in 1..n : \A a \in Seq(T) : step[<<i, a>>] = a \o seqs[i]
  BY <1>1, <1>2
<1>4. FlattenSeq(seqs) = IF n = 0 THEN seqs ELSE flatten[n]
  BY Zenon DEF FlattenSeq
<1> HIDE DEF step, n, flatten
<1>5. PICK acc, end : IsRun(acc, Seq(T), n, <<>>, step, end)
  BY <1>1, <1>2, <1>3, RunExists
<1>6. /\ acc \in [0..n -> Seq(T)] /\ acc[0] = <<>>
      /\ \A i \in 1..n : acc[i] = acc[i - 1] \o seqs[i]
  <2>1. \A i \in 1..n : i - 1 \in 0..n
    BY <1>1
  <2> QED BY <1>3, <1>5, <2>1 DEF IsRun
<1>7. CASE n = 0
  BY <1>4, <1>6, <1>7 DEF n
<1>8. CASE n # 0
  <2> DEFINE g == [i \in 1..n |-> acc[i]]
  <2>1. ASSUME NEW i \in 1..n
        PROVE  g[i] = IF i = 1 THEN seqs[i] ELSE g[i - 1] \o seqs[i]
    <3>1. CASE i = 1
      <4>0. 1 \in 1..n /\ 1 - 1 = 0
        BY <1>1, <1>8
      <4>1. acc[1] = acc[1 - 1] \o seqs[1]
        BY ONLY <1>6, <4>0
      <4>2. <<>> \o seqs[1] = seqs[1]
        BY <1>1, <1>8
      <4> QED BY <1>6, <3>1, <4>0, <4>1, <4>2
    <3>2. CASE i # 1
      <4>1. i - 1 \in 1..n
        BY <1>1, <3>2
      <4>2. acc[i] = acc[i - 1] \o seqs[i]
        BY <1>6
      <4> QED BY <3>2, <4>1, <4>2
    <3> QED BY <3>1, <3>2
  <2>2. P(flatten)
    <3>1. P(g)
      BY <2>1
    <3> HIDE DEF P
    <3> QED BY <3>1 DEF flatten
  <2>3. flatten = [i \in 1..n |-> IF i = 1 THEN seqs[i] ELSE flatten[i - 1] \o seqs[i]]
    BY <2>2
  <2> HIDE DEF P
  <2>4. \A i \in 1..n : flatten[i] = IF i = 1 THEN seqs[i] ELSE flatten[i - 1] \o seqs[i]
    BY ONLY <2>3
  <2> DEFINE S == {i \in Nat : i > 0 => flatten[i] = acc[i]}
  <2>5. 0 \in S
    OBVIOUS
  <2>6. ASSUME NEW i \in 0..(n - 1), i \in S PROVE i + 1 \in S
    <3>0. i + 1 \in 1..n /\ (i + 1) - 1 = i /\ i + 1 \in Nat
      BY <1>1
    <3>1. CASE i = 0
      <4>1. 1 \in 1..n
        BY <3>0, <3>1
      <4>2. acc[1] = g[1]
        BY <4>1
      <4>3. g[1] = seqs[1]
        BY <2>1, <4>1
      <4>4. flatten[1] = seqs[1]
        BY ONLY <2>4, <4>1
      <4> QED BY <3>1, <4>2, <4>3, <4>4
    <3>2. CASE i # 0
      <4>1. flatten[i + 1] = flatten[i] \o seqs[i + 1]
        <5>1. i + 1 # 1
          BY <3>2
        <5>2. flatten[i + 1] = flatten[(i + 1) - 1] \o seqs[i + 1]
          BY ONLY <2>4, <3>0, <5>1
        <5> QED BY ONLY <3>0, <5>2
      <4>2. acc[i + 1] = acc[i] \o seqs[i + 1]
        BY <1>6, <3>0
      <4>3. flatten[i] = acc[i]
        BY <2>6, <3>2
      <4> QED BY <3>0, <4>1, <4>2, <4>3
    <3> QED BY <3>1, <3>2
  <2> HIDE DEF S
  <2>7. \A i \in 0..n : i \in S
    BY <1>1, <2>5, <2>6, UpTo
  <2>8. flatten[n] = acc[n]
    BY <1>1, <1>8, <2>7 DEF S
  <2> QED BY <1>4, <1>6, <1>8, <2>8 DEF n
<1> QED BY <1>7, <1>8

\* A pair is its two members, one after the other.
LEMMA PairIs ==
    ASSUME NEW a, NEW b
    PROVE  <<a>> \o <<b>> = <<a, b>>
<1> DEFINE s == <<a>>
           t == <<b>>
           u == <<a, b>>
           T == {a, b}
<1>1. s \in Seq(T) /\ t \in Seq(T) /\ u \in Seq(T)
  OBVIOUS
<1>2. Len(s) = 1 /\ Len(t) = 1 /\ Len(u) = 2 /\ s[1] = a /\ t[1] = b /\ u[1] = a /\ u[2] = b
  OBVIOUS
<1> HIDE DEF s, t, u, T
<1>3. /\ s \o t \in Seq(T) /\ Len(s \o t) = 2
      /\ \A i \in 1..2 : (s \o t)[i] = IF i <= 1 THEN s[i] ELSE t[i - 1]
  BY <1>1, <1>2, ConcatProperties
<1>4. \A i \in 1..2 : (s \o t)[i] = u[i]
  BY <1>2, <1>3
<1>5. s \o t = u
  BY <1>1, <1>2, <1>3, <1>4, SeqEqual
<1> QED BY <1>5 DEF s, t, u

Pieces == Bytes \cup {"*", "?"}
Reading == [out : Seq(Pieces), last : Pieces \cup {"none"}, lead : LeadBytes \cup {"none"}]
ReadStart == [out |-> <<>>, last |-> "none", lead |-> "none"]

\* Showing a token leaves the decoder in no two-byte token.
LEMMA EmitType ==
    ASSUME NEW m, NEW acc \in Reading, NEW piece \in Pieces
    PROVE  Emit(m, acc, piece) \in Reading /\ Emit(m, acc, piece).lead = "none"
<1>1. acc.out \in Seq(Pieces)
  BY DEF Reading
<1>2. <<"*">> \in Seq(Pieces) /\ <<>> \in Seq(Pieces) /\ <<piece>> \in Seq(Pieces)
  BY DEF Pieces
<1> DEFINE star == IF Starred(m, acc.last, piece) THEN <<"*">> ELSE <<>>
<1>3. star \in Seq(Pieces)
  BY <1>2
<1> HIDE DEF star
<1>4. acc.out \o star \o <<piece>> \in Seq(Pieces)
  BY <1>1, <1>2, <1>3
<1> QED BY <1>4 DEF Emit, Reading, star

\* A byte keeps the decoder's state a state of its kind.
LEMMA ReadType ==
    ASSUME NEW m, NEW acc \in Reading, NEW b \in Bytes
    PROVE  Read(m, acc, b) \in Reading
<1>1. OneBytePiece(b) \in Pieces /\ TwoBytePiece(acc.lead, b) \in Pieces
  <2>1. acc.lead \in LeadBytes \cup {"none"}
    BY DEF Reading
  <2>2. TwoBytePiece(acc.lead, b) \in LeadBytes \cup {"?"}
    BY <2>1 DEF TwoBytePiece, Table
  <2> QED BY <2>2 DEF OneBytePiece, Pieces, Bytes
<1>2. b \in LeadBytes => [acc EXCEPT !.lead = b] \in Reading
  BY DEF Reading
<1> QED BY <1>1, <1>2, EmitType DEF Read

ReadAll(m, s) == FoldLeft(LAMBDA a, b : Read(m, a, b), ReadStart, s)

\* tokens_to_ascii, as the states of its decoder after each byte.
LEMMA ReadFold ==
    ASSUME NEW m, NEW s \in Seq(Bytes)
    PROVE  \E acc \in [0..Len(s) -> Reading] :
             /\ acc[0] = ReadStart
             /\ \A i \in 1..Len(s) : acc[i] = Read(m, acc[i - 1], s[i])
             /\ ReadAll(m, s) = acc[Len(s)]
<1> DEFINE n == Len(s)
           P(f) == f = [S \in SUBSET DOMAIN s |->
                         IF S = {} THEN ReadStart
                         ELSE Read(m, f[S \ {Max(S)}], s[Max(S)])]
           iter == CHOOSE f : P(f)
           step == [p \in (1..n) \X Reading |-> Read(m, p[2], s[p[1]])]
<1>1. ReadAll(m, s) = iter[DOMAIN s]
  BY Zenon DEF ReadAll, FoldLeft, MapThenFoldSet
<1>2. n \in Nat /\ DOMAIN s = 1..n /\ \A i \in 1..n : s[i] \in Bytes
  OBVIOUS
<1>3. ReadStart \in Reading
  BY DEF ReadStart, Reading, Pieces
<1>4. /\ step \in [(1..n) \X Reading -> Reading]
      /\ \A i \in 1..n : \A a \in Reading : step[<<i, a>>] = Read(m, a, s[i])
  BY <1>2, ReadType
<1> HIDE DEF step, n
<1>5. \E f : P(f)
  <2>1. PICK f : IsFold(f, Reading, n, ReadStart, step)
    <3> HIDE DEF iter, P
    <3> QED BY <1>2, <1>3, <1>4, FoldExists
  <2>2. \A S \in SUBSET (1..n) : S # {} =>
           step[<<Max(S), f[S \ {Max(S)}]>>] = Read(m, f[S \ {Max(S)}], s[Max(S)])
    BY <1>2, <1>4, <2>1, MaxOfPlaces DEF IsFold
  <2>3. f = [S \in SUBSET DOMAIN s |->
                IF S = {} THEN ReadStart ELSE Read(m, f[S \ {Max(S)}], s[Max(S)])]
    BY <1>2, <2>1, <2>2 DEF IsFold
  <2> QED BY <2>3
<1>6. P(iter)
  <2> HIDE DEF P
  <2> QED BY <1>5
<1> HIDE DEF iter
<1>7. IsFoldOver(iter, Reading, n, ReadStart, step)
  <2>1. ASSUME NEW S \in SUBSET (1..n)
        PROVE  iter[S] = IF S = {} THEN ReadStart
                         ELSE Read(m, iter[S \ {Max(S)}], s[Max(S)])
    BY <1>2, <1>6
  <2> HIDE DEF P
  <2>2. \A S \in SUBSET (1..n) : S # {} => Max(S) \in 1..n
    BY <1>2, MaxOfPlaces
  <2> QED BY <1>4, <2>1, <2>2 DEF IsFoldOver
<1>8. PICK acc : IsRun(acc, Reading, n, ReadStart, step, iter[1..n])
  <2> HIDE DEF P
  <2>1. n \in Nat /\ step \in [(1..n) \X Reading -> Reading]
    BY <1>2, <1>4
  <2> QED BY <1>3, <1>7, <2>1, FoldChain
<1>9. \A i \in 1..n : i - 1 \in 0..n
  BY <1>2
<1> QED BY <1>1, <1>2, <1>4, <1>8, <1>9 DEF n, IsRun

\* The prefixes that stand just before a byte, as Starts counts them.
LeadsBefore(bytes, i, k) ==
    /\ k \in 0..(i - 1) /\ \A j \in (i - k)..(i - 1) : bytes[j] \in LeadBytes
    /\ i - k > 1 => bytes[i - k - 1] \notin LeadBytes

\* The bytes before one of a string that can begin a two-byte token.
LEMMA LeadsNext ==
    ASSUME NEW s \in Seq(Bytes), NEW i \in 2..Len(s), NEW k \in Nat
    PROVE  /\ LeadsBefore(s, i, 0) <=> s[i - 1] \notin LeadBytes
           /\ LeadsBefore(s, i, k + 1) <=> s[i - 1] \in LeadBytes /\ LeadsBefore(s, i - 1, k)
<1>1. LeadsBefore(s, i, 0) <=> s[i - 1] \notin LeadBytes
  BY DEF LeadsBefore
<1>2. ASSUME LeadsBefore(s, i, k + 1)
      PROVE  s[i - 1] \in LeadBytes /\ LeadsBefore(s, i - 1, k)
  BY <1>2 DEF LeadsBefore
<1>3. ASSUME s[i - 1] \in LeadBytes, LeadsBefore(s, i - 1, k)
      PROVE  LeadsBefore(s, i, k + 1)
  <2>1. k + 1 \in 0..(i - 1)
    BY <1>3 DEF LeadsBefore
  <2>2. ASSUME NEW j \in (i - (k + 1))..(i - 1) PROVE s[j] \in LeadBytes
    <3>1. CASE j = i - 1
      BY <1>3, <3>1
    <3>2. CASE j # i - 1
      <4>1. j \in ((i - 1) - k)..((i - 1) - 1)
        BY <3>2
      <4> QED BY <1>3, <4>1 DEF LeadsBefore
    <3> QED BY <3>1, <3>2
  <2>3. i - (k + 1) > 1 => s[i - (k + 1) - 1] \notin LeadBytes
    BY <1>3 DEF LeadsBefore
  <2> QED BY <2>1, <2>2, <2>3 DEF LeadsBefore
<1> QED BY <1>1, <1>2, <1>3

\* There is exactly one number of them.
LEMMA LeadsOne ==
    ASSUME NEW s \in Seq(Bytes)
    PROVE  \A i \in 1..Len(s) : \E k \in Nat : \A h \in Nat : LeadsBefore(s, i, h) <=> h = k
<1> DEFINE Right(i) == \E k \in Nat : \A h \in Nat : LeadsBefore(s, i, h) <=> h = k
           S == {i \in Nat : i > 0 => Right(i)}
<1>0. Len(s) \in Nat
  OBVIOUS
<1>1. 0 \in S
  OBVIOUS
<1>2. ASSUME NEW i \in 0..(Len(s) - 1), i \in S PROVE i + 1 \in S
  <2> HIDE DEF Right
  <2> SUFFICES Right(i + 1)
    BY <1>0
  <2>1. CASE i = 0
    <3>1. \A h \in Nat : LeadsBefore(s, 1, h) <=> h = 0
      BY DEF LeadsBefore
    <3> QED BY <2>1, <3>1 DEF Right
  <2>2. CASE i # 0
    <3>1. i + 1 \in 2..Len(s) /\ (i + 1) - 1 = i /\ i > 0
      BY <1>0, <2>2
    <3>2. PICK k \in Nat : \A h \in Nat : LeadsBefore(s, i, h) <=> h = k
      BY <1>2, <3>1 DEF Right
    <3>3. LeadsBefore(s, i + 1, 0) <=> s[i] \notin LeadBytes
      BY <3>1, LeadsNext
    <3>4. \A h \in Nat : LeadsBefore(s, i + 1, h + 1) <=> s[i] \in LeadBytes /\ h = k
      BY <3>1, <3>2, LeadsNext
    <3>5. \A h \in Nat : h = 0 \/ (h - 1 \in Nat /\ h = (h - 1) + 1)
      OBVIOUS
    <3>6. CASE s[i] \in LeadBytes
      <4>1. \A h \in Nat : LeadsBefore(s, i + 1, h) <=> h = k + 1
        BY <3>3, <3>4, <3>5, <3>6
      <4> DEFINE z == k + 1
      <4>2. z \in Nat /\ \A h \in Nat : LeadsBefore(s, i + 1, h) <=> h = z
        BY <4>1
      <4> HIDE DEF z
      <4> QED BY <4>2 DEF Right
    <3>7. CASE s[i] \notin LeadBytes
      <4>1. \A h \in Nat : LeadsBefore(s, i + 1, h) <=> h = 0
        BY <3>3, <3>4, <3>5, <3>7
      <4> DEFINE z == 0
      <4>2. z \in Nat /\ \A h \in Nat : LeadsBefore(s, i + 1, h) <=> h = z
        BY <4>1
      <4> HIDE DEF z
      <4> QED BY <4>2 DEF Right
    <3> QED BY <3>6, <3>7
  <2> QED BY <2>1, <2>2
<1> HIDE DEF S
<1>3. \A i \in 0..Len(s) : i \in S
  BY <1>0, <1>1, <1>2, UpTo
<1>4. \A i \in 1..Len(s) : Right(i)
  <2> HIDE DEF Right
  <2> QED BY <1>0, <1>3 DEF S
<1> QED BY <1>4

\* So a token begins at every byte that no prefix before it consumes.
LEMMA StartsNext ==
    ASSUME NEW s \in Seq(Bytes)
    PROVE  /\ Starts(s) \subseteq 1..Len(s)
           /\ Len(s) > 0 => 1 \in Starts(s)
           /\ \A i \in 2..Len(s) :
                i \in Starts(s) <=> (i - 1 \in Starts(s) => s[i - 1] \notin LeadBytes)
<1>1. \A i \in 1..Len(s) : i \in Starts(s) <=> \E k \in Nat : k % 2 = 0 /\ LeadsBefore(s, i, k)
  <2> SUFFICES ASSUME NEW i \in 1..Len(s)
               PROVE  i \in Starts(s) <=> \E k \in Nat : k % 2 = 0 /\ LeadsBefore(s, i, k)
    OBVIOUS
  <2>1. i \in DOMAIN s
    OBVIOUS
  <2>2. i \in Starts(s) <=> \E k \in 0..(i - 1) : k % 2 = 0 /\ LeadsBefore(s, i, k)
    BY <2>1, Zenon DEF Starts, LeadsBefore
  <2>3. \A k \in Nat : LeadsBefore(s, i, k) => k \in 0..(i - 1)
    BY DEF LeadsBefore
  <2>4. \A k \in 0..(i - 1) : k \in Nat
    OBVIOUS
  <2> QED BY <2>2, <2>3, <2>4
<1>2. Starts(s) \subseteq 1..Len(s)
  BY DEF Starts
<1>3. Len(s) > 0 => 1 \in Starts(s)
  <2>1. LeadsBefore(s, 1, 0) /\ 0 % 2 = 0
    BY DEF LeadsBefore
  <2> QED BY <1>1, <2>1
<1>4. ASSUME NEW i \in 2..Len(s)
      PROVE  i \in Starts(s) <=> (i - 1 \in Starts(s) => s[i - 1] \notin LeadBytes)
  <2>1. i - 1 \in 1..Len(s) /\ i \in 1..Len(s)
    OBVIOUS
  <2>2. PICK k \in Nat : \A h \in Nat : LeadsBefore(s, i - 1, h) <=> h = k
    BY <2>1, LeadsOne
  <2>3. i - 1 \in Starts(s) <=> k % 2 = 0
    BY <1>1, <2>1, <2>2
  <2>4. LeadsBefore(s, i, 0) <=> s[i - 1] \notin LeadBytes
    BY LeadsNext
  <2>5. \A h \in Nat : LeadsBefore(s, i, h + 1) <=> s[i - 1] \in LeadBytes /\ h = k
    BY <2>2, LeadsNext
  <2>6. CASE s[i - 1] \notin LeadBytes
    BY <1>1, <2>1, <2>4, <2>6
  <2>7. CASE s[i - 1] \in LeadBytes
    <3>1. \A h \in Nat : LeadsBefore(s, i, h) <=> h = k + 1
      <4>1. \A h \in Nat : h = 0 \/ (h - 1 \in Nat /\ h = (h - 1) + 1)
        OBVIOUS
      <4> QED BY <2>4, <2>5, <2>7, <4>1
    <3>2. i \in Starts(s) <=> (k + 1) % 2 = 0
      BY <1>1, <2>1, <3>1
    <3>3. (k + 1) % 2 = 0 <=> ~(k % 2 = 0)
      OBVIOUS
    <3> QED BY <2>3, <2>7, <3>2, <3>3
  <2> QED BY <2>6, <2>7
<1> QED BY <1>2, <1>3, <1>4

\* Where the code sees a number go on: its last character and the next are digits.
NumberGoesOn(last, piece) == last \in EndsInDigit \ {"digit"} /\ piece = "digit"

\* "*" is put exactly where values are juxtaposed and no number seems to go on.
LEMMA StarsAreJuxtaposed ==
    ASSUME NEW m, NEW piece \in Pieces
    PROVE  /\ \A last \in Pieces :
                Starred(m, last, piece) <=>
                    Juxtaposed(m, last, piece) /\ ~NumberGoesOn(last, piece)
           /\ ~Starred(m, "none", piece)
<1>1. \A last : IsProducer(m, last) <=>
                    last \in (IF m = "math" THEN ClosesValue ELSE EndsInDigit)
  BY DEF IsProducer, EndsAlnum, EndsInDigit, ClosesValue
<1>2. IsValueStarter(piece) <=> piece \in OpensValue
  BY DEF IsValueStarter, StartsAlnum, OpensValue
<1>3. ~IsProducer(m, "none")
  BY DEF IsProducer, EndsAlnum, EndsInDigit
<1>4. "digit" \in EndsInDigit
  BY DEF EndsInDigit
<1> QED BY <1>1, <1>2, <1>3, <1>4 DEF Starred, Juxtaposed, NumberGoesOn

\* What the code shows of a string: every disputed place is bare.
AsShown(m, s, i) == Shows(m, s, i, Disputed(s))

\* What begins at a byte is a token of one byte or of two.
LEMMA TokenIsPiece ==
    ASSUME NEW s \in Seq(Bytes), NEW i \in 1..Len(s)
    PROVE  TokenAt(s, i) \in Pieces
<1>1. s[i] \in Bytes
  OBVIOUS
<1>2. \A b : TwoBytePiece(s[i], b) \in Bytes \cup {"?"}
  BY <1>1 DEF TwoBytePiece
<1> QED BY <1>1, <1>2 DEF TokenAt, OneBytePiece, Pieces

\* Where the reading of the first i bytes stands: what they show is written, except
\* for a prefix that waits for the next byte.
ReadTo(m, s, shown, acc, i) ==
    /\ i < Len(s) => (i + 1 \in Starts(s) <=> acc.lead = "none")
    /\ acc.lead = "none" =>
        /\ acc.out = shown[i]
        /\ i = 0 => acc.last = "none"
        /\ i > 0 => acc.last = TokenAt(s, IF i \in Starts(s) THEN i ELSE i - 1)
    /\ acc.lead # "none" =>
        /\ i \in Starts(s) /\ acc.lead = s[i] /\ acc.out = shown[i - 1]
        /\ i = 1 => acc.last = "none"
        /\ i > 1 => acc.last = TokenBefore(s, i)

\* A token is written when it is complete.
LEMMA EmitShows ==
    ASSUME NEW m, NEW s \in Seq(Bytes), NEW i \in Starts(s), NEW acc \in Reading,
           i = 1 => acc.last = "none",
           i > 1 => acc.last = TokenBefore(s, i)
    PROVE  Emit(m, acc, TokenAt(s, i)) =
             [out |-> acc.out \o AsShown(m, s, i), last |-> TokenAt(s, i), lead |-> "none"]
<1>1. i \in 1..Len(s)
  BY StartsNext
<1>2. TokenAt(s, i) \in Pieces
  BY <1>1, TokenIsPiece
<1>3. i > 1 => acc.last \in Pieces
  <2> SUFFICES ASSUME i > 1 PROVE TokenBefore(s, i) \in Pieces
    OBVIOUS
  <2>1. i \in 2..Len(s) /\ i - 1 \in 1..Len(s)
    BY <1>1
  <2>2. CASE i - 1 \in Starts(s)
    BY <2>1, <2>2, TokenIsPiece DEF TokenBefore
  <2>3. CASE i - 1 \notin Starts(s)
    <3>1. i - 1 # 1
      BY <2>1, <2>3, StartsNext
    <3>2. i - 2 \in 1..Len(s)
      BY <2>1, <3>1
    <3> QED BY <2>3, <3>2, TokenIsPiece DEF TokenBefore
  <2> QED BY <2>2, <2>3
<1> DEFINE piece == TokenAt(s, i)
           star == IF Starred(m, acc.last, piece) THEN <<"*">> ELSE <<>>
<1> HIDE DEF piece
<1>4. Starred(m, acc.last, piece) <=>
        i > 1 /\ i \notin Disputed(s) /\ Juxtaposed(m, TokenBefore(s, i), piece)
  <2>1. piece \in Pieces
    BY <1>2 DEF piece
  <2>2. CASE i > 1
    <3>1. i \in Disputed(s) <=> NumberGoesOn(TokenBefore(s, i), piece)
      BY <2>2 DEF Disputed, NumberGoesOn, piece
    <3>2. acc.last = TokenBefore(s, i) /\ acc.last \in Pieces
      BY <1>3, <2>2
    <3> QED BY <2>1, <2>2, <3>1, <3>2, StarsAreJuxtaposed
  <2>3. CASE ~(i > 1)
    <3>1. acc.last = "none"
      BY <1>1, <2>3
    <3> QED BY <2>1, <2>3, <3>1, StarsAreJuxtaposed
  <2> QED BY <2>2, <2>3
<1>5. acc.out \in Seq(Pieces)
  BY DEF Reading
<1>6. star \o <<piece>> = AsShown(m, s, i)
  <2>1. AsShown(m, s, i) =
          IF i > 1 /\ i \notin Disputed(s) /\ Juxtaposed(m, TokenBefore(s, i), piece)
          THEN <<"*", piece>> ELSE <<piece>>
    BY Zenon DEF AsShown, Shows, piece
  <2>2. <<"*">> \o <<piece>> = <<"*", piece>> /\ <<>> \o <<piece>> = <<piece>>
    BY PairIs
  <2> QED BY ONLY <1>4, <2>1, <2>2
<1>7. acc.out \o star \o <<piece>> = acc.out \o (star \o <<piece>>)
  <2>0. <<"*">> \in Seq(Pieces) /\ <<>> \in Seq(Pieces) /\ piece \in Pieces
    BY <1>2 DEF piece, Pieces
  <2>1. star \in Seq(Pieces) /\ <<piece>> \in Seq(Pieces)
    BY <2>0
  <2> DEFINE out == acc.out
             one == <<piece>>
  <2>2. out \in Seq(Pieces) /\ star \in Seq(Pieces) /\ one \in Seq(Pieces)
    BY <1>5, <2>1
  <2> HIDE DEF star, out, one
  <2>3. out \o star \o one = out \o (star \o one)
    BY <2>2, ConcatAssociative
  <2> QED BY <2>3 DEF out, one
<1> HIDE DEF star
<1> QED BY <1>6, <1>7 DEF Emit, piece, star

\* A byte more: what has been shown is what is shown of the tokens before it.
LEMMA ReadsOn ==
    ASSUME NEW m, NEW s \in Seq(Bytes), NEW shown, NEW i \in 1..Len(s),
           NEW acc \in Reading, ReadTo(m, s, shown, acc, i - 1),
           shown[i - 1] \in Seq(Pieces), shown[i] = shown[i - 1] \o AsShown(m, s, i),
           i > 1 => shown[i - 1] = shown[i - 2] \o AsShown(m, s, i - 1)
    PROVE  ReadTo(m, s, shown, Read(m, acc, s[i]), i)
<1>0. s[i] \in Bytes /\ i - 1 < Len(s) /\ (i - 1) + 1 = i /\ i - 1 \in Nat
  OBVIOUS
<1>1. CASE acc.lead # "none"
  <2>1. i - 1 \in Starts(s) /\ acc.lead = s[i - 1] /\ acc.out = shown[(i - 1) - 1]
    BY <1>1 DEF ReadTo
  <2>2. i > 1 /\ i - 1 \in 1..Len(s) /\ (i - 1) - 1 = i - 2
    BY <2>1, <1>0, StartsNext
  <2>3. i \notin Starts(s)
    BY <1>0, <1>1 DEF ReadTo
  <2>4. acc.lead \in LeadBytes
    BY <1>1 DEF Reading
  <2>5. TwoBytePiece(acc.lead, s[i]) = TokenAt(s, i - 1)
    BY <1>0, <2>1, <2>2, <2>4 DEF TokenAt
  <2>6. Read(m, acc, s[i]) = [out |-> acc.out \o AsShown(m, s, i - 1),
                              last |-> TokenAt(s, i - 1), lead |-> "none"]
    <3>1. i - 1 = 1 => acc.last = "none"
      BY <1>1 DEF ReadTo
    <3>2. i - 1 > 1 => acc.last = TokenBefore(s, i - 1)
      BY <1>1 DEF ReadTo
    <3> QED BY <1>1, <2>1, <2>5, <3>1, <3>2, EmitShows DEF Read
  <2>7. shown[i] = shown[i - 1]
    <3>1. AsShown(m, s, i) = <<>>
      BY <2>3 DEF AsShown, Shows
    <3> QED BY <3>1
  <2>8. i < Len(s) => i + 1 \in Starts(s)
    <3> SUFFICES ASSUME i < Len(s) PROVE i + 1 \in Starts(s)
      OBVIOUS
    <3>1. i + 1 \in 2..Len(s) /\ (i + 1) - 1 = i
      OBVIOUS
    <3> QED BY <2>3, <3>1, StartsNext
  <2>9. acc.out \o AsShown(m, s, i - 1) = shown[i]
    BY <2>1, <2>2, <2>7
  <2> DEFINE next == Read(m, acc, s[i])
             out == acc.out \o AsShown(m, s, i - 1)
             last == TokenAt(s, i - 1)
  <2>10. next.lead = "none" /\ next.out = shown[i] /\ next.last = TokenAt(s, i - 1)
    <3>1. next = [out |-> out, last |-> last, lead |-> "none"]
      BY <2>6
    <3> HIDE DEF next, out, last
    <3>2. next.lead = "none" /\ next.out = out /\ next.last = last
      BY <3>1
    <3> QED BY <2>9, <3>2 DEF out, last
  <2> HIDE DEF next
  <2>11. ReadTo(m, s, shown, next, i)
    BY ONLY <2>2, <2>3, <2>8, <2>10 DEF ReadTo
  <2> QED BY <2>11 DEF next
<1>2. CASE acc.lead = "none"
  <2>1. i \in Starts(s)
    BY <1>0, <1>2 DEF ReadTo
  <2>2. /\ acc.out = shown[i - 1]
        /\ i = 1 => acc.last = "none"
        /\ i > 1 => acc.last = TokenBefore(s, i)
    <3>1. i > 1 => i - 1 > 0 /\ (i - 1) - 1 = i - 2
      OBVIOUS
    <3> QED BY <1>0, <1>2, <3>1 DEF ReadTo, TokenBefore
  <2>3. i < Len(s) => (i + 1 \in Starts(s) <=> s[i] \notin LeadBytes)
    <3> SUFFICES ASSUME i < Len(s) PROVE i + 1 \in Starts(s) <=> s[i] \notin LeadBytes
      OBVIOUS
    <3>1. i + 1 \in 2..Len(s) /\ (i + 1) - 1 = i
      OBVIOUS
    <3> QED BY <2>1, <3>1, StartsNext
  <2>4. CASE s[i] \in LeadBytes
    <3>1. Read(m, acc, s[i]) = [acc EXCEPT !.lead = s[i]]
      BY <1>2, <2>4 DEF Read
    <3>2. /\ Read(m, acc, s[i]).lead = s[i] /\ Read(m, acc, s[i]).out = acc.out
          /\ Read(m, acc, s[i]).last = acc.last /\ s[i] # "none"
      BY <2>4, <3>1 DEF Reading, LeadBytes
    <3> QED BY <2>1, <2>2, <2>3, <2>4, <3>2 DEF ReadTo
  <2>5. CASE s[i] \notin LeadBytes
    <3>1. TokenAt(s, i) = OneBytePiece(s[i])
      BY <2>5 DEF TokenAt
    <3>2. Read(m, acc, s[i]) = [out |-> acc.out \o AsShown(m, s, i),
                                last |-> TokenAt(s, i), lead |-> "none"]
      BY <1>2, <2>1, <2>2, <2>5, <3>1, EmitShows DEF Read
    <3> QED BY <1>0, <2>1, <2>2, <2>3, <2>5, <3>2 DEF ReadTo
  <2> QED BY <2>4, <2>5
<1> QED BY <1>1, <1>2

\* What tokens_to_ascii makes of a string is what its bytes show.
LEMMA TokensToAsciiShows ==
    ASSUME NEW m, NEW s \in Seq(Bytes)
    PROVE  /\ TokensToAscii(m, s) = FlattenSeq([i \in DOMAIN s |-> AsShown(m, s, i)])
           /\ TokensToAscii(m, s) \in Seq(Pieces)
<1> DEFINE n == Len(s)
           shows == [i \in DOMAIN s |-> AsShown(m, s, i)]
<1>1. n \in Nat /\ DOMAIN s = 1..n /\ \A i \in 1..n : s[i] \in Bytes
  OBVIOUS
<1>2. shows \in Seq(Seq(Pieces)) /\ Len(shows) = n
  <2>1. ASSUME NEW i \in 1..n PROVE AsShown(m, s, i) \in Seq(Pieces)
    <3> DEFINE piece == TokenAt(s, i)
    <3>1. piece \in Pieces /\ "*" \in Pieces
      BY <1>1, TokenIsPiece DEF Pieces
    <3> HIDE DEF piece
    <3>2. /\ <<>> \in Seq(Pieces) /\ <<piece>> \in Seq(Pieces)
          /\ <<"*", piece>> \in Seq(Pieces)
      BY <3>1
    <3> QED BY <3>2 DEF AsShown, Shows, piece
  <2> QED BY <1>1, <2>1
<1>3. \A i \in 1..n : shows[i] = AsShown(m, s, i)
  BY <1>1
<1> HIDE DEF shows, n
<1>4. PICK shown \in [0..n -> Seq(Pieces)] :
        /\ shown[0] = <<>> /\ shown[n] = FlattenSeq(shows)
        /\ \A i \in 1..n : shown[i] = shown[i - 1] \o shows[i]
  BY <1>2, FlattenIs
<1>5. PICK acc \in [0..n -> Reading] :
        /\ acc[0] = ReadStart
        /\ \A i \in 1..n : acc[i] = Read(m, acc[i - 1], s[i])
        /\ ReadAll(m, s) = acc[n]
  BY ReadFold DEF n
<1> DEFINE S == {i \in Nat : ReadTo(m, s, shown, acc[i], i)}
<1>6. 0 \in S
  <2>1. ReadStart.lead = "none" /\ ReadStart.out = <<>> /\ ReadStart.last = "none"
    BY DEF ReadStart
  <2>2. 0 < Len(s) => 0 + 1 \in Starts(s)
    BY StartsNext
  <2> QED BY <1>1, <1>4, <1>5, <2>1, <2>2 DEF ReadTo
<1>7. ASSUME NEW i \in 0..(n - 1), i \in S PROVE i + 1 \in S
  <2>1. /\ i + 1 \in 1..n /\ (i + 1) - 1 = i /\ i \in 0..n /\ i + 1 \in Nat
        /\ i + 1 > 1 => i \in 1..n /\ i - 1 = (i + 1) - 2
    BY <1>1
  <2>2. acc[i] \in Reading /\ shown[i] \in Seq(Pieces)
    BY <1>4, <1>5, <2>1
  <2>3. shown[i + 1] = shown[i] \o AsShown(m, s, i + 1)
    BY ONLY <1>3, <1>4, <2>1
  <2>4. i + 1 > 1 => shown[i] = shown[(i + 1) - 2] \o AsShown(m, s, i)
    BY ONLY <1>3, <1>4, <2>1
  <2>5. acc[i + 1] = Read(m, acc[i], s[i + 1])
    BY <1>5, <2>1
  <2>6. ReadTo(m, s, shown, acc[i], i)
    BY <1>7
  <2>7. ReadTo(m, s, shown, acc[i + 1], i + 1)
    BY <2>1, <2>2, <2>3, <2>4, <2>5, <2>6, ReadsOn DEF n
  <2> QED BY <2>1, <2>7
<1>8. ReadTo(m, s, shown, acc[n], n)
  <2> HIDE DEF S
  <2>1. \A i \in 0..n : i \in S
    BY <1>1, <1>6, <1>7, UpTo
  <2> QED BY <1>1, <2>1 DEF S
<1> DEFINE end == acc[n]
<1>9. end \in Reading
  BY <1>1, <1>5
<1>10. TokensToAscii(m, s) = IF end.lead = "none" THEN end.out ELSE Emit(m, end, "?").out
  BY <1>5, Zenon DEF TokensToAscii, ReadAll, ReadStart
<1>11. CASE end.lead = "none"
  BY <1>4, <1>8, <1>9, <1>10, <1>11 DEF ReadTo, shows, Reading
<1>12. CASE end.lead # "none"
  <2>1. n \in Starts(s) /\ end.lead = s[n] /\ end.out = shown[n - 1]
    BY <1>8, <1>12 DEF ReadTo
  <2>2. n \in 1..n
    BY <2>1, StartsNext DEF n
  <2>3. TokenAt(s, n) = "?"
    BY <1>9, <1>12, <2>1 DEF TokenAt, Reading, n
  <2>4. Emit(m, end, "?").out = end.out \o AsShown(m, s, n)
    <3>1. (n = 1 => end.last = "none") /\ (n > 1 => end.last = TokenBefore(s, n))
      BY <1>8, <1>12 DEF ReadTo
    <3> HIDE DEF end
    <3>2. Emit(m, end, TokenAt(s, n)) =
            [out |-> end.out \o AsShown(m, s, n), last |-> TokenAt(s, n), lead |-> "none"]
      BY <1>9, <2>1, <3>1, EmitShows
    <3> QED BY <2>3, <3>2
  <2>5. shown[n] = shown[n - 1] \o AsShown(m, s, n)
    BY ONLY <1>3, <1>4, <2>2
  <2>6. TokensToAscii(m, s) = shown[n]
    BY <1>10, <1>12, <2>1, <2>4, <2>5
  <2>7. shown[n] \in Seq(Pieces)
    BY <1>1, <1>4
  <2> QED BY ONLY <1>4, <2>6, <2>7 DEF shows
<1> QED BY <1>11, <1>12

\* str.split, one character at a time.
SplitStep(sep, parts, c) ==
    IF c = sep THEN Append(parts, <<>>) ELSE [parts EXCEPT ![Len(parts)] = Append(@, c)]

Partings(T) == {parts \in Seq(Seq(T)) : parts # <<>>}

\* A character keeps the parts of a split sequences of characters.
LEMMA SplitStepType ==
    ASSUME NEW T, NEW sep, NEW parts \in Partings(T), NEW c \in T
    PROVE  SplitStep(sep, parts, c) \in Partings(T)
<1> DEFINE k == Len(parts)
<1>1. parts \in Seq(Seq(T)) /\ k \in 1..Len(parts) /\ parts[k] \in Seq(T)
  BY DEF Partings
<1>2. Append(parts, <<>>) \in Partings(T)
  <2>1. <<>> \in Seq(T)
    OBVIOUS
  <2> QED BY <1>1, <2>1, AppendProperties DEF Partings
<1>3. [parts EXCEPT ![k] = Append(parts[k], c)] \in Partings(T)
  <2> DEFINE e == Append(parts[k], c)
             q == [parts EXCEPT ![k] = e]
  <2>1. e \in Seq(T)
    BY <1>1
  <2> HIDE DEF e, k
  <2>2. q \in Seq(Seq(T)) /\ Len(q) = Len(parts)
    BY <1>1, <2>1, ExceptSeq
  <2>3. q # <<>>
    BY <1>1, <2>2
  <2> QED BY <2>2, <2>3 DEF Partings, e
<1> QED BY <1>2, <1>3 DEF SplitStep

SplitRun(acc, T, s, sep) ==
    /\ acc \in [0..Len(s) -> Partings(T)]
    /\ acc[0] = << <<>> >> /\ acc[Len(s)] = Split(s, sep)
    /\ \A i \in 1..Len(s) : acc[i] = SplitStep(sep, acc[i - 1], s[i])

\* split, as the parts after each character.
LEMMA SplitFold ==
    ASSUME NEW T, NEW sep, NEW s \in Seq(T)
    PROVE  \E acc : SplitRun(acc, T, s, sep)
<1> DEFINE n == Len(s)
           A == Partings(T)
           base == << <<>> >>
           P(f) == f = [S \in SUBSET DOMAIN s |->
                         IF S = {} THEN base
                         ELSE SplitStep(sep, f[S \ {Max(S)}], s[Max(S)])]
           iter == CHOOSE f : P(f)
           step == [p \in (1..n) \X A |-> SplitStep(sep, p[2], s[p[1]])]
<1>1. Split(s, sep) = iter[DOMAIN s]
  BY Zenon DEF Split, FoldLeft, MapThenFoldSet, SplitStep
<1>2. n \in Nat /\ DOMAIN s = 1..n /\ \A i \in 1..n : s[i] \in T
  OBVIOUS
<1>3. base \in A
  BY DEF Partings
<1>4. /\ step \in [(1..n) \X A -> A]
      /\ \A i \in 1..n : \A a \in A : step[<<i, a>>] = SplitStep(sep, a, s[i])
  BY <1>2, SplitStepType
<1> HIDE DEF step, n, A, base
<1>5. P(iter)
  <2> SUFFICES \E f : P(f)
    <3> HIDE DEF P
    <3> QED OBVIOUS
  <2> HIDE DEF iter
  <2>1. PICK f : IsFold(f, A, n, base, step)
    BY <1>2, <1>3, <1>4, FoldExists
  <2>2. \A S \in SUBSET (1..n) : S # {} =>
           step[<<Max(S), f[S \ {Max(S)}]>>] = SplitStep(sep, f[S \ {Max(S)}], s[Max(S)])
    BY <1>2, <1>4, <2>1, MaxOfPlaces DEF IsFold
  <2> QED BY <1>2, <2>1, <2>2 DEF IsFold
<1> HIDE DEF iter
<1>6. IsFoldOver(iter, A, n, base, step)
  <2>1. ASSUME NEW S \in SUBSET (1..n)
        PROVE  iter[S] = IF S = {} THEN base ELSE SplitStep(sep, iter[S \ {Max(S)}], s[Max(S)])
    BY <1>2, <1>5
  <2> HIDE DEF P
  <2>2. \A S \in SUBSET (1..n) : S # {} => Max(S) \in 1..n
    BY <1>2, MaxOfPlaces
  <2> QED BY <1>4, <2>1, <2>2 DEF IsFoldOver
<1> HIDE DEF P
<1>7. PICK acc : IsRun(acc, A, n, base, step, iter[1..n])
  BY <1>2, <1>3, <1>4, <1>6, FoldChain
<1>8. \A i \in 1..n : i - 1 \in 0..n
  BY <1>2
<1>9. /\ acc \in [0..n -> A] /\ acc[0] = base /\ acc[n] = Split(s, sep)
      /\ \A i \in 1..n : acc[i] = SplitStep(sep, acc[i - 1], s[i])
  BY <1>1, <1>2, <1>4, <1>7, <1>8 DEF IsRun
<1> QED BY <1>9 DEF SplitRun, n, A, base

\* The parts of the first m characters: part k follows the place at[k].
Parted(parts, at, s, m, sep) ==
    /\ at \in Seq(Nat) /\ Len(at) = Len(parts) /\ at[1] = 0
    /\ at[Len(parts)] + Len(parts[Len(parts)]) = m
    /\ \A k \in 1..(Len(parts) - 1) : at[k + 1] = at[k] + Len(parts[k]) + 1 /\ s[at[k + 1]] = sep
    /\ \A k \in 1..Len(parts) : \A c \in 1..Len(parts[k]) :
         parts[k][c] = s[at[k] + c] /\ parts[k][c] # sep

\* A character more: the parts are still what is between the separators.
LEMMA SplitStepParted ==
    ASSUME NEW T, NEW sep, NEW s \in Seq(T), NEW m \in 0..(Len(s) - 1),
           NEW parts \in Partings(T), NEW at, Parted(parts, at, s, m, sep)
    PROVE  \E to : Parted(SplitStep(sep, parts, s[m + 1]), to, s, m + 1, sep)
<1> DEFINE k == Len(parts)
           c == s[m + 1]
<1>0. /\ parts \in Seq(Seq(T)) /\ k \in Nat /\ k > 0 /\ m \in Nat /\ m + 1 \in 1..Len(s) /\ c \in T
      /\ at \in Seq(Nat) /\ Len(at) = k
  BY DEF Partings, Parted
<1>1. CASE c = sep
  <2> DEFINE q == Append(parts, <<>>)
             to == Append(at, m + 1)
  <2>1. /\ Len(q) = k + 1 /\ q[k + 1] = <<>> /\ \A i \in 1..k : q[i] = parts[i]
        /\ to \in Seq(Nat) /\ Len(to) = k + 1 /\ to[k + 1] = m + 1 /\ \A i \in 1..k : to[i] = at[i]
    BY <1>0
  <2>2. SplitStep(sep, parts, c) = q
    BY <1>1 DEF SplitStep
  <2> HIDE DEF q, to, c
  <2>3. to[1] = 0
    BY <1>0, <2>1 DEF Parted
  <2>4. Len(<<>>) = 0
    OBVIOUS
  <2>5. ASSUME NEW i \in 1..k
        PROVE  to[i + 1] = to[i] + Len(q[i]) + 1 /\ s[to[i + 1]] = sep
    <3>1. CASE i = k
      <4>1. to[i] = at[k] /\ q[i] = parts[k] /\ to[i + 1] = m + 1
        BY <2>1, <1>0, <3>1
      <4>2. at[k] + Len(parts[k]) = m
        BY <1>0 DEF Parted
      <4> QED BY <1>1, <4>1, <4>2 DEF c
    <3>2. CASE i # k
      <4>1. i \in 1..(k - 1) /\ i \in 1..k /\ i + 1 \in 1..k
        BY <1>0, <3>2
      <4>2. at[i + 1] = at[i] + Len(parts[i]) + 1 /\ s[at[i + 1]] = sep
        BY <4>1 DEF Parted
      <4> QED BY <2>1, <4>1, <4>2
    <3> QED BY <3>1, <3>2
  <2>6. ASSUME NEW i \in 1..(k + 1), NEW j \in 1..Len(q[i])
        PROVE  q[i][j] = s[to[i] + j] /\ q[i][j] # sep
    <3>1. i \in 1..k
      BY <1>0, <2>1, <2>4
    <3>2. j \in 1..Len(parts[i])
      BY <2>1, <3>1
    <3>3. parts[i][j] = s[at[i] + j] /\ parts[i][j] # sep
      BY <1>0, <3>1, <3>2 DEF Parted
    <3> QED BY <2>1, <3>1, <3>3
  <2>7. to[k + 1] + Len(q[k + 1]) = m + 1
    BY <1>0, <2>1, <2>4
  <2>8. (k + 1) - 1 = k
    BY <1>0
  <2>9. Parted(q, to, s, m + 1, sep)
    BY <1>0, <2>1, <2>3, <2>5, <2>6, <2>7, <2>8 DEF Parted
  <2> QED BY <2>2, <2>9 DEF c
<1>2. CASE c # sep
  <2> DEFINE e == Append(parts[k], c)
             q == [parts EXCEPT ![k] = e]
  <2>1. SplitStep(sep, parts, c) = q
    BY <1>2 DEF SplitStep
  <2>2. /\ parts[k] \in Seq(T) /\ e \in Seq(T) /\ Len(e) = Len(parts[k]) + 1
        /\ e[Len(parts[k]) + 1] = c /\ \A j \in 1..Len(parts[k]) : e[j] = parts[k][j]
    BY <1>0
  <2> HIDE DEF e, k, c
  <2>3. /\ Len(q) = k /\ q[k] = e /\ \A i \in 1..k : i # k => q[i] = parts[i]
    BY <1>0, <2>2, ExceptSeq DEF k
  <2> HIDE DEF q
  <2>4. at[k] + Len(parts[k]) = m /\ at[k] \in Nat
    BY <1>0 DEF Parted, k
  <2>5. ASSUME NEW i \in 1..(k - 1)
        PROVE  at[i + 1] = at[i] + Len(q[i]) + 1 /\ s[at[i + 1]] = sep
    <3>1. q[i] = parts[i]
      BY <1>0, <2>3
    <3> QED BY <3>1 DEF Parted, k
  <2>6. ASSUME NEW i \in 1..k, NEW j \in 1..Len(q[i])
        PROVE  q[i][j] = s[at[i] + j] /\ q[i][j] # sep
    <3>1. CASE i = k
      <4>1. q[i] = e /\ j \in 1..(Len(parts[k]) + 1)
        BY <2>2, <2>3, <3>1
      <4>2. CASE j = Len(parts[k]) + 1
        <5>1. at[i] + j = m + 1
          BY <2>2, <2>4, <3>1, <4>2
        <5> QED BY <1>2, <2>2, <4>1, <4>2, <5>1 DEF c
      <4>3. CASE j # Len(parts[k]) + 1
        <5>1. j \in 1..Len(parts[k])
          BY <2>2, <4>1, <4>3
        <5>2. parts[k][j] = s[at[k] + j] /\ parts[k][j] # sep
          BY <5>1, <1>0 DEF Parted, k
        <5> QED BY <2>2, <3>1, <4>1, <5>1, <5>2
      <4> QED BY <4>2, <4>3
    <3>2. CASE i # k
      <4>1. q[i] = parts[i]
        BY <2>3, <3>2
      <4> QED BY <4>1 DEF Parted, k
    <3> QED BY <3>1, <3>2
  <2>7. at[k] + Len(q[k]) = m + 1
    <3> DEFINE a == at[k]
               b == Len(parts[k])
    <3>1. a + b = m /\ a \in Nat /\ b \in Nat /\ Len(q[k]) = b + 1
      BY <2>2, <2>3, <2>4
    <3> HIDE DEF a, b
    <3>2. a + (b + 1) = m + 1
      BY <3>1
    <3> QED BY <3>1, <3>2 DEF a
  <2>8. at[1] = 0
    BY DEF Parted
  <2>9. Parted(q, at, s, m + 1, sep)
    BY <1>0, <2>3, <2>5, <2>6, <2>7, <2>8 DEF Parted
  <2> QED BY <2>1, <2>9 DEF c
<1> QED BY <1>1, <1>2

\* str.split cuts a string at every separator and nowhere else.
LEMMA SplitParted ==
    ASSUME NEW T, NEW sep, NEW s \in Seq(T)
    PROVE  /\ Split(s, sep) \in Seq(Seq(T)) /\ Split(s, sep) # <<>>
           /\ \E at : Parted(Split(s, sep), at, s, Len(s), sep)
<1> DEFINE n == Len(s)
<1>0. PICK acc : SplitRun(acc, T, s, sep)
  BY SplitFold
<1>1. /\ acc \in [0..n -> Partings(T)]
      /\ acc[0] = << <<>> >> /\ acc[n] = Split(s, sep)
      /\ \A i \in 1..n : acc[i] = SplitStep(sep, acc[i - 1], s[i])
  BY <1>0 DEF SplitRun
<1>2. n \in Nat
  OBVIOUS
<1> DEFINE S == {i \in Nat : \E at : Parted(acc[i], at, s, i, sep)}
<1>3. 0 \in S
  <2>1. Parted(<< <<>> >>, <<0>>, s, 0, sep)
    BY DEF Parted
  <2> QED BY <1>1, <2>1
<1>4. ASSUME NEW i \in 0..(n - 1), i \in S PROVE i + 1 \in S
  <2>1. PICK at : Parted(acc[i], at, s, i, sep)
    BY <1>4
  <2>2. i + 1 \in 1..n /\ (i + 1) - 1 = i /\ i \in 0..n /\ i + 1 \in Nat
    BY <1>2
  <2>3. acc[i] \in Partings(T) /\ acc[i + 1] = SplitStep(sep, acc[i], s[i + 1])
    BY <1>1, <2>2
  <2>4. \E to : Parted(acc[i + 1], to, s, i + 1, sep)
    BY <2>1, <2>3, SplitStepParted
  <2> QED BY <2>2, <2>4
<1> HIDE DEF S
<1>5. \A i \in 0..n : i \in S
  BY <1>2, <1>3, <1>4, UpTo
<1>6. \E at : Parted(acc[n], at, s, n, sep)
  BY <1>2, <1>5 DEF S
<1>7. acc[n] \in Partings(T)
  BY <1>1, <1>2
<1> QED BY <1>1, <1>6, <1>7 DEF Partings

\* Quotient and remainder.
LEMMA DivMod ==
    ASSUME NEW a \in Nat, NEW d \in Nat \ {0}
    PROVE  /\ a \div d \in Nat /\ a % d \in 0..(d - 1)
           /\ a = (a \div d) * d + (a % d)
OBVIOUS

\* A quotient and a remainder are those of their number.
LEMMA DivModUnique ==
    ASSUME NEW d \in Nat \ {0}, NEW q \in Nat, NEW r \in 0..(d - 1)
    PROVE  (q * d + r) \div d = q /\ (q * d + r) % d = r
OBVIOUS

\* Multiples of a number.
LEMMA Times ==
    ASSUME NEW d \in Nat
    PROVE  /\ \A a \in Nat : a * d \in Nat /\ (a + 1) * d = a * d + d
           /\ \A a, b \in Nat : a <= b => a * d <= b * d
OBVIOUS

\* s[:n]
LEMMA FirstIs ==
    ASSUME NEW T, NEW s \in Seq(T), NEW n \in Nat
    PROVE  /\ First(s, n) \in Seq(T) /\ Len(First(s, n)) = Least(n, Len(s))
           /\ Least(n, Len(s)) \in Nat /\ Least(n, Len(s)) <= n /\ Least(n, Len(s)) <= Len(s)
           /\ \A i \in 1..Len(First(s, n)) : First(s, n)[i] = s[i]
           /\ Len(s) <= n => First(s, n) = s
<1> DEFINE m == Least(n, Len(s))
<1>1. m \in 0..Len(s) /\ m <= n /\ (Len(s) <= n => m = Len(s))
  BY DEF Least
<1> HIDE DEF m
<1>2. \A i \in 1..m : s[i] \in T
  BY <1>1
<1>3. /\ SubSeq(s, 1, m) \in Seq(T) /\ Len(SubSeq(s, 1, m)) = m
      /\ \A i \in 1..m : SubSeq(s, 1, m)[i] = s[i]
  BY <1>1, <1>2, SubSeqProperties
<1>4. Len(s) <= n => SubSeq(s, 1, m) = s
  BY <1>1, SubSeqFull
<1>5. First(s, n) = SubSeq(s, 1, m)
  BY DEF First, m
<1> QED BY <1>1, <1>3, <1>4, <1>5 DEF m

\* str.rstrip takes nothing but spaces.
LEMMA RStripIs ==
    ASSUME NEW T, NEW s \in Seq(T)
    PROVE  /\ RStrip(s) \in Seq(T) /\ Len(RStrip(s)) <= Len(s)
           /\ \A i \in 1..Len(RStrip(s)) : RStrip(s)[i] = s[i]
           /\ \A i \in (Len(RStrip(s)) + 1)..Len(s) : s[i] = Space
<1> DEFINE I == {i \in 1..Len(s) : s[i] # Space}
           e == IF I # {} THEN Max(I) ELSE 0
<1>1. RStrip(s) = First(s, e)
  BY Zenon DEF RStrip, SelectLastInSeq
<1>2. e \in 0..Len(s) /\ \A i \in (e + 1)..Len(s) : s[i] = Space
  <2>1. CASE I = {}
    BY <2>1
  <2>2. CASE I # {}
    <3>1. I \in SUBSET (1..Len(s)) /\ Len(s) \in Nat
      OBVIOUS
    <3>2. Max(I) \in I /\ \A i \in I : Max(I) >= i
      <4> HIDE DEF I
      <4> QED BY <2>2, <3>1, MaxOfPlaces
    <3>3. e = Max(I) /\ e \in 1..Len(s)
      BY <2>2, <3>2
    <3> HIDE DEF e
    <3>4. ASSUME NEW i \in (e + 1)..Len(s) PROVE s[i] = Space
      <4>1. i \in 1..Len(s) /\ ~(e >= i)
        BY <3>3
      <4> QED BY <3>2, <3>3, <4>1
    <3> QED BY <3>3, <3>4
  <2> QED BY <2>1, <2>2
<1> HIDE DEF e
<1>3. Len(First(s, e)) = e
  <2>1. Least(e, Len(s)) = e
    BY <1>2 DEF Least
  <2> QED BY <1>2, <2>1, FirstIs
<1> QED BY <1>1, <1>2, <1>3, FirstIs

-----------------------------------------------------------------------------
\* The greedy wrap, one word at a time.
Wrapping(T) == [out : Seq(Seq(T)), cur : Seq(T)]

\* Pieces of a word of the width of a row.
Slices(w) == [k \in 1..(Len(w) \div Cols) |-> SubSeq(w, (k - 1) * Cols + 1, k * Cols)]
Flushed(acc) == IF acc.cur = <<>> THEN acc.out ELSE Append(acc.out, acc.cur)

\* The rows that a long word is broken into are whole rows, and its rest is shorter than a
\* row.
LEMMA SlicesAre ==
    ASSUME NEW T, NEW w \in Seq(T), Cols \in Nat \ {0}
    PROVE  /\ Len(w) \div Cols \in Nat /\ (Len(w) \div Cols) * Cols \in 0..Len(w)
           /\ Len(w) < (Len(w) \div Cols) * Cols + Cols
           /\ Slices(w) \in Seq(Seq(T)) /\ Len(Slices(w)) = Len(w) \div Cols
           /\ \A k \in 1..(Len(w) \div Cols) :
                /\ k * Cols \in Nat /\ (k - 1) * Cols \in Nat
                /\ (k - 1) * Cols + Cols = k * Cols /\ k * Cols <= Len(w)
                /\ Slices(w)[k] \in Seq(T) /\ Len(Slices(w)[k]) = Cols
                /\ \A c \in 1..Cols : Slices(w)[k][c] = w[(k - 1) * Cols + c]
           /\ LET rest == SubSeq(w, (Len(w) \div Cols) * Cols + 1, Len(w))
              IN  /\ rest \in Seq(T) /\ Len(rest) = Len(w) - (Len(w) \div Cols) * Cols
                  /\ \A c \in 1..Len(rest) : rest[c] = w[(Len(w) \div Cols) * Cols + c]
<1> DEFINE C == Cols
           n == Len(w)
           full == n \div C
<1>1. C \in Nat \ {0} /\ n \in Nat
  OBVIOUS
<1>2. full \in Nat /\ full * C \in Nat /\ full * C <= n /\ n < full * C + C
  <2> HIDE DEF C, n
  <2>1. full \in Nat /\ n % C \in 0..(C - 1) /\ n = full * C + (n % C)
    BY <1>1, DivMod
  <2>2. full * C \in Nat
    BY <1>1, <2>1, Times
  <2> HIDE DEF full
  <2> QED BY <1>1, <2>1, <2>2
<1>3. ASSUME NEW k \in 1..full
      PROVE  /\ k * C \in Nat /\ (k - 1) * C \in Nat /\ (k - 1) * C + C = k * C /\ k * C <= n
             /\ SubSeq(w, (k - 1) * C + 1, k * C) \in Seq(T)
             /\ Len(SubSeq(w, (k - 1) * C + 1, k * C)) = C
             /\ \A c \in 1..C : SubSeq(w, (k - 1) * C + 1, k * C)[c] = w[(k - 1) * C + c]
  <2> DEFINE a == (k - 1) * C
             b == k * C
  <2>1. a \in Nat /\ b \in Nat /\ a + C = b /\ b <= n
    <3> HIDE DEF C, n, full
    <3>1. k \in Nat /\ k - 1 \in Nat /\ (k - 1) + 1 = k /\ k <= full
      BY <1>2
    <3> QED BY <1>1, <1>2, <3>1, Times
  <2> HIDE DEF a, b, full, C
  <2>2. \A i \in (a + 1)..b : w[i] \in T
    BY <1>1, <2>1
  <2>3. /\ SubSeq(w, a + 1, b) \in Seq(T)
        /\ Len(SubSeq(w, a + 1, b)) = (IF a + 1 <= b THEN b - (a + 1) + 1 ELSE 0)
        /\ \A c \in 1..(b - (a + 1) + 1) : SubSeq(w, a + 1, b)[c] = w[(a + 1) + c - 1]
    BY <2>1, <2>2, SubSeqProperties
  <2>4. a + 1 <= b /\ b - (a + 1) + 1 = C /\ \A c \in 1..C : (a + 1) + c - 1 = a + c
    BY <1>1, <2>1
  <2>5. /\ SubSeq(w, a + 1, b) \in Seq(T) /\ Len(SubSeq(w, a + 1, b)) = C
        /\ \A c \in 1..C : SubSeq(w, a + 1, b)[c] = w[a + c]
    BY <2>3, <2>4
  <2> QED BY <2>1, <2>5 DEF a, b, C
<1>4. Slices(w) = [k \in 1..full |-> SubSeq(w, (k - 1) * C + 1, k * C)]
  BY DEF Slices
<1> DEFINE p == full * C
           rest == SubSeq(w, p + 1, n)
<1>5. /\ rest \in Seq(T) /\ Len(rest) = n - p
      /\ \A c \in 1..Len(rest) : rest[c] = w[p + c]
  <2>0. p \in Nat /\ p <= n
    BY <1>2
  <2> HIDE DEF p
  <2>1. \A i \in (p + 1)..n : w[i] \in T
    BY <1>1, <2>0
  <2>2. /\ rest \in Seq(T) /\ Len(rest) = (IF p + 1 <= n THEN n - (p + 1) + 1 ELSE 0)
        /\ \A c \in 1..(n - (p + 1) + 1) : rest[c] = w[(p + 1) + c - 1]
    BY <1>1, <2>0, <2>1, SubSeqProperties
  <2>3. n - (p + 1) + 1 = n - p /\ \A c \in Nat : (p + 1) + c - 1 = p + c
    BY <1>1, <2>0
  <2> HIDE DEF rest
  <2>4. Len(rest) = n - p
    BY <1>1, <2>0, <2>2
  <2>5. ASSUME NEW c \in 1..Len(rest) PROVE rest[c] = w[p + c]
    <3>1. c \in Nat /\ c \in 1..(n - (p + 1) + 1)
      BY <1>1, <2>0, <2>4
    <3>2. rest[c] = w[(p + 1) + c - 1]
      BY <2>2, <3>1
    <3> QED BY <2>3, <3>1, <3>2
  <2> QED BY <2>2, <2>4, <2>5
<1>6. /\ Slices(w) \in Seq(Seq(T)) /\ Len(Slices(w)) = full
      /\ \A k \in 1..full : Slices(w)[k] = SubSeq(w, (k - 1) * C + 1, k * C)
  <2> DEFINE slice(k) == SubSeq(w, (k - 1) * C + 1, k * C)
             g == [k \in 1..full |-> slice(k)]
  <2>1. \A k \in 1..full : slice(k) \in Seq(T)
    BY <1>3
  <2> HIDE DEF full, C, slice
  <2>2. g \in Seq(Seq(T)) /\ Len(g) = full /\ \A k \in 1..full : g[k] = slice(k)
    BY <1>2, <2>1
  <2> QED BY <1>4, <2>2 DEF slice
<1>7. \A k \in 1..full :
         /\ k * C \in Nat /\ (k - 1) * C \in Nat /\ (k - 1) * C + C = k * C /\ k * C <= n
         /\ Slices(w)[k] \in Seq(T) /\ Len(Slices(w)[k]) = C
         /\ \A c \in 1..C : Slices(w)[k][c] = w[(k - 1) * C + c]
  <2> SUFFICES ASSUME NEW k \in 1..full
               PROVE  /\ k * C \in Nat /\ (k - 1) * C \in Nat /\ (k - 1) * C + C = k * C
                      /\ k * C <= n
                      /\ Slices(w)[k] \in Seq(T) /\ Len(Slices(w)[k]) = C
                      /\ \A c \in 1..C : Slices(w)[k][c] = w[(k - 1) * C + c]
    OBVIOUS
  <2> HIDE DEF full, C
  <2> DEFINE slice == SubSeq(w, (k - 1) * C + 1, k * C)
  <2>1. Slices(w)[k] = slice
    BY <1>6
  <2>2. /\ k * C \in Nat /\ (k - 1) * C \in Nat /\ (k - 1) * C + C = k * C /\ k * C <= n
        /\ slice \in Seq(T) /\ Len(slice) = C
        /\ \A c \in 1..C : slice[c] = w[(k - 1) * C + c]
    BY <1>3
  <2> HIDE DEF slice
  <2> QED BY <2>1, <2>2
<1>8. full * C \in 0..n
  BY <1>1, <1>2
<1> HIDE DEF full, p, C, rest
<1>9. /\ full \in Nat /\ full * C \in 0..n /\ n < full * C + C
      /\ Slices(w) \in Seq(Seq(T)) /\ Len(Slices(w)) = full
  BY <1>2, <1>6, <1>8
<1> QED BY <1>5, <1>7, <1>9 DEF full, p, C, rest

NoSpace(line, p, q) == \A j \in p..q : line[j] # Space

\* A row is what follows the place b of its line, from a visible character.
RowAt(row, line, b, m) ==
    /\ Len(row) \in 1..Cols /\ b + Len(row) <= m
    /\ \A c \in 1..Len(row) : row[c] = line[b + c]
    /\ line[b + 1] # Space

\* A row of r characters follows a, the next row follows b: what begins there did not
\* fit, and only a word longer than a row is cut.
Break(line, a, r, b) ==
    /\ \E t \in (b + 1)..Len(line) : NoSpace(line, b + 1, t) /\ t - a > Cols
    /\ b = a + r => \E p \in 1..b : \E q \in (b + 1)..Len(line) :
                       NoSpace(line, p, q) /\ q - p + 1 > Cols

\* The rows of the first m characters.
Wrapped(rows, at, line, m) ==
    /\ at \in Seq(Nat) /\ Len(at) = Len(rows)
    /\ \A r \in 1..Len(rows) : RowAt(rows[r], line, at[r], m)
    /\ \A r \in 1..(Len(rows) - 1) :
         at[r] + Len(rows[r]) <= at[r + 1] /\ Break(line, at[r], Len(rows[r]), at[r + 1])
    /\ \A p \in 1..m : \/ line[p] = Space
                       \/ \E r \in 1..Len(rows) : p \in (at[r] + 1)..(at[r] + Len(rows[r]))

\* Spaces after what is wrapped need no row.
LEMMA WrappedMore ==
    ASSUME NEW rows, NEW at, NEW line, NEW m \in Nat, NEW n \in Nat, m <= n,
           Wrapped(rows, at, line, m), \A p \in (m + 1)..n : line[p] = Space
    PROVE  Wrapped(rows, at, line, n)
<1>1. \A r \in 1..Len(rows) : RowAt(rows[r], line, at[r], n)
  <2> SUFFICES ASSUME NEW r \in 1..Len(rows) PROVE RowAt(rows[r], line, at[r], n)
    OBVIOUS
  <2>1. RowAt(rows[r], line, at[r], m)
    BY DEF Wrapped
  <2>2. at[r] \in Nat /\ Len(rows[r]) \in Nat
    BY <2>1 DEF Wrapped, RowAt
  <2> QED BY <2>1, <2>2 DEF RowAt
<1>2. \A p \in 1..n : \/ line[p] = Space
                      \/ \E r \in 1..Len(rows) : p \in (at[r] + 1)..(at[r] + Len(rows[r]))
  <2> SUFFICES ASSUME NEW p \in 1..n, line[p] # Space
               PROVE  \E r \in 1..Len(rows) : p \in (at[r] + 1)..(at[r] + Len(rows[r]))
    OBVIOUS
  <2>1. p \in 1..m
    OBVIOUS
  <2> QED BY <2>1 DEF Wrapped
<1> QED BY <1>1, <1>2 DEF Wrapped

\* A row more, where the line may be broken.
LEMMA WrappedAppend ==
    ASSUME NEW T, NEW line \in Seq(T), NEW rows \in Seq(Seq(T)), NEW row \in Seq(T), NEW at,
           NEW m \in Nat, Wrapped(rows, at, line, m), RowAt(row, line, m, m + Len(row)),
           rows # <<>> => Break(line, at[Len(rows)], Len(rows[Len(rows)]), m)
    PROVE  Wrapped(Append(rows, row), Append(at, m), line, m + Len(row))
<1> DEFINE k == Len(rows)
           q == Append(rows, row)
           to == Append(at, m)
           n == m + Len(row)
<1>0. k \in Nat /\ at \in Seq(Nat) /\ Len(at) = k /\ Len(row) \in Nat /\ n \in Nat /\ m <= n
  BY DEF Wrapped
<1>1. /\ Len(q) = k + 1 /\ q[k + 1] = row /\ \A i \in 1..k : q[i] = rows[i]
      /\ to \in Seq(Nat) /\ Len(to) = k + 1 /\ to[k + 1] = m /\ \A i \in 1..k : to[i] = at[i]
  BY <1>0
<1> HIDE DEF q, to
<1>2. ASSUME NEW r \in 1..(k + 1) PROVE RowAt(q[r], line, to[r], n)
  <2>1. CASE r = k + 1
    BY <1>1, <2>1
  <2>2. CASE r # k + 1
    <3>1. r \in 1..k
      BY <1>0, <2>2
    <3>2. RowAt(rows[r], line, at[r], m)
      BY <3>1 DEF Wrapped
    <3>3. at[r] \in Nat
      BY <1>0, <3>1
    <3>4. Len(rows[r]) \in Nat
      BY <3>2 DEF RowAt
    <3>5. RowAt(rows[r], line, at[r], n)
      BY <1>0, <3>2, <3>3, <3>4 DEF RowAt
    <3> QED BY <1>1, <3>1, <3>5
  <2> QED BY <2>1, <2>2
<1>3. ASSUME NEW r \in 1..k
      PROVE  to[r] + Len(q[r]) <= to[r + 1] /\ Break(line, to[r], Len(q[r]), to[r + 1])
  <2>1. CASE r = k
    <3>1. RowAt(rows[k], line, at[k], m) /\ rows # <<>>
      BY <1>0, <2>1 DEF Wrapped
    <3>2. at[k] + Len(rows[k]) <= m
      BY <3>1 DEF RowAt
    <3>3. Break(line, at[k], Len(rows[k]), m)
      BY <3>1
    <3> QED BY <1>0, <1>1, <2>1, <3>2, <3>3
  <2>2. CASE r # k
    <3>1. r \in 1..(k - 1) /\ r + 1 \in 1..k
      BY <1>0, <2>2
    <3>2. at[r] + Len(rows[r]) <= at[r + 1] /\ Break(line, at[r], Len(rows[r]), at[r + 1])
      BY <3>1 DEF Wrapped
    <3> QED BY <1>1, <3>1, <3>2
  <2> QED BY <2>1, <2>2
<1>4. ASSUME NEW p \in 1..n, line[p] # Space
      PROVE  \E r \in 1..(k + 1) : p \in (to[r] + 1)..(to[r] + Len(q[r]))
  <2>1. CASE p <= m
    <3>1. PICK r \in 1..k : p \in (at[r] + 1)..(at[r] + Len(rows[r]))
      BY <1>4, <2>1 DEF Wrapped
    <3>2. r \in 1..(k + 1) /\ to[r] = at[r] /\ q[r] = rows[r]
      BY <1>0, <1>1, <3>1
    <3> QED BY <3>1, <3>2
  <2>2. CASE ~(p <= m)
    <3>1. k + 1 \in 1..(k + 1) /\ p \in (m + 1)..(m + Len(row))
      BY <1>0, <2>2
    <3> QED BY <1>1, <3>1
  <2> QED BY <2>1, <2>2
<1>5. (k + 1) - 1 = k
  BY <1>0
<1>6. Wrapped(q, to, line, n)
  BY <1>1, <1>2, <1>3, <1>4, <1>5 DEF Wrapped
<1> QED BY <1>6 DEF q, to

\* The last row made longer.
LEMMA WrappedExtend ==
    ASSUME NEW T, NEW line \in Seq(T), NEW out \in Seq(Seq(T)), NEW row \in Seq(T),
           NEW more \in Seq(T), NEW at, NEW m \in Nat, NEW b \in Nat,
           Wrapped(Append(out, row), at, line, m), b = at[Len(out) + 1],
           Len(row) <= Len(more), m <= b + Len(more), RowAt(more, line, b, b + Len(more))
    PROVE  Wrapped(Append(out, more), at, line, b + Len(more))
<1> DEFINE k == Len(out) + 1
           rows == Append(out, row)
           q == Append(out, more)
           n == b + Len(more)
<1>1. /\ k \in Nat /\ k > 0 /\ Len(rows) = k /\ Len(q) = k /\ q[k] = more /\ rows[k] = row
      /\ \A i \in 1..k : i # k => q[i] = rows[i]
      /\ Len(more) \in Nat /\ n \in Nat /\ Len(row) \in Nat
  OBVIOUS
<1> HIDE DEF rows, q, k
<1>2. at \in Seq(Nat) /\ Len(at) = k /\ \A r \in 1..k : RowAt(rows[r], line, at[r], m)
  BY <1>1 DEF Wrapped, rows
<1>3. \A r \in 1..(k - 1) :
        at[r] + Len(rows[r]) <= at[r + 1] /\ Break(line, at[r], Len(rows[r]), at[r + 1])
  BY <1>1 DEF Wrapped, rows
<1>4. \A p \in 1..m : \/ line[p] = Space
                      \/ \E r \in 1..k : p \in (at[r] + 1)..(at[r] + Len(rows[r]))
  BY <1>1 DEF Wrapped, rows
<1>5. b = at[k] /\ b + Len(row) <= m
  BY <1>1, <1>2 DEF k, RowAt
<1>6. m <= n
  OBVIOUS
<1>7. ASSUME NEW r \in 1..k PROVE RowAt(q[r], line, at[r], n)
  <2>1. CASE r = k
    BY <1>1, <1>5, <2>1
  <2>2. CASE r # k
    <3>1. RowAt(rows[r], line, at[r], m) /\ q[r] = rows[r]
      BY <1>1, <1>2, <2>2
    <3>2. Len(rows[r]) \in Nat
      BY <3>1 DEF RowAt
    <3>3. at[r] \in Nat
      <4>1. at \in Seq(Nat) /\ Len(at) = k /\ r \in 1..k
        BY <1>2
      <4> QED BY <4>1, ElementIs
    <3> HIDE DEF n
    <3>4. RowAt(rows[r], line, at[r], n)
      BY <1>1, <1>6, <3>1, <3>2, <3>3 DEF RowAt
    <3> QED BY <3>1, <3>4
  <2> QED BY <2>1, <2>2
<1>8. ASSUME NEW r \in 1..(k - 1)
      PROVE  at[r] + Len(q[r]) <= at[r + 1] /\ Break(line, at[r], Len(q[r]), at[r + 1])
  <2>1. r \in 1..k /\ r # k
    BY <1>1
  <2> QED BY <1>1, <1>3, <2>1
<1>9. ASSUME NEW p \in 1..n, line[p] # Space
      PROVE  \E r \in 1..k : p \in (at[r] + 1)..(at[r] + Len(q[r]))
  <2>1. CASE p > b
    <3>1. k \in 1..k /\ p \in (at[k] + 1)..(at[k] + Len(more))
      BY <1>1, <1>5, <2>1
    <3> QED BY <1>1, <3>1
  <2>2. CASE ~(p > b)
    <3>1. p \in 1..m
      BY <1>1, <1>5, <2>2
    <3>2. PICK r \in 1..k : p \in (at[r] + 1)..(at[r] + Len(rows[r]))
      BY <1>4, <1>9, <3>1
    <3>3. r # k
      BY <1>5, <2>2, <3>2
    <3> QED BY <1>1, <3>2, <3>3
  <2> QED BY <2>1, <2>2
<1>10. Wrapped(q, at, line, n)
  BY <1>1, <1>2, <1>7, <1>8, <1>9 DEF Wrapped
<1> QED BY <1>10 DEF q

\* Concatenation is associative.
LEMMA Associate ==
    ASSUME NEW X, NEW s \in Seq(X), NEW t \in Seq(X), NEW u \in Seq(X)
    PROVE  (s \o t) \o u = s \o (t \o u)
OBVIOUS

\* One element more of a sequence that is appended.
LEMMA GrowIs ==
    ASSUME NEW X, NEW s \in Seq(X), NEW t \in Seq(X), NEW k \in Nat, k + 1 <= Len(t)
    PROVE  s \o SubSeq(t, 1, k + 1) = Append(s \o SubSeq(t, 1, k), t[k + 1])
<1> DEFINE u == SubSeq(t, 1, k)
           v == SubSeq(t, 1, k + 1)
           e == t[k + 1]
<1>1. /\ \A i \in 1..k : t[i] \in X
      /\ \A i \in 1..(k + 1) : t[i] \in X
      /\ k + 1 \in 1..Len(t)
  OBVIOUS
<1>2. u \in Seq(X) /\ v \in Seq(X) /\ e \in X
  <2>1. u \in Seq(X)
    BY <1>1, SubSeqProperties
  <2>2. v \in Seq(X)
    BY <1>1, SubSeqProperties
  <2> QED BY <1>1, <2>1, <2>2
<1>3. v = u \o <<e>>
  <2>1. k + 1 \in 1..Len(t) /\ 1 \in 1..Len(t) /\ k + 1 \in 1..Len(t) /\ (k + 1) - 1 = k
    BY <1>1
  <2>2. SubSeq(t, 1, k + 1) = SubSeq(t, 1, (k + 1) - 1) \o <<t[k + 1]>>
    BY <2>1, SubSeqRecursiveSecond
  <2> QED BY <2>1, <2>2
<1> HIDE DEF u, v, e
<1>4. <<e>> \in Seq(X)
  BY <1>2
<1>5. s \o (u \o <<e>>) = (s \o u) \o <<e>>
  <2> DEFINE one == <<e>>
  <2>1. one \in Seq(X)
    BY <1>4
  <2> HIDE DEF one
  <2>2. (s \o u) \o one = s \o (u \o one)
    <3>1. s \in Seq(X) /\ u \in Seq(X) /\ one \in Seq(X)
      BY <1>2, <2>1
    <3> QED BY ONLY <3>1, Associate
  <2> QED BY <2>2 DEF one
<1>6. (s \o u) \o <<e>> = Append(s \o u, e)
  <2> DEFINE w == s \o u
  <2>1. w \in Seq(X)
    BY <1>2
  <2> HIDE DEF w
  <2>2. Append(w, e) = w \o <<e>>
    BY <1>2, <2>1, AppendIsConcat
  <2> QED BY <2>2 DEF w
<1> QED BY <1>3, <1>5, <1>6 DEF u, v, e

\* A word of the line, after the place o.
Word(w, line, o) ==
    /\ o + Len(w) <= Len(line)
    /\ \A c \in 1..Len(w) : w[c] = line[o + c] /\ w[c] # Space

\* There is no space within a word.
LEMMA WordNoSpace ==
    ASSUME NEW T, NEW line \in Seq(T), NEW w \in Seq(T), NEW o \in Nat, Word(w, line, o),
           NEW p \in (o + 1)..(o + Len(w)), NEW q \in (o + 1)..(o + Len(w))
    PROVE  NoSpace(line, p, q)
<1> SUFFICES ASSUME NEW j \in p..q PROVE line[j] # Space
  BY DEF NoSpace
<1>1. j - o \in 1..Len(w) /\ o + (j - o) = j
  OBVIOUS
<1> QED BY <1>1 DEF Word

\* A word longer than a row may be broken anywhere.
LEMMA LongBreak ==
    ASSUME NEW T, NEW line \in Seq(T), NEW w \in Seq(T), NEW o \in Nat, Word(w, line, o),
           Cols \in Nat \ {0}, Len(w) > Cols, NEW a \in Nat, NEW m \in (o + 1)..(o + Len(w) - 1),
           a + Cols = m
    PROVE  Break(line, a, Cols, m)
<1>1. m + 1 \in (m + 1)..Len(line) /\ o + 1 \in 1..m /\ o + Len(w) \in (m + 1)..Len(line)
  BY DEF Word
<1>2. NoSpace(line, m + 1, m + 1) /\ NoSpace(line, o + 1, o + Len(w))
  <2>1. /\ m + 1 \in (o + 1)..(o + Len(w)) /\ o + 1 \in (o + 1)..(o + Len(w))
        /\ o + Len(w) \in (o + 1)..(o + Len(w))
    OBVIOUS
  <2> QED BY <2>1, WordNoSpace
<1>3. (m + 1) - a > Cols /\ (o + Len(w)) - (o + 1) + 1 > Cols
  OBVIOUS
<1> QED BY <1>1, <1>2, <1>3 DEF Break

\* A word that did not fit.
LEMMA WordBreak ==
    ASSUME NEW T, NEW line \in Seq(T), NEW w \in Seq(T), NEW o \in Nat, Word(w, line, o),
           NEW a \in Nat, NEW r \in Nat, a + r < o, Len(w) > 0, o + Len(w) - a > Cols
    PROVE  Break(line, a, r, o)
<1>1. o + Len(w) \in (o + 1)..Len(line)
  BY DEF Word
<1>2. NoSpace(line, o + 1, o + Len(w))
  <2>1. o + 1 \in (o + 1)..(o + Len(w)) /\ o + Len(w) \in (o + 1)..(o + Len(w))
    OBVIOUS
  <2> QED BY <2>1, WordNoSpace
<1> QED BY <1>1, <1>2 DEF Break

\* The full rows of a word longer than a row.
LEMMA LongWord ==
    ASSUME NEW T, NEW line \in Seq(T), NEW rows \in Seq(Seq(T)), NEW w \in Seq(T), NEW at,
           NEW o \in Nat, Cols \in Nat \ {0}, Wrapped(rows, at, line, o), Word(w, line, o),
           Len(w) > Cols, rows # <<>> => at[Len(rows)] + Len(rows[Len(rows)]) < o
    PROVE  LET full == Len(w) \div Cols IN
           /\ full > 0
           /\ \E to : /\ Wrapped(rows \o Slices(w), to, line, o + full * Cols)
                      /\ to[Len(rows) + full] + Cols = o + full * Cols
<1> DEFINE full == Len(w) \div Cols
           C == Cols
           n == Len(rows)
           grown(k) == rows \o SubSeq(Slices(w), 1, k)
           Grown(k, to) == /\ k = 0 => to = at
                           /\ Wrapped(grown(k), to, line, o + k * C)
                           /\ k > 0 => to[n + k] + C = o + k * C
           S == {k \in Nat : k <= full => \E to : Grown(k, to)}
<1>0. C \in Nat \ {0} /\ n \in Nat
  OBVIOUS
<1>1. /\ full \in Nat /\ full * C \in 0..Len(w) /\ Len(w) < full * C + C
      /\ Slices(w) \in Seq(Seq(T)) /\ Len(Slices(w)) = full
      /\ \A k \in 1..full :
           /\ k * C \in Nat /\ (k - 1) * C \in Nat
           /\ (k - 1) * C + C = k * C /\ k * C <= Len(w)
           /\ Slices(w)[k] \in Seq(T) /\ Len(Slices(w)[k]) = C
           /\ \A c \in 1..C : Slices(w)[k][c] = w[(k - 1) * C + c]
  BY SlicesAre
<1>2. full > 0
  <2> SUFFICES ASSUME full = 0 PROVE FALSE
    BY <1>1
  <2>1. full * C = 0
    BY <1>0
  <2> HIDE DEF full, C
  <2> QED BY <1>0, <1>1, <2>1 DEF C
<1> HIDE DEF full, C
<1>3. 0 \in S
  <2>1. grown(0) = rows
    <3>1. SubSeq(Slices(w), 1, 0) = <<>>
      BY SubSeqEmpty
    <3> QED BY <3>1, ConcatEmptySeq
  <2>2. o + 0 * C = o
    BY <1>0
  <2>3. Wrapped(grown(0), at, line, o + 0 * C)
    BY <2>1, <2>2
  <2>4. Grown(0, at)
    <3> HIDE DEF grown
    <3> QED BY <2>3
  <2> HIDE DEF Grown
  <2> QED BY <2>4
<1>4. ASSUME NEW k \in 0..(full - 1), k \in S PROVE k + 1 \in S
  <2>0. k \in Nat /\ k + 1 \in 1..full /\ (k + 1) - 1 = k /\ k <= full
    BY <1>1
  <2> HIDE DEF Grown
  <2>1. PICK to : Grown(k, to)
    BY <1>4, <2>0
  <2> USE DEF Grown
  <2> DEFINE row == Slices(w)[k + 1]
             kC == k * C
             m == o + kC
  <2>2. /\ kC \in Nat /\ kC + C = (k + 1) * C /\ kC + C <= Len(w)
        /\ row \in Seq(T) /\ Len(row) = C /\ \A c \in 1..C : row[c] = w[kC + c]
    <3>1. /\ ((k + 1) - 1) * C \in Nat /\ ((k + 1) - 1) * C + C = (k + 1) * C
          /\ (k + 1) * C <= Len(w) /\ row \in Seq(T) /\ Len(row) = C
          /\ \A c \in 1..C : row[c] = w[((k + 1) - 1) * C + c]
      BY ONLY <1>1, <2>0
    <3> HIDE DEF row
    <3> QED BY ONLY <2>0, <3>1
  <2>3. grown(k) \in Seq(Seq(T)) /\ grown(k + 1) = Append(grown(k), row) /\ Len(grown(k)) = n + k
    <3> DEFINE sl == Slices(w)
    <3>1. sl \in Seq(Seq(T)) /\ Len(sl) = full
      BY <1>1
    <3> HIDE DEF sl
    <3>2. \A i \in 1..k : sl[i] \in Seq(T)
      BY <2>0, <3>1
    <3>3. SubSeq(sl, 1, k) \in Seq(Seq(T)) /\ Len(SubSeq(sl, 1, k)) = k
      BY <2>0, <3>2, SubSeqProperties
    <3>4. rows \o SubSeq(sl, 1, k) \in Seq(Seq(T)) /\ Len(rows \o SubSeq(sl, 1, k)) = n + k
      BY <3>3, ConcatProperties
    <3>5. rows \o SubSeq(sl, 1, k + 1) = Append(rows \o SubSeq(sl, 1, k), sl[k + 1])
      <4>1. k + 1 <= Len(sl)
        BY <2>0, <3>1
      <4> QED BY <2>0, <3>1, <4>1, GrowIs, Zenon
    <3> QED BY <3>4, <3>5 DEF sl
  <2> HIDE DEF row, kC
  <2>4. m \in Nat /\ m + Len(row) = o + (k + 1) * C
    BY <1>0, <2>2
  <2>5. Wrapped(grown(k), to, line, m) /\ (k > 0 => to[n + k] + C = m)
    BY <2>1 DEF kC
  <2>6. RowAt(row, line, m, m + Len(row))
    <3>1. ASSUME NEW c \in 1..C PROVE row[c] = line[m + c] /\ line[m + c] # Space
      <4>1. kC + c \in 1..Len(w) /\ o + (kC + c) = m + c
        BY <1>0, <2>2
      <4> QED BY <2>2, <4>1 DEF Word
    <3>2. 1 \in 1..C
      BY <1>0
    <3> HIDE DEF m
    <3> QED BY <1>0, <2>2, <2>4, <3>1, <3>2 DEF RowAt, C
  <2>7. grown(k) # <<>> => Break(line, to[n + k], Len(grown(k)[n + k]), m)
    <3>1. CASE k = 0
      <4>1. grown(k) = rows /\ m = o /\ n + k = n
        <5>1. SubSeq(Slices(w), 1, 0) = <<>>
          BY SubSeqEmpty
        <5>2. rows \o <<>> = rows
          BY ConcatEmptySeq
        <5>3. kC = 0
          BY <1>0, <3>1 DEF kC
        <5> QED BY <1>0, <3>1, <5>1, <5>2, <5>3
      <4> SUFFICES ASSUME rows # <<>> PROVE Break(line, to[n], Len(rows[n]), o)
        BY <4>1
      <4>2. to = at /\ n \in 1..n
        BY <1>0, <2>1, <3>1
      <4>3. RowAt(rows[n], line, at[n], o) /\ at[n] \in Nat
        BY <1>0, <4>2 DEF Wrapped
      <4>4. Len(rows[n]) \in Nat /\ at[n] + Len(rows[n]) < o
        BY <4>3 DEF RowAt
      <4>5. o + Len(w) - at[n] > Cols /\ Len(w) > 0
        BY <1>0, <4>3, <4>4 DEF C
      <4>6. Break(line, at[n], Len(rows[n]), o)
        BY <4>3, <4>4, <4>5, WordBreak
      <4> QED BY <4>2, <4>6
    <3>2. CASE k > 0
      <4>1. grown(k)[n + k] = Slices(w)[k] /\ Len(Slices(w)[k]) = C
        <5> DEFINE sl == Slices(w)
        <5>1. sl \in Seq(Seq(T)) /\ Len(sl) = full /\ k \in 1..full
          BY <1>1, <2>0, <3>2
        <5>2. Len(sl[k]) = C
          BY <1>1, <5>1
        <5> HIDE DEF sl
        <5>3. \A i \in 1..k : sl[i] \in Seq(T)
          BY <5>1
        <5>4. /\ SubSeq(sl, 1, k) \in Seq(Seq(T)) /\ Len(SubSeq(sl, 1, k)) = k
              /\ \A i \in 1..(k - 1 + 1) : SubSeq(sl, 1, k)[i] = sl[1 + i - 1]
          BY <2>0, <3>2, <5>3, SubSeqProperties
        <5> DEFINE u == SubSeq(sl, 1, k)
        <5>5. u \in Seq(Seq(T)) /\ Len(u) = k /\ u[k] = sl[k]
          BY <2>0, <3>2, <5>4
        <5> HIDE DEF u
        <5>6. (rows \o u)[n + k] = u[(n + k) - n]
          <6>1. n + k \in 1..(Len(rows) + Len(u)) /\ ~(n + k <= Len(rows))
            BY <1>0, <2>0, <3>2, <5>5
          <6> QED BY <5>5, <6>1, ConcatProperties
        <5>7. (n + k) - n = k
          BY <1>0, <2>0
        <5> QED BY <5>2, <5>5, <5>6, <5>7 DEF u, sl
      <4>2. to[n + k] \in Nat
        <5>1. Len(to) = n + k /\ to \in Seq(Nat) /\ n + k \in 1..(n + k)
          BY <1>0, <2>0, <2>3, <2>5, <3>2 DEF Wrapped
        <5> QED BY <5>1
      <4>3. m \in (o + 1)..(o + Len(w) - 1)
        <5>1. kC >= C
          <6>1. 1 * C <= k * C /\ 1 * C = C
            BY <1>0, <2>0, <3>2, Times
          <6> QED BY <6>1 DEF kC
        <5> QED BY <1>0, <2>2, <5>1
      <4>4. to[n + k] + C = m
        BY <2>5, <3>2
      <4> HIDE DEF m
      <4>5. Break(line, to[n + k], C, m)
        BY <1>0, <4>2, <4>3, <4>4, LongBreak DEF C
      <4> QED BY <4>1, <4>5
    <3> QED BY <2>0, <3>1, <3>2
  <2> DEFINE to2 == Append(to, m)
  <2>8. Wrapped(Append(grown(k), row), to2, line, m + Len(row))
    <3> HIDE DEF m, grown
    <3> QED BY <2>2, <2>3, <2>4, <2>5, <2>6, <2>7, WrappedAppend
  <2>9. to2[n + (k + 1)] = m
    <3>1. Len(to) = n + k /\ to \in Seq(Nat) /\ n + (k + 1) = (n + k) + 1
      BY <1>0, <2>0, <2>3, <2>5 DEF Wrapped
    <3> HIDE DEF m
    <3>2. to2[Len(to) + 1] = m
      BY <2>4, <3>1, AppendProperties
    <3> QED BY <3>1, <3>2
  <2> HIDE DEF to2
  <2>10. Wrapped(grown(k + 1), to2, line, o + (k + 1) * C)
    BY <2>3, <2>4, <2>8
  <2>11. to2[n + (k + 1)] + C = o + (k + 1) * C
    BY <2>2, <2>4, <2>9
  <2>12. Grown(k + 1, to2)
    <3> HIDE DEF grown
    <3> QED BY <2>0, <2>10, <2>11
  <2> HIDE DEF Grown
  <2> QED BY <2>0, <2>12
<1> HIDE DEF S
<1>5. full \in S
  <2>1. \A k \in 0..full : k \in S
    BY <1>1, <1>3, <1>4, UpTo
  <2> QED BY <1>1, <2>1
<1>6. PICK to : Grown(full, to)
  <2> HIDE DEF Grown
  <2> QED BY <1>1, <1>5 DEF S
<1>7. grown(full) = rows \o Slices(w)
  BY <1>1, SubSeqFull
<1> QED BY <1>2, <1>6, <1>7 DEF full, C

\* Where the wrap of a line stands after o characters; gap is 1 when the last of them
\* is the space that the next word follows.
WrapTo(acc, at, line, o, gap) ==
    /\ Wrapped(Flushed(acc), at, line, o)
    /\ acc.cur # <<>> => at[Len(acc.out) + 1] + Len(acc.cur) + gap = o
    /\ acc.cur = <<>> /\ acc.out # <<>> =>
         Len(acc.out[Len(acc.out)]) = Cols /\ at[Len(acc.out)] + Cols + gap <= o

\* The four things wrap_text does with a word.
LEMMA PlaceCases ==
    ASSUME NEW T, Space \in T, NEW acc \in Wrapping(T), NEW w \in Seq(T), Cols \in Nat \ {0}
    PROVE  /\ acc.out \in Seq(Seq(T)) /\ acc.cur \in Seq(T) /\ Flushed(acc) \in Seq(Seq(T))
           /\ Place(acc, w) \in Wrapping(T)
           /\ \/ /\ Len(w) > Cols
                 /\ Place(acc, w) = [out |-> Flushed(acc) \o Slices(w),
                                     cur |-> SubSeq(w, (Len(w) \div Cols) * Cols + 1, Len(w))]
              \/ /\ Len(w) <= Cols /\ acc.cur = <<>>
                 /\ Place(acc, w) = [out |-> acc.out, cur |-> w]
              \/ /\ acc.cur # <<>> /\ Len(acc.cur) + 1 + Len(w) <= Cols
                 /\ Place(acc, w) = [out |-> acc.out, cur |-> acc.cur \o <<Space>> \o w]
              \/ /\ Len(w) <= Cols /\ acc.cur # <<>> /\ Len(acc.cur) + 1 + Len(w) > Cols
                 /\ Place(acc, w) = [out |-> Append(acc.out, acc.cur), cur |-> w]
<1> DEFINE o == acc.out
           c == acc.cur
           full == Len(w) \div Cols
           rest == SubSeq(w, full * Cols + 1, Len(w))
           p == Place(acc, w)
<1>1. acc = [out |-> o, cur |-> c] /\ o \in Seq(Seq(T)) /\ c \in Seq(T)
  BY DEF Wrapping
<1>2. Flushed(acc) = IF c = <<>> THEN o ELSE Append(o, c)
  BY DEF Flushed
<1>3. Place(acc, w) =
        IF Len(w) > Cols THEN [out |-> Flushed(acc) \o Slices(w), cur |-> rest]
        ELSE IF c = <<>> THEN [acc EXCEPT !.cur = w]
        ELSE IF Len(c) + 1 + Len(w) <= Cols THEN [acc EXCEPT !.cur = c \o <<Space>> \o w]
        ELSE [out |-> Append(o, c), cur |-> w]
  BY DEF Place, HardSplit, Flushed, Slices
<1>4. rest \in Seq(T) /\ Slices(w) \in Seq(Seq(T))
  BY SlicesAre
<1> HIDE DEF o, c, rest, full
<1>5. \A x : [acc EXCEPT !.cur = x] = [out |-> o, cur |-> x]
  BY <1>1
<1>6. Flushed(acc) \in Seq(Seq(T)) /\ Append(o, c) \in Seq(Seq(T))
  <2>1. Append(o, c) \in Seq(Seq(T))
    BY <1>1, AppendProperties, Zenon
  <2> QED BY <1>1, <1>2, <2>1
<1>7. Flushed(acc) \o Slices(w) \in Seq(Seq(T))
  BY <1>4, <1>6, ConcatProperties
<1>8. c \o <<Space>> \o w \in Seq(T)
  <2>1. <<Space>> \in Seq(T)
    OBVIOUS
  <2>2. c \o <<Space>> \in Seq(T)
    BY <1>1, <2>1, ConcatProperties
  <2> QED BY <2>2, ConcatProperties
<1>9. Len(w) \in Nat /\ Len(c) \in Nat
  BY <1>1
<1> DEFINE fl == Flushed(acc) \o Slices(w)
           joined == c \o <<Space>> \o w
           ap == Append(o, c)
<1>10. p = IF Len(w) > Cols THEN [out |-> fl, cur |-> rest]
           ELSE IF c = <<>> THEN [out |-> o, cur |-> w]
           ELSE IF Len(c) + 1 + Len(w) <= Cols THEN [out |-> o, cur |-> joined]
           ELSE [out |-> ap, cur |-> w]
  BY <1>3, <1>5
<1>11. fl \in Seq(Seq(T)) /\ joined \in Seq(T) /\ ap \in Seq(Seq(T))
  BY <1>6, <1>7, <1>8
<1> HIDE DEF p, fl, joined, ap
<1>12. p \in Wrapping(T)
  BY <1>1, <1>4, <1>10, <1>11 DEF Wrapping
<1>13. \/ Len(w) > Cols /\ p = [out |-> fl, cur |-> rest]
       \/ Len(w) <= Cols /\ c = <<>> /\ p = [out |-> o, cur |-> w]
       \/ c # <<>> /\ Len(c) + 1 + Len(w) <= Cols /\ p = [out |-> o, cur |-> joined]
       \/ Len(w) <= Cols /\ c # <<>> /\ Len(c) + 1 + Len(w) > Cols /\ p = [out |-> ap, cur |-> w]
  BY <1>9, <1>10
<1> QED BY <1>1, <1>6, <1>12, <1>13 DEF p, fl, joined, ap, o, c, rest, full

\* A word that fits is a row.
LEMMA WordRow ==
    ASSUME NEW T, NEW line \in Seq(T), NEW w \in Seq(T), NEW o \in Nat, Word(w, line, o),
           Len(w) \in 1..Cols
    PROVE  RowAt(w, line, o, o + Len(w))
<1>1. 1 \in 1..Len(w)
  OBVIOUS
<1> QED BY <1>1 DEF Word, RowAt

\* A word more: the rows so far and the one begun are the line up to its end, wrapped.
LEMMA PlaceWraps ==
    ASSUME NEW T, Space \in T, NEW line \in Seq(T), NEW acc \in Wrapping(T), NEW w \in Seq(T),
           Cols \in Nat \ {0}, NEW at, NEW o \in Nat, WrapTo(acc, at, line, o, 1),
           o > 0 => line[o] = Space, Word(w, line, o)
    PROVE  \E to : WrapTo(Place(acc, w), to, line, o + Len(w), 0)
<1> DEFINE all == Flushed(acc)
           n == Len(all)
           m == o + Len(w)
           next == Place(acc, w)
           done(to) == WrapTo(next, to, line, m, 0)
<1> SUFFICES \E to : done(to)
  OBVIOUS
<1>1. all \in Seq(Seq(T)) /\ acc.out \in Seq(Seq(T)) /\ acc.cur \in Seq(T) /\ next \in Wrapping(T)
  BY PlaceCases
<1>2. Wrapped(all, at, line, o) /\ at \in Seq(Nat) /\ Len(at) = n /\ n \in Nat /\ m \in Nat
      /\ Len(w) \in Nat
  <2>1. Len(w) \in Nat /\ m \in Nat
    OBVIOUS
  <2>2. n \in Nat
    BY <1>1
  <2>3. Wrapped(all, at, line, o)
    BY DEF WrapTo
  <2> QED BY <2>1, <2>2, <2>3 DEF Wrapped
<1>3. acc.cur # <<>> =>
        /\ all = Append(acc.out, acc.cur) /\ n = Len(acc.out) + 1 /\ all[n] = acc.cur
        /\ at[n] \in Nat /\ at[n] + Len(acc.cur) + 1 = o /\ Len(acc.cur) \in 1..Cols
  <2> SUFFICES ASSUME acc.cur # <<>>
               PROVE  /\ all = Append(acc.out, acc.cur) /\ n = Len(acc.out) + 1 /\ all[n] = acc.cur
                      /\ at[n] \in Nat /\ at[n] + Len(acc.cur) + 1 = o /\ Len(acc.cur) \in 1..Cols
    OBVIOUS
  <2>1. all = Append(acc.out, acc.cur)
    BY DEF Flushed
  <2>2. n = Len(acc.out) + 1 /\ all[n] = acc.cur /\ n \in 1..n
    BY <1>1, <2>1, AppendProperties
  <2>3. at[n] \in Nat
    BY <1>2, <2>2
  <2>4. RowAt(all[n], line, at[n], o)
    BY <1>2, <2>2 DEF Wrapped
  <2> QED BY <2>1, <2>2, <2>3, <2>4 DEF WrapTo, RowAt
<1>4. acc.cur = <<>> =>
        /\ all = acc.out
        /\ all # <<>> => /\ n \in 1..n /\ at[n] \in Nat
                         /\ Len(all[n]) = Cols /\ at[n] + Cols < o
  <2> SUFFICES ASSUME acc.cur = <<>>
               PROVE  /\ all = acc.out
                      /\ all # <<>> => /\ n \in 1..n /\ at[n] \in Nat
                                       /\ Len(all[n]) = Cols /\ at[n] + Cols < o
    OBVIOUS
  <2>1. all = acc.out
    BY DEF Flushed
  <2> SUFFICES ASSUME all # <<>>
               PROVE  n \in 1..n /\ at[n] \in Nat /\ Len(all[n]) = Cols /\ at[n] + Cols < o
    BY <2>1
  <2>2. n \in 1..n
    BY <1>1, <1>2
  <2>3. at[n] \in Nat
    BY <1>2, <2>2
  <2> QED BY <2>1, <2>2, <2>3 DEF WrapTo
<1>5. all # <<>> => /\ n \in 1..n /\ at[n] \in Nat /\ Len(all[n]) \in Nat
                    /\ at[n] + Len(all[n]) < o
  <2>1. CASE acc.cur = <<>>
    BY <1>4, <2>1
  <2>2. CASE acc.cur # <<>>
    <3>1. /\ at[n] + Len(acc.cur) + 1 = o /\ all[n] = acc.cur /\ at[n] \in Nat
          /\ Len(acc.cur) \in 1..Cols /\ n \in 1..n
      <4>1. Len(acc.out) \in Nat
        BY <1>1
      <4> QED BY <1>3, <2>2, <4>1
    <3> HIDE DEF all, n
    <3> QED BY <3>1
  <2> QED BY <2>1, <2>2
<1> HIDE DEF all, n, next, done
\* A row of its own for the word.
<1>6. ASSUME Len(w) \in 1..Cols, next = [out |-> all, cur |-> w],
             all # <<>> => o + Len(w) - at[n] > Cols
      PROVE  \E to : done(to)
  <2> DEFINE to == Append(at, o)
  <2>1. next.out = all /\ next.cur = w /\ w # <<>>
    BY <1>6
  <2>2. Flushed(next) = Append(all, w)
    BY <2>1 DEF Flushed
  <2>3. RowAt(w, line, o, o + Len(w))
    BY <1>6, WordRow
  <2>4. all # <<>> => Break(line, at[n], Len(all[n]), o)
    BY <1>5, <1>6, WordBreak
  <2>5. Wrapped(Append(all, w), to, line, m)
    BY <1>1, <1>2, <2>3, <2>4, WrappedAppend DEF n
  <2>6. to[Len(next.out) + 1] = o
    BY <1>2, <2>1, AppendProperties DEF n
  <2> HIDE DEF to
  <2>7. done(to)
    BY <1>2, <2>1, <2>2, <2>5, <2>6 DEF WrapTo, done
  <2> QED BY <2>7
\* Nothing to place.
<1>7. ASSUME w = <<>>, next = [out |-> all, cur |-> <<>>],
             all # <<>> => Len(all[n]) = Cols
      PROVE  \E to : done(to)
  <2>1. next.out = all /\ next.cur = <<>> /\ m = o /\ Flushed(next) = all
    BY <1>2, <1>7 DEF Flushed
  <2>2. all # <<>> => Len(all[n]) = Cols /\ at[n] + Cols + 0 <= o
    BY <1>5, <1>7
  <2>3. done(at)
    BY <1>2, <2>1, <2>2 DEF WrapTo, done, n
  <2> QED BY <2>3
<1>8. CASE Len(w) <= Cols /\ acc.cur = <<>> /\ next = [out |-> acc.out, cur |-> w]
  <2>1. CASE w = <<>>
    BY <1>4, <1>7, <1>8, <2>1
  <2>2. CASE w # <<>>
    <3>1. Len(w) \in 1..Cols
      BY <1>2, <1>8, <2>2
    <3> DEFINE a == at[n]
               len == Len(w)
    <3>a. Len(w) \in Nat /\ o \in Nat
      BY <1>2
    <3>b. all # <<>> => at[n] \in Nat /\ at[n] + Cols < o
      BY <1>4, <1>8
    <3>2. all # <<>> => o + len - a > Cols
      <4>1. len \in Nat /\ o \in Nat /\ (all # <<>> => a \in Nat /\ a + Cols < o)
        BY <3>a, <3>b
      <4> HIDE DEF a, len
      <4> QED BY ONLY <4>1, Cols \in Nat \ {0}
    <3> QED BY <1>4, <1>6, <1>8, <3>1, <3>2
  <2> QED BY <2>1, <2>2
<1>9. CASE Len(w) <= Cols /\ acc.cur # <<>> /\ Len(acc.cur) + 1 + Len(w) > Cols
           /\ next = [out |-> Append(acc.out, acc.cur), cur |-> w]
  <2>1. CASE w = <<>>
    <3>1. Len(all[n]) = Cols
      BY <1>3, <1>9, <2>1
    <3> QED BY <1>3, <1>7, <1>9, <2>1, <3>1
  <2>2. CASE w # <<>>
    <3>1. Len(w) \in 1..Cols
      BY <1>2, <1>9, <2>2
    <3> DEFINE a == at[n]
               len == Len(w)
               cur == Len(acc.cur)
    <3>a. a \in Nat /\ a + cur + 1 = o /\ cur \in 1..Cols
      BY <1>3, <1>9
    <3>b. len \in Nat /\ cur + 1 + len > Cols
      BY <1>2, <1>9
    <3>2. o + len - a > Cols
      <4> HIDE DEF a, len, cur
      <4>1. cur \in Nat
        BY <3>a
      <4> QED BY ONLY <3>a, <3>b, <4>1, Cols \in Nat \ {0}
    <3> QED BY <1>3, <1>6, <1>9, <3>1, <3>2
  <2> QED BY <2>1, <2>2
<1>10. CASE acc.cur # <<>> /\ Len(acc.cur) + 1 + Len(w) <= Cols
            /\ next = [out |-> acc.out, cur |-> acc.cur \o <<Space>> \o w]
  <2> DEFINE cur == acc.cur
             out == acc.out
             one == <<Space>>
             more == (cur \o one) \o w
             b == at[n]
  <2>1. cur \in Seq(T) /\ one \in Seq(T) /\ Len(one) = 1 /\ one[1] = Space
        /\ out \in Seq(Seq(T))
    BY <1>1
  <2> HIDE DEF cur, one, out
  <2> DEFINE co == cur \o one
  <2>20. Len(cur) \in Nat /\ Len(cur) + 1 + Len(w) <= Cols
    BY <1>10, <2>1 DEF cur
  <2>2. /\ co \in Seq(T) /\ Len(co) = Len(cur) + 1
        /\ \A c \in 1..Len(cur) : co[c] = cur[c]
        /\ co[Len(cur) + 1] = Space
    <3>1. /\ co \in Seq(T) /\ Len(co) = Len(cur) + Len(one)
          /\ \A c \in 1..(Len(cur) + Len(one)) : co[c] = IF c <= Len(cur) THEN cur[c] ELSE one[c - Len(cur)]
      BY <2>1, ConcatProperties
    <3> HIDE DEF co
    <3>2. \A c \in 1..Len(cur) : c \in 1..(Len(cur) + Len(one)) /\ c <= Len(cur)
      BY <2>1, <2>20
    <3>3. /\ Len(cur) + 1 \in 1..(Len(cur) + Len(one)) /\ ~(Len(cur) + 1 <= Len(cur))
          /\ (Len(cur) + 1) - Len(cur) = 1
      BY <2>1, <2>20
    <3>4. co[Len(cur) + 1] = one[(Len(cur) + 1) - Len(cur)]
      BY ONLY <3>1, <3>3
    <3> QED BY <2>1, <3>1, <3>2, <3>3, <3>4
  <2> HIDE DEF co
  <2>3. /\ more \in Seq(T) /\ Len(more) = Len(cur) + 1 + Len(w)
        /\ \A c \in 1..(Len(cur) + 1) : more[c] = co[c]
        /\ \A c \in 1..Len(w) : more[Len(cur) + 1 + c] = w[c]
    <3>1. /\ more \in Seq(T) /\ Len(more) = Len(co) + Len(w)
          /\ \A c \in 1..(Len(co) + Len(w)) : more[c] = IF c <= Len(co) THEN co[c] ELSE w[c - Len(co)]
      BY <2>2, ConcatProperties DEF co
    <3> HIDE DEF more
    <3>2. ASSUME NEW c \in 1..Len(w) PROVE more[Len(cur) + 1 + c] = w[c]
      <4>1. /\ Len(cur) + 1 + c \in 1..(Len(co) + Len(w)) /\ ~(Len(cur) + 1 + c <= Len(co))
            /\ (Len(cur) + 1 + c) - Len(co) = c
        BY <1>2, <2>2, <2>20
      <4>2. more[Len(cur) + 1 + c] = w[(Len(cur) + 1 + c) - Len(co)]
        BY ONLY <3>1, <4>1
      <4> QED BY <4>1, <4>2
    <3>3. ASSUME NEW c \in 1..(Len(cur) + 1) PROVE more[c] = co[c]
      <4>1. c \in 1..(Len(co) + Len(w)) /\ c <= Len(co)
        BY <1>2, <2>2, <2>20
      <4> QED BY ONLY <3>1, <4>1
    <3> QED BY <1>2, <2>2, <2>20, <3>1, <3>2, <3>3
  <2> HIDE DEF more
  <2>4. /\ all = Append(out, cur) /\ n = Len(out) + 1 /\ all[n] = cur /\ n \in 1..n
        /\ b \in Nat /\ b + Len(cur) + 1 = o /\ Len(cur) \in 1..Cols
    BY <1>3, <1>10, <2>1 DEF cur, out
  <2> HIDE DEF b
  <2>5. RowAt(cur, line, b, o)
    BY <1>2, <2>4 DEF Wrapped, n, b
  <2>6. ASSUME NEW c \in 1..Len(more) PROVE more[c] = line[b + c]
    <3>1. CASE c <= Len(cur)
      <4>1. c \in 1..Len(cur) /\ c \in 1..(Len(cur) + 1)
        BY <2>20, <3>1
      <4>2. more[c] = cur[c]
        BY <2>2, <2>3, <4>1
      <4> QED BY <2>5, <4>1, <4>2 DEF RowAt
    <3>2. CASE c = Len(cur) + 1
      <4>1. b + c = o /\ o > 0 /\ c \in 1..(Len(cur) + 1)
        BY <2>4, <2>20, <3>2
      <4> QED BY <2>2, <2>3, <3>2, <4>1
    <3>3. CASE c > Len(cur) + 1
      <4> DEFINE d == c - (Len(cur) + 1)
      <4>0. c \in 1..(Len(cur) + 1 + Len(w))
        BY <2>3
      <4>1. d \in 1..Len(w) /\ o + d = b + c /\ Len(cur) + 1 + d = c
        <5>1. c \in Nat /\ Len(w) \in Nat /\ Len(cur) \in Nat /\ b \in Nat
              /\ b + Len(cur) + 1 = o /\ c <= Len(cur) + 1 + Len(w)
          BY <1>2, <2>4, <2>20, <4>0
        <5> QED BY ONLY <3>3, <5>1
      <4> HIDE DEF d
      <4>2. more[c] = w[d]
        BY <2>3, <4>1
      <4> QED BY <4>1, <4>2 DEF Word
    <3> QED BY <2>20, <3>1, <3>2, <3>3
  <2>7. RowAt(more, line, b, b + Len(more)) /\ b + Len(more) = m /\ o <= m
        /\ Len(cur) <= Len(more) /\ more # <<>>
    <3>1. Len(more) \in 1..Cols /\ b + Len(more) = m /\ o <= m /\ Len(cur) <= Len(more)
      <4>1. /\ Len(more) = Len(cur) + 1 + Len(w) /\ Len(w) \in Nat /\ Len(cur) \in Nat
            /\ b \in Nat /\ b + Len(cur) + 1 = o
        BY <1>2, <2>3, <2>4, <2>20
      <4> QED BY ONLY <2>20, <4>1
    <3>2. line[b + 1] # Space
      BY <2>5 DEF RowAt
    <3>3. b + Len(more) <= b + Len(more)
      BY <2>4, <3>1
    <3>4. RowAt(more, line, b, b + Len(more))
      BY <2>6, <3>1, <3>2, <3>3 DEF RowAt
    <3> QED BY <3>1, <3>4
  <2>8. Wrapped(Append(out, more), at, line, b + Len(more))
    BY <1>2, <2>1, <2>3, <2>4, <2>7, WrappedExtend DEF b
  <2>9. next.out = out /\ next.cur = more /\ Flushed(next) = Append(out, more)
    BY <1>10, <2>7 DEF Flushed, more, co, out, cur, one
  <2>10. done(at)
    BY <2>4, <2>7, <2>8, <2>9 DEF WrapTo, done, b
  <2> QED BY <2>10
<1>11. CASE Len(w) > Cols
            /\ next = [out |-> all \o Slices(w),
                       cur |-> SubSeq(w, (Len(w) \div Cols) * Cols + 1, Len(w))]
  <2> DEFINE full == Len(w) \div Cols
             fC == full * Cols
             rest == SubSeq(w, fC + 1, Len(w))
             sl == Slices(w)
             out == all \o sl
             u == o + fC
  <2>1. PICK to : Wrapped(out, to, line, u) /\ to[n + full] + Cols = u
    BY <1>1, <1>2, <1>5, <1>11, LongWord DEF n
  <2>2. full > 0
    BY <1>1, <1>2, <1>5, <1>11, LongWord DEF n
  <2>3. /\ full \in Nat /\ fC \in 0..Len(w) /\ sl \in Seq(Seq(T)) /\ Len(sl) = full
        /\ rest \in Seq(T) /\ Len(rest) = Len(w) - fC
        /\ \A c \in 1..Len(rest) : rest[c] = w[fC + c]
        /\ Len(sl[full]) = Cols /\ fC >= Cols /\ Len(rest) < Cols
    <3>1. /\ full \in Nat /\ fC \in 0..Len(w) /\ sl \in Seq(Seq(T)) /\ Len(sl) = full
          /\ rest \in Seq(T) /\ Len(rest) = Len(w) - fC
          /\ \A c \in 1..Len(rest) : rest[c] = w[fC + c]
          /\ Len(w) < fC + Cols
      BY SlicesAre
    <3>2. full \in 1..full
      BY <2>2, <3>1
    <3>3. Len(sl[full]) = Cols /\ (full - 1) * Cols \in Nat /\ (full - 1) * Cols + Cols = fC
      BY <3>2, SlicesAre
    <3>4. fC >= Cols
      BY <3>3
    <3>5. Len(rest) < Cols
      BY <1>2, <3>1
    <3> QED BY <3>1, <3>3, <3>4, <3>5
  <2> HIDE DEF full, fC, rest, sl
  <2>4. out \in Seq(Seq(T)) /\ Len(out) = n + full /\ Len(out[n + full]) = Cols /\ out # <<>>
    <3>1. out \in Seq(Seq(T)) /\ Len(out) = n + full
      BY <1>1, <2>3, ConcatProperties DEF n
    <3>2. n + full \in 1..(Len(all) + Len(sl)) /\ ~(n + full <= Len(all)) /\ (n + full) - Len(all) = full
      BY <1>2, <2>2, <2>3 DEF n
    <3>3. out[n + full] = sl[full]
      BY <1>1, <2>3, <3>2, ConcatProperties
    <3> QED BY <1>2, <2>2, <2>3, <3>1, <3>3
  <2>5. u \in Nat /\ u \in (o + 1)..m /\ to[n + full] \in Nat
    <3>1. to \in Seq(Nat) /\ Len(to) = n + full /\ n + full \in 1..(n + full)
      BY <1>2, <2>1, <2>2, <2>3, <2>4 DEF Wrapped
    <3>2. to[n + full] \in Nat
      BY <3>1
    <3> QED BY <1>2, <2>3, <3>2
  <2> HIDE DEF out, u
  <2>6. next.out = out /\ next.cur = rest
    BY <1>11 DEF out, rest, sl, fC, full
  <2>7. CASE rest = <<>>
    <3>1. u = m
      <4>1. Len(rest) = 0
        BY <2>7
      <4>2. fC = Len(w)
        <5>1. fC \in 0..Len(w) /\ Len(rest) = Len(w) - fC /\ Len(w) \in Nat
          BY <1>2, <2>3
        <5> QED BY ONLY <4>1, <5>1
      <4> QED BY <4>2 DEF u
    <3>2. Flushed(next) = out
      BY <2>6, <2>7 DEF Flushed
    <3>3. done(to)
      BY <2>1, <2>4, <2>5, <2>6, <2>7, <3>1, <3>2 DEF WrapTo, done
    <3> QED BY <3>3
  <2>8. CASE rest # <<>>
    <3>1. Len(rest) \in 1..Cols /\ u + Len(rest) = m /\ u \in (o + 1)..(o + Len(w) - 1)
      BY <1>2, <2>3, <2>5, <2>8 DEF u
    <3>2. Break(line, to[n + full], Cols, u)
      BY <1>11, <2>1, <2>5, <3>1, LongBreak
    <3>3. Word(rest, line, u)
      <4>1. ASSUME NEW c \in 1..Len(rest) PROVE rest[c] = line[u + c] /\ rest[c] # Space
        <5>1. fC + c \in 1..Len(w) /\ o + (fC + c) = u + c
          BY <2>3, <3>1 DEF u
        <5> QED BY <2>3, <5>1 DEF Word
      <4> QED BY <3>1, <4>1 DEF Word
    <3>4. RowAt(rest, line, u, u + Len(rest))
      BY <2>3, <2>5, <3>1, <3>3, WordRow
    <3>5. Wrapped(Append(out, rest), Append(to, u), line, u + Len(rest))
      BY <2>1, <2>3, <2>4, <2>5, <3>2, <3>4, WrappedAppend
    <3>6. Append(to, u)[Len(out) + 1] = u
      <4>1. to \in Seq(Nat) /\ Len(to) = Len(out)
        BY <2>1 DEF Wrapped
      <4> QED BY <2>5, <4>1, AppendProperties
    <3>7. Flushed(next) = Append(out, rest)
      BY <2>6, <2>8 DEF Flushed
    <3> DEFINE to2 == Append(to, u)
    <3> HIDE DEF to2
    <3>8. done(to2)
      BY <2>5, <2>6, <2>8, <3>1, <3>5, <3>6, <3>7 DEF WrapTo, done, to2
    <3> QED BY <3>8
  <2> QED BY <2>7, <2>8
<1> QED BY <1>8, <1>9, <1>10, <1>11, PlaceCases DEF all, next

PlaceStart == [out |-> <<>>, cur |-> <<>>]
PlaceAll(words) == FoldLeft(Place, PlaceStart, words)
PlaceRun(acc, T, words) ==
    /\ acc \in [0..Len(words) -> Wrapping(T)]
    /\ acc[0] = PlaceStart /\ acc[Len(words)] = PlaceAll(words)
    /\ \A i \in 1..Len(words) : acc[i] = Place(acc[i - 1], words[i])

\* The rows, after each word of a line.
LEMMA PlaceFold ==
    ASSUME NEW T, Space \in T, Cols \in Nat \ {0}, NEW words \in Seq(Seq(T))
    PROVE  \E acc : PlaceRun(acc, T, words)
<1> DEFINE n == Len(words)
           A == Wrapping(T)
           base == PlaceStart
           P(f) == f = [S \in SUBSET DOMAIN words |->
                         IF S = {} THEN base
                         ELSE Place(f[S \ {Max(S)}], words[Max(S)])]
           iter == CHOOSE f : P(f)
           step == [p \in (1..n) \X A |-> Place(p[2], words[p[1]])]
<1>1. PlaceAll(words) = iter[DOMAIN words]
  BY Zenon DEF PlaceAll, FoldLeft, MapThenFoldSet
<1>2. n \in Nat /\ DOMAIN words = 1..n /\ \A i \in 1..n : words[i] \in Seq(T)
  OBVIOUS
<1>3. base \in A
  BY DEF Wrapping, PlaceStart
<1>4. /\ step \in [(1..n) \X A -> A]
      /\ \A i \in 1..n : \A a \in A : step[<<i, a>>] = Place(a, words[i])
  <2>1. \A i \in 1..n : \A a \in A : Place(a, words[i]) \in A
    BY <1>2, PlaceCases
  <2> QED BY <2>1
<1> HIDE DEF step, n, A, base
<1>5. P(iter)
  <2> SUFFICES \E f : P(f)
    <3> HIDE DEF P
    <3> QED OBVIOUS
  <2> HIDE DEF iter
  <2>1. PICK f : IsFold(f, A, n, base, step)
    BY <1>2, <1>3, <1>4, FoldExists
  <2>2. \A S \in SUBSET (1..n) : S # {} =>
           step[<<Max(S), f[S \ {Max(S)}]>>] = Place(f[S \ {Max(S)}], words[Max(S)])
    BY <1>2, <1>4, <2>1, MaxOfPlaces DEF IsFold
  <2>3. /\ f = [S \in SUBSET (1..n) |-> f[S]]
        /\ \A S \in SUBSET (1..n) :
             f[S] = IF S = {} THEN base ELSE Place(f[S \ {Max(S)}], words[Max(S)])
    BY <2>1, <2>2, Zenon DEF IsFold
  <2>4. f = [S \in SUBSET (1..n) |->
              IF S = {} THEN base ELSE Place(f[S \ {Max(S)}], words[Max(S)])]
    BY <2>3, Zenon
  <2>5. P(f)
    BY <1>2, <2>4, Zenon
  <2> HIDE DEF P
  <2> QED BY <2>5
<1> HIDE DEF iter
<1>6. IsFoldOver(iter, A, n, base, step)
  <2>1. ASSUME NEW S \in SUBSET (1..n)
        PROVE  iter[S] = IF S = {} THEN base ELSE Place(iter[S \ {Max(S)}], words[Max(S)])
    BY <1>2, <1>5
  <2> HIDE DEF P
  <2>2. \A S \in SUBSET (1..n) : S # {} => Max(S) \in 1..n
    BY <1>2, MaxOfPlaces
  <2> QED BY <1>4, <2>1, <2>2 DEF IsFoldOver
<1> HIDE DEF P
<1>7. PICK acc : IsRun(acc, A, n, base, step, iter[1..n])
  BY <1>2, <1>3, <1>4, <1>6, FoldChain
<1>8. \A i \in 1..n : i - 1 \in 0..n
  BY <1>2
<1>9. /\ acc \in [0..n -> A] /\ acc[0] = base /\ acc[n] = PlaceAll(words)
      /\ \A i \in 1..n : acc[i] = Place(acc[i - 1], words[i])
  BY <1>1, <1>2, <1>4, <1>7, <1>8 DEF IsRun
<1> QED BY <1>9 DEF PlaceRun, n, A, base

\* No part ends beyond the string.
LEMMA PartedIn ==
    ASSUME NEW T, NEW parts \in Seq(Seq(T)), parts # <<>>, NEW at, NEW s, NEW m \in Nat, NEW sep,
           Parted(parts, at, s, m, sep)
    PROVE  \A k \in 1..Len(parts) : at[k] \in Nat /\ at[k] + Len(parts[k]) <= m
<1> DEFINE n == Len(parts)
           S == {i \in Nat : i < n => at[n - i] + Len(parts[n - i]) <= m}
<1>1. n \in Nat /\ n > 0 /\ \A k \in 1..n : at[k] \in Nat /\ Len(parts[k]) \in Nat
  BY DEF Parted
<1>2. 0 \in S
  BY <1>1 DEF Parted
<1>3. ASSUME NEW i \in Nat, i \in S PROVE i + 1 \in S
  <2> SUFFICES ASSUME i + 1 < n PROVE at[n - (i + 1)] + Len(parts[n - (i + 1)]) <= m
    OBVIOUS
  <2> DEFINE k == n - (i + 1)
  <2>1. k \in 1..(n - 1) /\ k + 1 = n - i /\ i < n /\ k + 1 \in 1..n /\ k \in 1..n
    BY <1>1
  <2>2. at[k + 1] + Len(parts[k + 1]) <= m
    BY <1>3, <2>1
  <2> HIDE DEF k
  <2>3. at[k + 1] = at[k] + Len(parts[k]) + 1
    BY <2>1 DEF Parted
  <2>4. at[k] \in Nat /\ Len(parts[k]) \in Nat /\ Len(parts[k + 1]) \in Nat
    BY <1>1, <2>1
  <2>5. at[k] + Len(parts[k]) <= m
    BY ONLY <2>2, <2>3, <2>4
  <2> QED BY <2>5 DEF k
<1> HIDE DEF S
<1>4. \A i \in Nat : i \in S
  BY <1>2, <1>3, NatSet
<1>5. ASSUME NEW k \in 1..n PROVE at[k] + Len(parts[k]) <= m
  <2> DEFINE i == n - k
  <2>1. i \in Nat /\ i < n /\ n - i = k
    BY <1>1
  <2>2. i \in S
    BY <1>4, <2>1
  <2> HIDE DEF i
  <2> QED BY <2>1, <2>2 DEF S
<1> QED BY <1>1, <1>5

\* All the words: the whole line is wrapped.
LEMMA PlaceAllWraps ==
    ASSUME NEW T, Space \in T, Cols \in Nat \ {0}, NEW s \in Seq(T)
    PROVE  /\ PlaceAll(Split(s, Space)) \in Wrapping(T)
           /\ \E to : Wrapped(Flushed(PlaceAll(Split(s, Space))), to, s, Len(s))
<1> DEFINE words == Split(s, Space)
           n == Len(words)
<1>1. words \in Seq(Seq(T)) /\ words # <<>>
  BY SplitParted
<1>2. PICK at : Parted(words, at, s, Len(s), Space)
  BY SplitParted
<1>3. PICK acc : PlaceRun(acc, T, words)
  BY <1>1, PlaceFold
<1>4. n \in Nat /\ n > 0 /\ \A k \in 1..n : words[k] \in Seq(T) /\ Len(words[k]) \in Nat
  BY <1>1
<1>5. \A k \in 1..n : at[k] \in Nat /\ at[k] + Len(words[k]) <= Len(s)
  BY <1>1, <1>2, PartedIn
<1> HIDE DEF words
<1>6. \A k \in 1..n : Word(words[k], s, at[k])
  BY <1>5, <1>2 DEF Parted, Word
<1> DEFINE ends(i) == IF i = 0 THEN 0 ELSE at[i] + Len(words[i])
           gap(i) == IF i = 0 THEN 1 ELSE 0
           S == {i \in Nat : \E to : WrapTo(acc[i], to, s, ends(i), gap(i))}
<1>7. 0 \in S
  <2>1. acc[0] = PlaceStart
    BY <1>3 DEF PlaceRun
  <2>2. Flushed(PlaceStart) = <<>>
    BY DEF Flushed, PlaceStart
  <2>3. Wrapped(<<>>, <<>>, s, 0)
    BY DEF Wrapped
  <2>4. WrapTo(PlaceStart, <<>>, s, 0, 1)
    BY <2>2, <2>3 DEF WrapTo, PlaceStart
  <2> QED BY <2>1, <2>4
<1>8. ASSUME NEW i \in 0..(n - 1), i \in S PROVE i + 1 \in S
  <2> DEFINE k == i + 1
             a == acc[i]
  <2>1. k \in 1..n /\ k - 1 = i /\ k # 0 /\ i \in 0..n /\ k \in Nat
    BY <1>4
  <2>2. a \in Wrapping(T) /\ acc[k] = Place(a, words[k])
    BY <1>3, <2>1 DEF PlaceRun
  <2>3. PICK to : WrapTo(a, to, s, ends(i), gap(i))
    BY <1>8
  <2>4. /\ at[k] \in Nat /\ words[k] \in Seq(T) /\ Word(words[k], s, at[k])
        /\ at[k] \in 0..Len(s)
    BY <1>4, <1>5, <1>6, <2>1
  <2>5. WrapTo(a, to, s, at[k], 1) /\ (at[k] > 0 => s[at[k]] = Space)
    <3>1. CASE i = 0
      <4>1. at[k] = 0
        BY <1>2, <3>1 DEF Parted
      <4> QED BY <2>3, <3>1, <4>1
    <3>2. CASE i # 0
      <4> DEFINE m == at[i] + Len(words[i])
      <4>1. i \in 1..(n - 1) /\ i \in 1..n
        BY <1>4, <3>2
      <4>2. at[k] = m + 1 /\ s[at[k]] = Space /\ m \in Nat /\ m <= Len(s)
        <5>1. at[i + 1] = at[i] + Len(words[i]) + 1 /\ s[at[i + 1]] = Space
          BY <1>2, <4>1 DEF Parted
        <5>2. at[i] \in Nat /\ Len(words[i]) \in Nat /\ m <= Len(s)
          BY <1>4, <1>5, <4>1
        <5> QED BY <5>1, <5>2
      <4>3. WrapTo(a, to, s, m, 0)
        BY <2>3, <3>2
      <4> HIDE DEF a, m, k
      <4>4. \A p \in (m + 1)..(m + 1) : s[p] = Space
        BY <4>2
      <4>5. Wrapped(Flushed(a), to, s, m + 1)
        <5>1. m + 1 \in Nat /\ m <= m + 1
          BY <4>2
        <5>2. Wrapped(Flushed(a), to, s, m)
          BY <4>3 DEF WrapTo
        <5> QED BY <4>2, <4>4, <5>1, <5>2, WrappedMore
      <4>6. a.out \in Seq(Seq(T)) /\ a.cur \in Seq(T) /\ Flushed(a) \in Seq(Seq(T))
        BY <2>2 DEF Wrapping, Flushed
      <4>7. /\ to \in Seq(Nat) /\ Len(to) = Len(Flushed(a))
        BY <4>5 DEF Wrapped
      <4>8. a.cur # <<>> => to[Len(a.out) + 1] + Len(a.cur) + 1 = m + 1
        <5> SUFFICES ASSUME a.cur # <<>> PROVE to[Len(a.out) + 1] + Len(a.cur) + 1 = m + 1
          OBVIOUS
        <5>1. Flushed(a) = Append(a.out, a.cur)
          BY DEF Flushed
        <5>2. Len(to) = Len(a.out) + 1 /\ Len(a.out) \in Nat
          BY <4>6, <4>7, <5>1
        <5>3. to[Len(a.out) + 1] \in Nat /\ Len(a.cur) \in Nat
          BY <4>6, <4>7, <5>2
        <5>4. to[Len(a.out) + 1] + Len(a.cur) + 0 = m
          BY <4>3 DEF WrapTo
        <5> QED BY <4>2, <5>3, <5>4
      <4>9. a.cur = <<>> /\ a.out # <<>> =>
              Len(a.out[Len(a.out)]) = Cols /\ to[Len(a.out)] + Cols + 1 <= m + 1
        <5> SUFFICES ASSUME a.cur = <<>>, a.out # <<>>
                     PROVE  Len(a.out[Len(a.out)]) = Cols /\ to[Len(a.out)] + Cols + 1 <= m + 1
          OBVIOUS
        <5>1. Flushed(a) = a.out
          BY DEF Flushed
        <5>2. Len(to) = Len(a.out) /\ Len(a.out) \in 1..Len(a.out)
          BY <4>6, <4>7, <5>1
        <5>3. to[Len(a.out)] \in Nat
          BY <4>7, <5>2
        <5>4. Len(a.out[Len(a.out)]) = Cols /\ to[Len(a.out)] + Cols + 0 <= m
          BY <4>3 DEF WrapTo
        <5> QED BY <4>2, <5>3, <5>4
      <4> QED BY <4>2, <4>5, <4>8, <4>9 DEF WrapTo
    <3> QED BY <3>1, <3>2
  <2>6. \E q : WrapTo(Place(a, words[k]), q, s, at[k] + Len(words[k]), 0)
    <3> HIDE DEF a, k
    <3> QED BY <2>2, <2>4, <2>5, PlaceWraps
  <2> QED BY <2>1, <2>2, <2>6
<1> HIDE DEF S
<1>9. n \in S
  <2>1. \A i \in 0..n : i \in S
    BY <1>4, <1>7, <1>8, UpTo
  <2> QED BY <1>4, <2>1
<1>10. PICK to : WrapTo(acc[n], to, s, ends(n), gap(n))
  BY <1>9 DEF S
<1>11. ends(n) = Len(s) /\ acc[n] = PlaceAll(words) /\ acc[n] \in Wrapping(T)
  <2>1. at[n] + Len(words[n]) = Len(s) /\ n # 0
    BY <1>2, <1>4 DEF Parted
  <2>2. acc[n] = PlaceAll(words) /\ acc[n] \in Wrapping(T)
    BY <1>3, <1>4 DEF PlaceRun
  <2> QED BY <2>1, <2>2
<1>12. Wrapped(Flushed(acc[n]), to, s, Len(s))
  BY <1>10, <1>11 DEF WrapTo
<1> QED BY <1>11, <1>12 DEF words

\* The rows of a whole line; that of a blank one is empty.
Cut(rows, at, line) ==
    /\ at \in Seq(Nat) /\ Len(at) = Len(rows)
    /\ \A r \in 1..Len(rows) :
         /\ Len(rows[r]) \in 0..Cols /\ at[r] + Len(rows[r]) <= Len(line)
         /\ \A c \in 1..Len(rows[r]) : rows[r][c] = line[at[r] + c]
    /\ \A r \in 1..(Len(rows) - 1) :
         at[r] + Len(rows[r]) <= at[r + 1] /\ Break(line, at[r], Len(rows[r]), at[r + 1])
    /\ \A p \in 1..Len(line) :
         \/ line[p] = Space
         \/ \E r \in 1..Len(rows) : p \in (at[r] + 1)..(at[r] + Len(rows[r]))

\* _rewrap_line loses nothing but spaces, and breaks only where it must.
LEMMA RewrapIs ==
    ASSUME NEW T, Space \in T, Cols \in Nat \ {0}, NEW line \in Seq(T)
    PROVE  /\ RewrapLine(line) \in Seq(Seq(T)) /\ RewrapLine(line) # <<>>
           /\ \E at : Cut(RewrapLine(line), at, line)
<1> DEFINE s == RStrip(line)
           m == Len(s)
           end == PlaceAll(Split(s, Space))
           rows == Flushed(end)
           n == Len(rows)
<1>1. RewrapLine(line) = OrBlank(rows)
  BY Zenon DEF RewrapLine, PlaceAll, PlaceStart, Flushed
<1>2. /\ s \in Seq(T) /\ m <= Len(line) /\ m \in Nat /\ Len(line) \in Nat
      /\ \A i \in 1..m : s[i] = line[i]
      /\ \A i \in (m + 1)..Len(line) : line[i] = Space
  <2>1. s \in Seq(T)
    BY RStripIs
  <2> QED BY <2>1, RStripIs
<1> HIDE DEF s
<1>3. end \in Wrapping(T) /\ \E to : Wrapped(rows, to, s, m)
  BY <1>2, PlaceAllWraps
<1>4. PICK to : Wrapped(rows, to, s, m)
  BY <1>3
<1>5. rows \in Seq(Seq(T)) /\ n \in Nat
  <2>1. end.out \in Seq(Seq(T)) /\ end.cur \in Seq(T)
    BY <1>3 DEF Wrapping
  <2> HIDE DEF end
  <2> QED BY <2>1 DEF Flushed
<1> HIDE DEF rows, m
<1>6. to \in Seq(Nat) /\ Len(to) = n
  BY <1>4 DEF Wrapped
<1>7. CASE rows = <<>>
  <2> DEFINE blank == << <<>> >>
             at == <<0>>
  <2>1. RewrapLine(line) = blank /\ blank \in Seq(Seq(T)) /\ blank # <<>>
    BY <1>1, <1>7 DEF OrBlank
  <2>2. \A p \in 1..Len(line) : line[p] = Space
    <3> SUFFICES ASSUME NEW p \in 1..Len(line) PROVE line[p] = Space
      OBVIOUS
    <3>1. CASE p \in 1..m
      <4>1. n = 0
        BY <1>7
      <4>2. s[p] = Space
        BY <1>4, <3>1, <4>1 DEF Wrapped
      <4> QED BY <1>2, <3>1, <4>2 DEF m
    <3>2. CASE ~(p \in 1..m)
      BY <1>2, <3>2 DEF m
    <3> QED BY <3>1, <3>2
  <2>3. /\ at \in Seq(Nat) /\ Len(at) = 1 /\ Len(blank) = 1 /\ at[1] = 0
        /\ blank[1] = <<>> /\ Len(blank[1]) = 0
    OBVIOUS
  <2> HIDE DEF at, blank
  <2>4. ASSUME NEW r \in 1..1
        PROVE  /\ Len(blank[r]) \in 0..Cols /\ at[r] + Len(blank[r]) <= Len(line)
               /\ \A c \in 1..Len(blank[r]) : blank[r][c] = line[at[r] + c]
    <3>1. r = 1
      OBVIOUS
    <3> QED BY <1>2, <2>3, <3>1
  <2>5. Cut(blank, at, line)
    BY <2>2, <2>3, <2>4 DEF Cut
  <2> QED BY <2>1, <2>5
<1>8. CASE rows # <<>>
  <2>1. RewrapLine(line) = rows
    BY <1>1, <1>8 DEF OrBlank
  <2>2. ASSUME NEW r \in 1..n
        PROVE  /\ Len(rows[r]) \in 0..Cols /\ to[r] \in Nat /\ to[r] + Len(rows[r]) <= m
               /\ \A c \in 1..Len(rows[r]) : rows[r][c] = line[to[r] + c]
    <3>1. RowAt(rows[r], s, to[r], m)
      BY <1>4 DEF Wrapped
    <3>2. to[r] \in Nat /\ Len(rows[r]) \in Nat
      BY <1>5, <1>6
    <3>3. Len(rows[r]) \in 0..Cols /\ to[r] + Len(rows[r]) <= m
      BY <3>1 DEF RowAt
    <3>4. ASSUME NEW c \in 1..Len(rows[r]) PROVE rows[r][c] = line[to[r] + c]
      <4>1. to[r] + c \in 1..m
        BY <1>2, <3>2, <3>3 DEF m
      <4>2. rows[r][c] = s[to[r] + c]
        BY <3>1 DEF RowAt
      <4> QED BY <1>2, <4>1, <4>2 DEF m
    <3> QED BY <3>2, <3>3, <3>4
  <2>3. \A p \in Nat : \A q \in 0..m : p > 0 /\ NoSpace(s, p, q) => NoSpace(line, p, q)
    BY <1>2 DEF NoSpace, m
  <2>4. ASSUME NEW r \in 1..(n - 1)
        PROVE  to[r] + Len(rows[r]) <= to[r + 1] /\ Break(line, to[r], Len(rows[r]), to[r + 1])
    <3> DEFINE a == to[r]
               k == Len(rows[r])
               b == to[r + 1]
    <3>1. a + k <= b /\ Break(s, a, k, b)
      BY <1>4 DEF Wrapped
    <3>2. r \in 1..n /\ r + 1 \in 1..n
      BY <1>5
    <3>3. a \in Nat /\ k \in Nat /\ b \in Nat /\ b <= m
      <4>1. a \in Nat /\ Len(rows[r]) \in 0..Cols
        BY <2>2, <3>2
      <4>2. b \in Nat /\ b + Len(rows[r + 1]) <= m /\ Len(rows[r + 1]) \in 0..Cols
        BY <2>2, <3>2
      <4> HIDE DEF b
      <4> QED BY <1>2, <4>1, <4>2 DEF m
    <3> HIDE DEF a, b, k
    <3>4. PICK t \in (b + 1)..m : NoSpace(s, b + 1, t) /\ t - a > Cols
      BY <3>1 DEF Break, m
    <3>5. t \in (b + 1)..Len(line) /\ t \in 0..m /\ b + 1 \in Nat /\ b + 1 > 0
      BY <1>2, <3>3 DEF m
    <3>6. NoSpace(line, b + 1, t)
      BY <2>3, <3>4, <3>5
    <3>7. ASSUME b = a + k
          PROVE  \E p \in 1..b : \E q \in (b + 1)..Len(line) : NoSpace(line, p, q) /\ q - p + 1 > Cols
      <4>1. PICK p \in 1..b, q \in (b + 1)..m : NoSpace(s, p, q) /\ q - p + 1 > Cols
        BY <3>1, <3>7 DEF Break, m
      <4>2. q \in 0..m /\ q \in (b + 1)..Len(line) /\ p \in Nat /\ p > 0
        BY <1>2, <3>3 DEF m
      <4>3. NoSpace(line, p, q)
        BY <2>3, <4>1, <4>2
      <4> QED BY <4>1, <4>2, <4>3
    <3>8. Break(line, a, k, b)
      BY <3>4, <3>5, <3>6, <3>7 DEF Break
    <3> QED BY <3>1, <3>8 DEF a, b, k
  <2>5. ASSUME NEW p \in 1..Len(line), line[p] # Space
        PROVE  \E r \in 1..n : p \in (to[r] + 1)..(to[r] + Len(rows[r]))
    <3>1. p \in 1..m
      BY <1>2, <2>5 DEF m
    <3>2. s[p] # Space
      BY <1>2, <2>5, <3>1 DEF m
    <3> QED BY <1>4, <3>1, <3>2 DEF Wrapped
  <2>6. \A r \in 1..n : to[r] + Len(rows[r]) <= Len(line)
    <3> SUFFICES ASSUME NEW r \in 1..n PROVE to[r] + Len(rows[r]) <= Len(line)
      OBVIOUS
    <3>1. to[r] \in Nat /\ Len(rows[r]) \in 0..Cols /\ to[r] + Len(rows[r]) <= m
      BY <2>2
    <3> QED BY <1>2, <3>1 DEF m
  <2>7. Cut(rows, to, line)
    BY <1>6, <2>2, <2>4, <2>5, <2>6 DEF Cut
  <2> QED BY <1>5, <1>8, <2>1, <2>7
<1> QED BY <1>7, <1>8

\* flat is the first n of seqs, one after the other; the l-th follows the place base[l].
Strung(flat, base, seqs, n) ==
    /\ \A l \in 1..(n + 1) : base[l] \in 0..Len(flat)
    /\ base[1] = 0 /\ base[n + 1] = Len(flat)
    /\ \A l \in 1..n :
         /\ Len(seqs[l]) \in Nat /\ base[l + 1] = base[l] + Len(seqs[l])
         /\ \A r \in 1..Len(seqs[l]) : flat[base[l] + r] = seqs[l][r]
    /\ \A k \in 1..Len(flat) : \E l \in 1..n : k \in (base[l] + 1)..base[l + 1]

\* One sequence more, strung to the ones before.
LEMMA StrungMore ==
    ASSUME NEW X, NEW flat \in Seq(X), NEW seqs, NEW n \in Nat, NEW next \in Seq(X), NEW base,
           next = seqs[n + 1], Strung(flat, base, seqs, n),
           base[n + 2] = Len(flat) + Len(next)
    PROVE  Strung(flat \o next, base, seqs, n + 1)
<1> DEFINE all == flat \o next
<1>1. /\ all \in Seq(X) /\ Len(all) = Len(flat) + Len(next) /\ Len(flat) \in Nat /\ Len(next) \in Nat
      /\ \A k \in 1..(Len(flat) + Len(next)) :
           all[k] = IF k <= Len(flat) THEN flat[k] ELSE next[k - Len(flat)]
  BY ConcatProperties
<1> HIDE DEF all
<1>2. ASSUME NEW l \in 1..(n + 2) PROVE base[l] \in 0..Len(all)
  <2>1. CASE l = n + 2
    BY <1>1, <2>1
  <2>2. CASE l # n + 2
    <3>1. l \in 1..(n + 1)
      BY <2>2
    <3>2. base[l] \in 0..Len(flat)
      BY <3>1 DEF Strung
    <3> QED BY <1>1, <3>2
  <2> QED BY <2>1, <2>2
<1>3. ASSUME NEW l \in 1..(n + 1)
      PROVE  /\ Len(seqs[l]) \in Nat /\ base[l + 1] = base[l] + Len(seqs[l])
             /\ \A r \in 1..Len(seqs[l]) : all[base[l] + r] = seqs[l][r]
  <2>1. CASE l = n + 1
    <3>1. base[l] = Len(flat) /\ seqs[l] = next /\ l + 1 = n + 2
      BY <2>1 DEF Strung
    <3>2. ASSUME NEW r \in 1..Len(next) PROVE all[base[l] + r] = next[r]
      <4>1. base[l] + r \in 1..(Len(flat) + Len(next)) /\ ~(base[l] + r <= Len(flat))
            /\ (base[l] + r) - Len(flat) = r
        BY <1>1, <3>1
      <4> QED BY <1>1, <3>1, <4>1
    <3> QED BY <1>1, <3>1, <3>2
  <2>2. CASE l # n + 1
    <3>1. l \in 1..n /\ l \in 1..(n + 1) /\ l + 1 \in 1..(n + 1)
      BY <2>2
    <3>2. /\ Len(seqs[l]) \in Nat /\ base[l + 1] = base[l] + Len(seqs[l])
          /\ \A r \in 1..Len(seqs[l]) : flat[base[l] + r] = seqs[l][r]
      BY <3>1 DEF Strung
    <3>3. base[l] \in 0..Len(flat) /\ base[l + 1] \in 0..Len(flat)
      BY <3>1 DEF Strung
    <3>4. ASSUME NEW r \in 1..Len(seqs[l]) PROVE all[base[l] + r] = seqs[l][r]
      <4>0. /\ base[l] + Len(seqs[l]) <= Len(flat) /\ base[l] \in Nat /\ Len(seqs[l]) \in Nat
            /\ Len(flat) \in Nat /\ Len(next) \in Nat /\ r \in 1..Len(seqs[l])
        BY <1>1, <3>2, <3>3
      <4>1. base[l] + r \in 1..(Len(flat) + Len(next)) /\ base[l] + r <= Len(flat)
        BY ONLY <4>0
      <4>2. all[base[l] + r] = flat[base[l] + r]
        BY ONLY <1>1, <4>1
      <4> QED BY <3>2, <4>2
    <3> QED BY <3>2, <3>4
  <2> QED BY <2>1, <2>2
<1>4. ASSUME NEW k \in 1..Len(all) PROVE \E l \in 1..(n + 1) : k \in (base[l] + 1)..base[l + 1]
  <2>1. CASE k <= Len(flat)
    <3>1. k \in 1..Len(flat)
      BY <1>1, <2>1
    <3>2. PICK l \in 1..n : k \in (base[l] + 1)..base[l + 1]
      BY <3>1 DEF Strung
    <3>3. l \in 1..(n + 1)
      OBVIOUS
    <3> QED BY <3>2, <3>3
  <2>2. CASE ~(k <= Len(flat))
    <3>1. base[n + 1] = Len(flat) /\ (n + 1) + 1 = n + 2 /\ n + 1 \in 1..(n + 1)
      BY DEF Strung
    <3>2. k \in (base[n + 1] + 1)..base[(n + 1) + 1]
      BY <1>1, <2>2, <3>1
    <3> QED BY <3>1, <3>2
  <2> QED BY <2>1, <2>2
<1>5. base[1] = 0 /\ base[(n + 1) + 1] = Len(all) /\ (n + 1) + 1 = n + 2
  BY <1>1 DEF Strung
<1>6. Strung(all, base, seqs, n + 1)
  BY <1>2, <1>3, <1>4, <1>5 DEF Strung
<1> QED BY <1>6 DEF all

\* Appending one sequence after the other strings them.
LEMMA ChainStrung ==
    ASSUME NEW X, NEW n \in Nat, NEW seqs, \A i \in 1..n : seqs[i] \in Seq(X),
           NEW acc, \A i \in 0..n : acc[i] \in Seq(X), acc[0] = <<>>,
           \A i \in 1..n : acc[i] = acc[i - 1] \o seqs[i]
    PROVE  \E base : Strung(acc[n], base, seqs, n)
<1> DEFINE base == [i \in 1..(n + 1) |-> Len(acc[i - 1])]
           S == {i \in Nat : Strung(acc[i], base, seqs, i)}
<1>1. \A i \in 0..n : i + 1 \in 1..(n + 1) /\ (i + 1) - 1 = i /\ base[i + 1] = Len(acc[i])
  OBVIOUS
<1>2. 0 \in S
  <2>1. base[1] = 0 /\ Len(acc[0]) = 0 /\ acc[0] = <<>>
    BY <1>1
  <2> HIDE DEF base
  <2>2. Strung(<<>>, base, seqs, 0)
    <3>1. \A l \in 1..(0 + 1) : l = 1
      OBVIOUS
    <3>2. \A l \in 1..(0 + 1) : base[l] \in 0..Len(<<>>)
      BY <2>1, <3>1
    <3>3. base[0 + 1] = Len(<<>>)
      BY <2>1
    <3> QED BY <2>1, <3>2, <3>3 DEF Strung
  <2> QED BY <2>1, <2>2
<1>3. ASSUME NEW i \in 0..(n - 1), i \in S PROVE i + 1 \in S
  <2>1. i + 1 \in 1..n /\ (i + 1) - 1 = i /\ i \in 0..n /\ i + 1 \in 0..n /\ i \in Nat
        /\ i + 2 = (i + 1) + 1 /\ i + 1 \in Nat
    OBVIOUS
  <2>2. /\ acc[i] \in Seq(X) /\ seqs[i + 1] \in Seq(X) /\ acc[i + 1] = acc[i] \o seqs[i + 1]
        /\ acc[i + 1] \in Seq(X)
    BY <2>1
  <2>3. base[i + 2] = Len(acc[i]) + Len(seqs[i + 1])
    <3>1. base[i + 2] = Len(acc[i + 1])
      BY <1>1, <2>1
    <3>2. Len(acc[i] \o seqs[i + 1]) = Len(acc[i]) + Len(seqs[i + 1])
      BY <2>2, ConcatProperties
    <3> QED BY <2>2, <3>1, <3>2
  <2> HIDE DEF base
  <2>4. Strung(acc[i], base, seqs, i)
    BY <1>3
  <2>5. Strung(acc[i] \o seqs[i + 1], base, seqs, i + 1)
    BY <2>1, <2>2, <2>3, <2>4, StrungMore
  <2> QED BY <2>1, <2>2, <2>5
<1> HIDE DEF base, S
<1>4. \A i \in 0..n : i \in S
  BY <1>2, <1>3, UpTo
<1>5. Strung(acc[n], base, seqs, n)
  BY <1>4 DEF S
<1> QED BY <1>5

\* FlattenSeq strings its sequences together.
LEMMA FlattenStrung ==
    ASSUME NEW X, NEW seqs \in Seq(Seq(X))
    PROVE  /\ FlattenSeq(seqs) \in Seq(X)
           /\ \E base : Strung(FlattenSeq(seqs), base, seqs, Len(seqs))
<1> DEFINE n == Len(seqs)
<1>1. PICK acc \in [0..n -> Seq(X)] : /\ acc[0] = <<>> /\ acc[n] = FlattenSeq(seqs)
                                      /\ \A i \in 1..n : acc[i] = acc[i - 1] \o seqs[i]
  BY FlattenIs
<1>2. n \in Nat /\ (\A i \in 1..n : seqs[i] \in Seq(X)) /\ \A i \in 0..n : acc[i] \in Seq(X)
  OBVIOUS
<1> HIDE DEF n
<1>3. \E base : Strung(acc[n], base, seqs, n)
  BY <1>1, <1>2, ChainStrung
<1> QED BY <1>1, <1>2, <1>3 DEF n

\* A later sequence is further on, by one at least for each between them.
LEMMA StrungOrder ==
    ASSUME NEW flat, NEW base, NEW seqs, NEW n \in Nat, Len(flat) \in Nat,
           Strung(flat, base, seqs, n),
           NEW l \in 1..n, NEW k \in 1..n, l < k
    PROVE  /\ base[l + 1] <= base[k]
           /\ (\A i \in 1..n : Len(seqs[i]) > 0) => base[k] - base[l + 1] >= k - (l + 1)
<1> DEFINE S == {i \in Nat : l + 1 + i <= n + 1 => base[l + 1] <= base[l + 1 + i]}
           U == {i \in Nat : l + 1 + i <= n + 1 => base[l + 1 + i] - base[l + 1] >= i}
<1>1. \A i \in 1..(n + 1) : base[i] \in Nat
  BY DEF Strung
<1>2. 0 \in S /\ 0 \in U
  <2>1. base[l + 1] \in Nat /\ l + 1 + 0 = l + 1
    BY <1>1
  <2> QED BY <2>1
<1>3. ASSUME NEW i \in Nat, l + 1 + (i + 1) <= n + 1
      PROVE  LET j == l + 1 + i
             IN  /\ j + 1 = l + 1 + (i + 1) /\ j <= n + 1
                 /\ base[j + 1] = base[j] + Len(seqs[j]) /\ Len(seqs[j]) \in Nat
                 /\ base[l + 1] \in Nat /\ base[j] \in Nat /\ j \in 1..n
  <2> DEFINE j == l + 1 + i
  <2>1. j \in 1..n /\ j \in 1..(n + 1) /\ j + 1 = l + 1 + (i + 1) /\ l + 1 \in 1..(n + 1)
        /\ j <= n + 1
    BY <1>3
  <2> HIDE DEF j
  <2>2. base[j + 1] = base[j] + Len(seqs[j]) /\ Len(seqs[j]) \in Nat
    BY <2>1 DEF Strung
  <2> QED BY <1>1, <2>1, <2>2 DEF j
<1>4. ASSUME NEW i \in Nat, i \in S PROVE i + 1 \in S
  <2> SUFFICES ASSUME l + 1 + (i + 1) <= n + 1 PROVE base[l + 1] <= base[l + 1 + (i + 1)]
    OBVIOUS
  <2> DEFINE j == l + 1 + i
             a == base[l + 1]
             b == base[j]
             c == base[j + 1]
             m == Len(seqs[j])
  <2>1. j + 1 = l + 1 + (i + 1) /\ j <= n + 1 /\ c = b + m /\ m \in Nat /\ a \in Nat /\ b \in Nat
    BY <1>3
  <2>2. a <= b
    BY <1>4, <2>1
  <2> HIDE DEF a, b, c, m
  <2>3. a <= c
    BY <2>1, <2>2
  <2> QED BY <2>1, <2>3 DEF a, c
<1>5. ASSUME \A i \in 1..n : Len(seqs[i]) > 0, NEW i \in Nat, i \in U PROVE i + 1 \in U
  <2> SUFFICES ASSUME l + 1 + (i + 1) <= n + 1
               PROVE  base[l + 1 + (i + 1)] - base[l + 1] >= i + 1
    OBVIOUS
  <2> DEFINE j == l + 1 + i
             a == base[l + 1]
             b == base[j]
             c == base[j + 1]
             m == Len(seqs[j])
  <2>1. j + 1 = l + 1 + (i + 1) /\ j <= n + 1 /\ c = b + m /\ m \in Nat /\ a \in Nat /\ b \in Nat
        /\ j \in 1..n
    BY <1>3
  <2>2. b - a >= i
    BY <1>5, <2>1
  <2>3. m > 0
    BY <1>5, <2>1
  <2> HIDE DEF a, b, c, m
  <2>4. c - a >= i + 1
    BY <2>1, <2>2, <2>3
  <2> QED BY <2>1, <2>4 DEF a, c
<1> DEFINE d == k - (l + 1)
<1>6. d \in Nat /\ l + 1 + d = k /\ l + 1 + d <= n + 1
  OBVIOUS
<1> HIDE DEF S, U, d
<1>7. base[l + 1] <= base[k]
  <2>1. \A i \in Nat : i \in S
    BY <1>2, <1>4, NatSet
  <2> QED BY <1>6, <2>1 DEF S
<1>8. ASSUME \A i \in 1..n : Len(seqs[i]) > 0 PROVE base[k] - base[l + 1] >= k - (l + 1)
  <2>1. \A i \in Nat : i \in U
    BY <1>2, <1>5, <1>8, NatSet
  <2>2. base[k] - base[l + 1] >= d
    BY <1>6, <2>1 DEF U
  <2> QED BY <2>2 DEF d
<1> QED BY <1>7, <1>8

Paging(X) == [pages : Seq(Seq(X)), rows : Seq(X)]

\* A row goes to the page that is being filled, or begins the next.
LEMMA AddRowIs ==
    ASSUME NEW X, NEW acc \in Paging(X), NEW row \in X
    PROVE  /\ acc.pages \in Seq(Seq(X)) /\ acc.rows \in Seq(X)
           /\ AddRow(acc, row) \in Paging(X)
           /\ \/ /\ Len(acc.rows) >= Rows
                 /\ AddRow(acc, row) = [pages |-> Append(acc.pages, acc.rows), rows |-> <<row>>]
              \/ /\ ~(Len(acc.rows) >= Rows)
                 /\ AddRow(acc, row) = [pages |-> acc.pages, rows |-> Append(acc.rows, row)]
<1> DEFINE p == acc.pages
           q == acc.rows
<1>1. acc = [pages |-> p, rows |-> q] /\ p \in Seq(Seq(X)) /\ q \in Seq(X)
  BY DEF Paging
<1>2. AddRow(acc, row) = IF Len(q) >= Rows THEN [pages |-> Append(p, q), rows |-> <<row>>]
                         ELSE [acc EXCEPT !.rows = Append(q, row)]
  BY DEF AddRow
<1> HIDE DEF p, q
<1>3. \A x : [acc EXCEPT !.rows = x] = [pages |-> p, rows |-> x]
  BY <1>1
<1>4. Append(p, q) \in Seq(Seq(X)) /\ Append(q, row) \in Seq(X) /\ <<row>> \in Seq(X)
  <2>1. Append(p, q) \in Seq(Seq(X))
    BY <1>1, AppendProperties, Zenon
  <2>2. Append(q, row) \in Seq(X)
    BY <1>1, AppendProperties, Zenon
  <2>3. <<row>> \in Seq(X)
    OBVIOUS
  <2> QED BY <2>1, <2>2, <2>3
<1> DEFINE ap == Append(p, q)
           aq == Append(q, row)
           one == <<row>>
<1>5. AddRow(acc, row) = IF Len(q) >= Rows THEN [pages |-> ap, rows |-> one]
                         ELSE [pages |-> p, rows |-> aq]
  BY <1>2, <1>3
<1>6. ap \in Seq(Seq(X)) /\ aq \in Seq(X) /\ one \in Seq(X)
  BY <1>4
<1> HIDE DEF ap, aq, one
<1>7. AddRow(acc, row) \in Paging(X)
  BY <1>1, <1>5, <1>6 DEF Paging
<1> QED BY <1>1, <1>5, <1>7 DEF ap, aq, one, p, q

AddRows(acc, rows) == FoldLeft(AddRow, acc, rows)
AddRowsRun(acc, X, start, rows) ==
    /\ acc \in [0..Len(rows) -> Paging(X)]
    /\ acc[0] = start /\ acc[Len(rows)] = AddRows(start, rows)
    /\ \A i \in 1..Len(rows) : acc[i] = AddRow(acc[i - 1], rows[i])

\* The pages, after each row of an entry.
LEMMA AddRowsFold ==
    ASSUME NEW X, NEW start \in Paging(X), NEW rows \in Seq(X)
    PROVE  \E acc : AddRowsRun(acc, X, start, rows)
<1> DEFINE n == Len(rows)
           A == Paging(X)
           P(f) == f = [S \in SUBSET DOMAIN rows |->
                         IF S = {} THEN start
                         ELSE AddRow(f[S \ {Max(S)}], rows[Max(S)])]
           iter == CHOOSE f : P(f)
           step == [p \in (1..n) \X A |-> AddRow(p[2], rows[p[1]])]
<1>1. AddRows(start, rows) = iter[DOMAIN rows]
  BY Zenon DEF AddRows, FoldLeft, MapThenFoldSet
<1>2. n \in Nat /\ DOMAIN rows = 1..n /\ \A i \in 1..n : rows[i] \in X
  OBVIOUS
<1>3. start \in A
  OBVIOUS
<1>4. /\ step \in [(1..n) \X A -> A]
      /\ \A i \in 1..n : \A a \in A : step[<<i, a>>] = AddRow(a, rows[i])
  <2>1. \A i \in 1..n : \A a \in A : AddRow(a, rows[i]) \in A
    BY <1>2, AddRowIs
  <2> HIDE DEF A, n
  <2> QED BY <2>1
<1> HIDE DEF step, n, A
<1>5. P(iter)
  <2> SUFFICES \E f : P(f)
    <3> HIDE DEF P
    <3> QED OBVIOUS
  <2> HIDE DEF iter
  <2>1. PICK f : IsFold(f, A, n, start, step)
    BY <1>2, <1>3, <1>4, FoldExists
  <2>2. \A S \in SUBSET (1..n) : S # {} =>
           step[<<Max(S), f[S \ {Max(S)}]>>] = AddRow(f[S \ {Max(S)}], rows[Max(S)])
    BY <1>2, <1>4, <2>1, MaxOfPlaces DEF IsFold
  <2>3. /\ f = [S \in SUBSET (1..n) |-> f[S]]
        /\ \A S \in SUBSET (1..n) :
             f[S] = IF S = {} THEN start ELSE AddRow(f[S \ {Max(S)}], rows[Max(S)])
    BY <2>1, <2>2, Zenon DEF IsFold
  <2>4. f = [S \in SUBSET (1..n) |->
              IF S = {} THEN start ELSE AddRow(f[S \ {Max(S)}], rows[Max(S)])]
    BY <2>3, Zenon
  <2>5. P(f)
    BY <1>2, <2>4, Zenon
  <2> HIDE DEF P
  <2> QED BY <2>5
<1> HIDE DEF iter
<1>6. IsFoldOver(iter, A, n, start, step)
  <2>1. ASSUME NEW S \in SUBSET (1..n)
        PROVE  iter[S] = IF S = {} THEN start ELSE AddRow(iter[S \ {Max(S)}], rows[Max(S)])
    BY <1>2, <1>5
  <2> HIDE DEF P
  <2>2. \A S \in SUBSET (1..n) : S # {} => Max(S) \in 1..n
    BY <1>2, MaxOfPlaces
  <2> QED BY <1>4, <2>1, <2>2 DEF IsFoldOver
<1> HIDE DEF P
<1>7. PICK acc : IsRun(acc, A, n, start, step, iter[1..n])
  BY <1>2, <1>3, <1>4, <1>6, FoldChain
<1>8. \A i \in 1..n : i - 1 \in 0..n
  BY <1>2
<1>9. /\ acc \in [0..n -> A] /\ acc[0] = start /\ acc[n] = AddRows(start, rows)
      /\ \A i \in 1..n : acc[i] = AddRow(acc[i - 1], rows[i])
  BY <1>1, <1>2, <1>4, <1>7, <1>8 DEF IsRun
<1> QED BY <1>9 DEF AddRowsRun, n, A

\* Where a run of AddRow stands after i of the rows F, begun with k pages.
PagedTo(acc, old, F, i) ==
    LET k == Len(old)
        m == Len(acc.pages)
    IN  /\ k <= m /\ \A p \in 1..k : acc.pages[p] = old[p]
        /\ (m - k) * Rows + Len(acc.rows) = i
        /\ Len(acc.rows) <= Rows /\ (m > k => acc.rows # <<>>)
        /\ \A p \in (k + 1)..m :
             /\ Len(acc.pages[p]) = Rows
             /\ \A r \in 1..Rows : acc.pages[p][r] = F[(p - k - 1) * Rows + r]
        /\ \A r \in 1..Len(acc.rows) : acc.rows[r] = F[(m - k) * Rows + r]

\* A row more: the pages hold the rows so far, each page but the last one full.
LEMMA PagedMore ==
    ASSUME NEW X, Rows \in Nat \ {0}, NEW old \in Seq(Seq(X)), NEW F \in Seq(X),
           NEW i \in 0..(Len(F) - 1), NEW acc \in Paging(X), PagedTo(acc, old, F, i)
    PROVE  PagedTo(AddRow(acc, F[i + 1]), old, F, i + 1)
<1> DEFINE k == Len(old)
           P == acc.pages
           m == Len(P)
           Q == acc.rows
           row == F[i + 1]
           R == Rows
           next == AddRow(acc, row)
<1>1. row \in X /\ P \in Seq(Seq(X)) /\ Q \in Seq(X) /\ k \in Nat /\ m \in Nat /\ Len(Q) \in Nat
      /\ R \in Nat /\ R > 0 /\ i \in Nat
  <2>1. row \in X
    OBVIOUS
  <2> QED BY <2>1, AddRowIs
<1>2. /\ k <= m /\ \A p \in 1..k : P[p] = old[p]
      /\ (m - k) * R + Len(Q) = i
      /\ Len(Q) <= R /\ (m > k => Q # <<>>)
      /\ \A p \in (k + 1)..m : Len(P[p]) = R /\ \A r \in 1..R : P[p][r] = F[(p - k - 1) * R + r]
      /\ \A r \in 1..Len(Q) : Q[r] = F[(m - k) * R + r]
  BY DEF PagedTo
<1> HIDE DEF k, P, m, Q, row, R, next
<1>20. k <= m /\ (m - k) * R + Len(Q) = i /\ Len(Q) <= R
  BY <1>2
<1>21. k \in Nat /\ m \in Nat /\ Len(Q) \in Nat /\ R \in Nat /\ R > 0 /\ i \in Nat
  BY <1>1
<1>3. CASE Len(Q) >= R /\ next = [pages |-> Append(P, Q), rows |-> <<row>>]
  <2> DEFINE P2 == Append(P, Q)
             Q2 == <<row>>
  <2>1. /\ Len(P2) = m + 1 /\ P2[m + 1] = Q /\ \A p \in 1..m : P2[p] = P[p]
        /\ Len(Q2) = 1 /\ Q2[1] = row /\ Q2 # <<>>
    BY <1>1, AppendProperties DEF m
  <2>2. next.pages = P2 /\ next.rows = Q2
    BY <1>3
  <2> HIDE DEF P2, Q2
  <2>3. Len(Q) = R
    BY <1>1, <1>2, <1>3
  <2>4. ((m + 1) - k) * R = (m - k) * R + R /\ (m - k) * R + R = i
    <3> DEFINE d == m - k
    <3>1. d \in Nat /\ (m + 1) - k = d + 1
      BY ONLY <1>20, <1>21
    <3> HIDE DEF d
    <3>2. (d + 1) * R = d * R + R
      BY <1>1, <3>1, Times
    <3>3. ((m + 1) - k) * R = (m - k) * R + R
      BY <3>1, <3>2 DEF d
    <3> QED BY <1>2, <2>3, <3>3
  <2>5. ASSUME NEW p \in (k + 1)..(m + 1)
        PROVE  Len(P2[p]) = R /\ \A r \in 1..R : P2[p][r] = F[(p - k - 1) * R + r]
    <3>1. CASE p = m + 1
      <4>1. p - k - 1 = m - k
        BY <1>1, <3>1
      <4> QED BY <1>2, <2>1, <2>3, <3>1, <4>1
    <3>2. CASE p # m + 1
      <4>1. p \in (k + 1)..m /\ p \in 1..m
        BY <1>1, <3>2
      <4> QED BY <1>2, <2>1, <4>1
    <3> QED BY <3>1, <3>2
  <2>6. \A p \in 1..k : P2[p] = old[p]
    <3>1. \A p \in 1..k : p \in 1..m
      BY <1>1, <1>2
    <3> QED BY <1>2, <2>1, <3>1
  <2>7. ((m + 1) - k) * R + Len(Q2) = i + 1
    BY <2>1, <2>4
  <2>8. \A r \in 1..Len(Q2) : Q2[r] = F[((m + 1) - k) * R + r]
    <3>1. \A r \in 1..Len(Q2) : r = 1
      BY <2>1
    <3>2. ((m + 1) - k) * R + 1 = i + 1
      BY <2>4
    <3> QED BY <2>1, <3>1, <3>2 DEF row
  <2>9. k <= m + 1 /\ Len(Q2) <= R
    BY <1>1, <1>2, <2>1
  <2>10. PagedTo(next, old, F, i + 1)
    <3>1. Len(next.pages) = m + 1
      BY <2>1, <2>2
    <3> QED BY <2>1, <2>2, <2>5, <2>6, <2>7, <2>8, <2>9, <3>1 DEF PagedTo, k, R
  <2> QED BY <2>10 DEF next, row
<1>4. CASE ~(Len(Q) >= R) /\ next = [pages |-> P, rows |-> Append(Q, row)]
  <2> DEFINE Q2 == Append(Q, row)
             d == (m - k) * R
  <2>1. /\ Len(Q2) = Len(Q) + 1 /\ Q2[Len(Q) + 1] = row /\ \A r \in 1..Len(Q) : Q2[r] = Q[r]
        /\ Q2 # <<>>
    <3> HIDE DEF d
    <3>1. Q \in Seq(X) /\ row \in X /\ Len(Q) + 1 > 0
      BY <1>1
    <3>2. Q2 \in Seq(X) /\ Len(Q2) = Len(Q) + 1 /\ Q2[Len(Q) + 1] = row
          /\ \A r \in 1..Len(Q) : Q2[r] = Q[r]
      BY <3>1, AppendProperties
    <3>3. Q2 # <<>>
      <4> HIDE DEF Q2
      <4>1. Q2 = <<>> => Len(Q2) = 0
        OBVIOUS
      <4> QED BY <3>1, <3>2, <4>1
    <3> QED BY <3>2, <3>3
  <2>2. next.pages = P /\ next.rows = Q2
    BY <1>4
  <2>3. d \in Nat
    <3> DEFINE e == m - k
    <3>1. e \in Nat
      BY <1>1, <1>2
    <3> HIDE DEF e
    <3>2. e * R \in Nat
      BY <1>1, <3>1, Times
    <3> QED BY <3>2 DEF e
  <2>4. d + Len(Q) = i
    BY <1>2
  <2> HIDE DEF Q2, d
  <2>50. Len(Q2) = Len(Q) + 1 /\ ~(Len(Q) >= R)
    BY <1>4, <2>1
  <2>5. d + Len(Q2) = i + 1 /\ Len(Q2) <= R
    BY ONLY <1>21, <2>3, <2>4, <2>50
  <2>6. ASSUME NEW r \in 1..Len(Q2) PROVE Q2[r] = F[d + r]
    <3>1. CASE r = Len(Q) + 1
      <4>1. d + r = i + 1
        BY ONLY <1>21, <2>3, <2>4, <3>1
      <4> QED BY <2>1, <3>1, <4>1 DEF row
    <3>2. CASE r # Len(Q) + 1
      <4>1. r \in 1..Len(Q)
        BY <1>1, <2>1, <3>2
      <4> QED BY <1>2, <2>1, <4>1 DEF d
    <3> QED BY <3>1, <3>2
  <2>7. PagedTo(next, old, F, i + 1)
    BY <1>2, <2>1, <2>2, <2>5, <2>6 DEF PagedTo, k, R, d, m
  <2> QED BY <2>7 DEF next, row
<1>5. \/ Len(Q) >= R /\ next = [pages |-> Append(P, Q), rows |-> <<row>>]
      \/ ~(Len(Q) >= R) /\ next = [pages |-> P, rows |-> Append(Q, row)]
  <2>1. row \in X
    BY <1>1
  <2> HIDE DEF row
  <2> QED BY <2>1, AddRowIs DEF P, Q, R, next
<1> QED BY <1>3, <1>4, <1>5

\* The pages a+1..b hold the rows F, every page full but the last.
Sheets(pages, a, b, F) ==
    /\ a \in Nat /\ b \in Nat /\ a <= b
    /\ \A p \in (a + 1)..b :
         /\ Len(pages[p]) \in 1..Rows
         /\ \A r \in 1..Len(pages[p]) :
              /\ (p - a - 1) * Rows + r \in 1..Len(F)
              /\ pages[p][r] = F[(p - a - 1) * Rows + r]
    /\ \A j \in 1..Len(F) :
         \E p \in (a + 1)..b : \E r \in 1..Len(pages[p]) : j = (p - a - 1) * Rows + r

\* When the last page of an entry is closed, the pages since hold its rows in order.
LEMMA PagedSheets ==
    ASSUME NEW X, Rows \in Nat \ {0}, NEW old \in Seq(Seq(X)), NEW F \in Seq(X),
           NEW acc \in Paging(X), PagedTo(acc, old, F, Len(F))
    PROVE  LET pages == NewPage(acc).pages
           IN  /\ NewPage(acc) \in Paging(X) /\ NewPage(acc).rows = <<>>
               /\ Len(old) <= Len(pages) /\ \A p \in 1..Len(old) : pages[p] = old[p]
               /\ Sheets(pages, Len(old), Len(pages), F)
<1> DEFINE k == Len(old)
           P == acc.pages
           m == Len(P)
           Q == acc.rows
           R == Rows
           n == Len(F)
           pages == NewPage(acc).pages
<1>1. P \in Seq(Seq(X)) /\ Q \in Seq(X) /\ acc = [pages |-> P, rows |-> Q]
  BY DEF Paging
<1>2. /\ \A p \in 1..k : P[p] = old[p]
      /\ (m > k => Q # <<>>)
      /\ \A p \in (k + 1)..m : Len(P[p]) = R /\ \A r \in 1..R : P[p][r] = F[(p - k - 1) * R + r]
      /\ \A r \in 1..Len(Q) : Q[r] = F[(m - k) * R + r]
  BY DEF PagedTo
<1>3. k <= m /\ (m - k) * R + Len(Q) = n /\ Len(Q) <= R
  BY DEF PagedTo
<1>4. k \in Nat /\ m \in Nat /\ Len(Q) \in Nat /\ R \in Nat /\ R > 0 /\ n \in Nat
  BY <1>1
<1> HIDE DEF k, P, m, Q, R, n
<1>5. CASE Q = <<>>
  <2>1. NewPage(acc) = acc /\ pages = P
    BY <1>5 DEF NewPage, Q, P
  <2>2. m = k /\ Len(Q) = 0
    BY <1>2, <1>3, <1>4, <1>5
  <2>3. n = 0
    <3>1. m - k = 0
      BY <1>4, <2>2
    <3>2. 0 * R = 0
      BY <1>4
    <3> QED BY <1>3, <2>2, <3>1, <3>2
  <2> HIDE DEF pages
  <2>4. Sheets(pages, k, m, F)
    BY <1>4, <2>2, <2>3 DEF Sheets, n
  <2>5. acc.rows = <<>> /\ Len(pages) = m
    BY <1>5, <2>1 DEF Q, m
  <2> QED BY <1>2, <1>3, <2>1, <2>4, <2>5 DEF k, pages
<1>6. CASE Q # <<>>
  <2> DEFINE ap == Append(P, Q)
  <2>1. NewPage(acc) = [pages |-> ap, rows |-> <<>>]
    BY <1>6 DEF NewPage, Q, P
  <2>2. /\ ap \in Seq(Seq(X)) /\ Len(ap) = m + 1 /\ ap[m + 1] = Q
        /\ \A p \in 1..m : ap[p] = P[p]
    <3>1. Q \in Seq(X)
      BY <1>1
    <3> QED BY <1>1, <3>1, AppendProperties DEF m
  <2> HIDE DEF ap
  <2>3. NewPage(acc) \in Paging(X) /\ NewPage(acc).rows = <<>> /\ pages = ap
    BY <2>1, <2>2 DEF Paging
  <2> HIDE DEF pages
  <2>4. Len(Q) > 0
    BY <1>1, <1>4, <1>6
  <2> DEFINE d == m - k
  <2>5. d \in Nat /\ d * R \in Nat /\ d * R + Len(Q) = n /\ k + d = m
    <3>1. d \in Nat /\ k + d = m
      BY <1>3, <1>4
    <3>2. d * R + Len(Q) = n
      BY <1>3
    <3> HIDE DEF d
    <3> QED BY <1>4, <3>1, <3>2, Times
  <2> HIDE DEF d
  <2>6. ASSUME NEW p \in (k + 1)..(m + 1)
        PROVE  /\ Len(ap[p]) \in 1..R
               /\ \A r \in 1..Len(ap[p]) :
                    /\ (p - k - 1) * R + r \in 1..n
                    /\ ap[p][r] = F[(p - k - 1) * R + r]
    <3>1. CASE p = m + 1
      <4>1. p - k - 1 = d
        BY <1>4, <2>5, <3>1
      <4>2. \A r \in 1..Len(Q) : d * R + r \in 1..n
        BY <1>4, <2>5
      <4>3. Len(Q) \in 1..R
        BY <1>3, <1>4, <2>4
      <4>4. ASSUME NEW r \in 1..Len(Q) PROVE Q[r] = F[d * R + r]
        BY <1>2 DEF d
      <4> QED BY <2>2, <3>1, <4>1, <4>2, <4>3, <4>4
    <3>2. CASE p # m + 1
      <4>1. p \in (k + 1)..m /\ p \in 1..m
        BY <1>4, <3>2
      <4>2. ap[p] = P[p] /\ Len(P[p]) = R /\ \A r \in 1..R : P[p][r] = F[(p - k - 1) * R + r]
        BY <1>2, <2>2, <4>1
      <4> DEFINE e == p - k - 1
      <4>3. e \in Nat /\ e + 1 <= d /\ e + 1 \in Nat
        BY <1>4, <2>5, <4>1
      <4> HIDE DEF e
      <4>4. (e + 1) * R <= d * R /\ (e + 1) * R = e * R + R /\ e * R \in Nat
        BY <1>4, <2>5, <4>3, Times
      <4>5. ASSUME NEW r \in 1..R PROVE e * R + r \in 1..n
        BY <1>4, <2>5, <4>4
      <4>6. R \in 1..R
        BY <1>4
      <4> QED BY <4>2, <4>5, <4>6 DEF e
    <3> QED BY <3>1, <3>2
  <2>7. ASSUME NEW j \in 1..n
        PROVE  \E p \in (k + 1)..(m + 1) : \E r \in 1..Len(ap[p]) : j = (p - k - 1) * R + r
    <3> DEFINE h == j - 1
               q == h \div R
               c == h % R
               p == k + 1 + q
    <3>1. h \in Nat
      BY <1>4
    <3>2. q \in Nat /\ c \in 0..(R - 1) /\ h = q * R + c /\ q * R \in Nat
      <4> HIDE DEF h
      <4>1. q \in Nat /\ c \in 0..(R - 1) /\ h = q * R + c
        <5>1. R \in Nat \ {0}
          BY <1>4
        <5> QED BY <3>1, <5>1, DivMod
      <4> HIDE DEF q
      <4>2. q * R \in Nat
        BY <1>4, <4>1, Times
      <4> QED BY <4>1, <4>2
    <3> HIDE DEF q, c
    <3>3. q <= d
      <4> SUFFICES ASSUME q >= d + 1 PROVE FALSE
        BY <2>5, <3>2
      <4>1. (d + 1) * R <= q * R /\ (d + 1) * R = d * R + R
        <5>1. d + 1 \in Nat
          BY <2>5
        <5> QED BY <1>4, <2>5, <3>2, <5>1, Times
      <4> QED BY <1>3, <1>4, <2>5, <3>2, <4>1
    <3>4. p \in (k + 1)..(m + 1) /\ p - k - 1 = q
      BY <1>4, <2>5, <3>2, <3>3
    <3>5. c + 1 \in 1..Len(ap[p])
      <4>1. CASE q = d
        <5>1. p = m + 1
          BY <1>4, <2>5, <4>1
        <5>2. c + 1 <= Len(Q)
          BY <1>4, <2>5, <3>2, <4>1
        <5>3. c + 1 \in 1..Len(Q)
          BY <1>4, <3>2, <5>2
        <5> QED BY <2>2, <5>1, <5>3
      <4>2. CASE q # d
        <5>1. p \in (k + 1)..m /\ p \in 1..m
          BY <1>4, <2>5, <3>2, <3>3, <4>2
        <5>2. Len(ap[p]) = R
          BY <1>2, <2>2, <5>1
        <5> QED BY <1>4, <3>2, <5>2
      <4> QED BY <4>1, <4>2
    <3>6. j = q * R + (c + 1)
      BY <1>4, <3>2
    <3> HIDE DEF p, h
    <3> QED BY <3>4, <3>5, <3>6
  <2>8. Sheets(ap, k, m + 1, F)
    <3>1. m + 1 \in Nat /\ k <= m + 1
      BY <1>3, <1>4
    <3> QED BY <1>4, <2>6, <2>7, <3>1 DEF Sheets, R, n
  <2>9. k <= m + 1 /\ \A p \in 1..k : ap[p] = old[p]
    <3>1. \A p \in 1..k : p \in 1..m
      BY <1>3, <1>4
    <3>2. k <= m + 1
      BY <1>3, <1>4
    <3> QED BY <1>2, <2>2, <3>1, <3>2
  <2> QED BY <2>2, <2>3, <2>8, <2>9 DEF k, pages
<1> QED BY <1>5, <1>6

\* The rows of an entry.
LineRows(entry) == LET lines == EntryLines(entry) IN [i \in DOMAIN lines |-> RewrapLine(lines[i])]
EntryRows(entry) == FlattenSeq(LineRows(entry))

\* The rows of an entry are its lines, each cut into rows of its own.
LEMMA EntryRowsAre ==
    ASSUME NEW T, Space \in T, Cols \in Nat \ {0}, NEW entry, EntryLines(entry) \in Seq(Seq(T))
    PROVE  LET lines == EntryLines(entry)
               rows == LineRows(entry)
           IN  /\ rows \in Seq(Seq(Seq(T))) /\ Len(rows) = Len(lines)
               /\ \A l \in 1..Len(lines) :
                    /\ rows[l] \in Seq(Seq(T)) /\ Len(rows[l]) > 0
                    /\ \E at : Cut(rows[l], at, lines[l])
               /\ EntryRows(entry) \in Seq(Seq(T))
               /\ \E base : Strung(EntryRows(entry), base, rows, Len(lines))
<1> DEFINE lines == EntryLines(entry)
           n == Len(lines)
           rows == LineRows(entry)
<1>1. n \in Nat /\ DOMAIN lines = 1..n /\ \A l \in 1..n : lines[l] \in Seq(T)
  OBVIOUS
<1>2. rows = [l \in 1..n |-> RewrapLine(lines[l])]
  BY <1>1 DEF LineRows
<1> HIDE DEF lines, n, rows
<1>3. ASSUME NEW l \in 1..n
      PROVE  /\ RewrapLine(lines[l]) \in Seq(Seq(T)) /\ Len(RewrapLine(lines[l])) > 0
             /\ \E at : Cut(RewrapLine(lines[l]), at, lines[l])
  <2> DEFINE w == RewrapLine(lines[l])
  <2>1. w \in Seq(Seq(T)) /\ w # <<>> /\ \E at : Cut(w, at, lines[l])
    BY <1>1, RewrapIs
  <2> HIDE DEF w
  <2>2. Len(w) > 0
    BY <2>1
  <2> QED BY <2>1, <2>2 DEF w
<1> DEFINE X == Seq(Seq(T))
<1>4. rows \in Seq(X) /\ Len(rows) = n
  <2>1. \A l \in 1..n : RewrapLine(lines[l]) \in X
    BY <1>3
  <2> HIDE DEF X
  <2> QED BY <1>1, <1>2, <2>1
<1>5. \A l \in 1..n : rows[l] = RewrapLine(lines[l])
  BY <1>2
<1>6. EntryRows(entry) \in X /\ \E base : Strung(EntryRows(entry), base, rows, Len(rows))
  BY <1>4, FlattenStrung DEF EntryRows, rows
<1>7. \A l \in 1..n : /\ rows[l] \in X /\ Len(rows[l]) > 0
                      /\ \E at : Cut(rows[l], at, lines[l])
  <2> HIDE DEF X
  <2> SUFFICES ASSUME NEW l \in 1..n
               PROVE  rows[l] \in X /\ Len(rows[l]) > 0 /\ \E at : Cut(rows[l], at, lines[l])
    OBVIOUS
  <2>1. rows[l] = RewrapLine(lines[l])
    BY <1>5
  <2> QED BY <1>3, <2>1 DEF X
<1> QED BY <1>4, <1>6, <1>7 DEF n, lines, rows

\* One entry more: pages of its own, after those there are.
LEMMA AddEntryIs ==
    ASSUME NEW X, Rows \in Nat \ {0}, NEW acc \in Paging(X), NEW entry,
           EntryRows(entry) \in Seq(X)
    PROVE  LET old == NewPage(acc).pages
               new == NewPage(AddEntry(acc, entry)).pages
           IN  /\ AddEntry(acc, entry) \in Paging(X)
               /\ old \in Seq(Seq(X)) /\ new \in Seq(Seq(X))
               /\ Len(old) <= Len(new) /\ \A p \in 1..Len(old) : new[p] = old[p]
               /\ Sheets(new, Len(old), Len(new), EntryRows(entry))
<1> DEFINE F == EntryRows(entry)
           n == Len(F)
           start == NewPage(acc)
           old == start.pages
           end == AddRows(start, F)
<1>1. AddEntry(acc, entry) = end
  BY Zenon DEF AddEntry, AddRows, EntryRows, LineRows
<1>2. F \in Seq(X) /\ n \in Nat
  OBVIOUS
<1>3. start \in Paging(X) /\ start.rows = <<>> /\ old \in Seq(Seq(X))
  <2>1. acc.pages \in Seq(Seq(X)) /\ acc.rows \in Seq(X)
    BY DEF Paging
  <2> DEFINE ap == Append(acc.pages, acc.rows)
  <2>2. ap \in Seq(Seq(X))
    BY <2>1, AppendProperties, Zenon
  <2> HIDE DEF ap
  <2>3. start = IF acc.rows = <<>> THEN acc ELSE [pages |-> ap, rows |-> <<>>]
    BY DEF NewPage, ap
  <2> HIDE DEF start
  <2>4. start \in Paging(X) /\ start.rows = <<>>
    BY <2>2, <2>3 DEF Paging
  <2>5. start.pages \in Seq(Seq(X))
    BY <2>4 DEF Paging
  <2> QED BY <2>4, <2>5
<1> HIDE DEF F, n, start
<1>4. PICK run : AddRowsRun(run, X, start, F)
  BY <1>2, <1>3, AddRowsFold
<1>5. /\ run \in [0..n -> Paging(X)] /\ run[0] = start /\ run[n] = end
      /\ \A i \in 1..n : run[i] = AddRow(run[i - 1], F[i])
  BY <1>4 DEF AddRowsRun, n
<1> HIDE DEF end, old
<1> DEFINE S == {i \in Nat : PagedTo(run[i], old, F, i)}
<1>6. 0 \in S
  <2>1. start.pages = old /\ Len(old) \in Nat /\ Len(start.rows) = 0
    BY <1>3 DEF old
  <2>2. (Len(old) - Len(old)) * Rows + 0 = 0
    <3>1. Len(old) - Len(old) = 0
      BY <2>1
    <3> QED BY <3>1
  <2>3. PagedTo(start, old, F, 0)
    BY <2>1, <2>2 DEF PagedTo
  <2> QED BY <1>5, <2>3
<1>7. ASSUME NEW i \in 0..(n - 1), i \in S PROVE i + 1 \in S
  <2>1. i + 1 \in 1..n /\ (i + 1) - 1 = i /\ i \in 0..n /\ i + 1 \in Nat
    BY <1>2
  <2>2. run[i] \in Paging(X) /\ run[i + 1] = AddRow(run[i], F[i + 1])
    BY <1>5, <2>1
  <2>3. PagedTo(run[i], old, F, i)
    BY <1>7
  <2>4. i \in 0..(Len(F) - 1)
    BY DEF n
  <2>5. PagedTo(AddRow(run[i], F[i + 1]), old, F, i + 1)
    BY <1>2, <1>3, <2>2, <2>3, <2>4, PagedMore DEF old
  <2> QED BY <2>1, <2>2, <2>5
<1> HIDE DEF S
<1>8. \A i \in 0..n : i \in S
  BY <1>2, <1>6, <1>7, UpTo
<1>9. PagedTo(end, old, F, Len(F)) /\ end \in Paging(X)
  BY <1>2, <1>5, <1>8 DEF S, n
<1> DEFINE new == NewPage(end).pages
<1>10. /\ NewPage(end) \in Paging(X)
       /\ Len(old) <= Len(new) /\ \A p \in 1..Len(old) : new[p] = old[p]
       /\ Sheets(new, Len(old), Len(new), F)
  BY <1>2, <1>3, <1>9, PagedSheets DEF old
<1>11. new \in Seq(Seq(X))
  BY <1>10 DEF Paging
<1> QED BY <1>1, <1>3, <1>9, <1>10, <1>11 DEF old, start, F

\* Pages that are only added to keep the rows of an entry.
LEMMA SheetsKept ==
    ASSUME NEW p1, NEW p2, NEW a \in Nat, NEW b, NEW F, Sheets(p1, a, b, F),
           \A p \in 1..b : p2[p] = p1[p]
    PROVE  Sheets(p2, a, b, F)
<1>1. b \in Nat
  BY DEF Sheets
<1>2. \A p \in (a + 1)..b : p2[p] = p1[p]
  BY <1>1
<1>3. \A j \in 1..Len(F) :
         \E p \in (a + 1)..b : \E r \in 1..Len(p2[p]) : j = (p - a - 1) * Rows + r
  <2> SUFFICES ASSUME NEW j \in 1..Len(F)
               PROVE  \E p \in (a + 1)..b : \E r \in 1..Len(p2[p]) : j = (p - a - 1) * Rows + r
    OBVIOUS
  <2>1. PICK p \in (a + 1)..b : \E r \in 1..Len(p1[p]) : j = (p - a - 1) * Rows + r
    BY DEF Sheets
  <2> QED BY <1>2, <2>1
<1>4. \A p \in (a + 1)..b :
         /\ Len(p2[p]) \in 1..Rows
         /\ \A r \in 1..Len(p2[p]) :
              /\ (p - a - 1) * Rows + r \in 1..Len(F)
              /\ p2[p][r] = F[(p - a - 1) * Rows + r]
  <2> SUFFICES ASSUME NEW p \in (a + 1)..b
               PROVE  /\ Len(p1[p]) \in 1..Rows
                      /\ \A r \in 1..Len(p1[p]) :
                           /\ (p - a - 1) * Rows + r \in 1..Len(F)
                           /\ p1[p][r] = F[(p - a - 1) * Rows + r]
    BY <1>2
  <2> QED BY DEF Sheets
<1>5. a <= b
  BY DEF Sheets
<1> QED BY <1>1, <1>3, <1>4, <1>5 DEF Sheets

AddEntries(entries) == FoldLeft(AddEntry, [pages |-> <<>>, rows |-> <<>>], entries)
EntriesRun(acc, X, entries) ==
    /\ acc \in [0..Len(entries) -> Paging(X)]
    /\ acc[0] = [pages |-> <<>>, rows |-> <<>>] /\ acc[Len(entries)] = AddEntries(entries)
    /\ \A i \in 1..Len(entries) : acc[i] = AddEntry(acc[i - 1], entries[i])

\* The pages, after each entry.
LEMMA EntriesFold ==
    ASSUME NEW X, Rows \in Nat \ {0}, NEW E, \A e \in E : EntryRows(e) \in Seq(X),
           NEW entries \in Seq(E)
    PROVE  \E acc : EntriesRun(acc, X, entries)
<1> DEFINE start == [pages |-> <<>>, rows |-> <<>>]
           n == Len(entries)
           A == Paging(X)
           P(f) == f = [S \in SUBSET DOMAIN entries |->
                         IF S = {} THEN start
                         ELSE AddEntry(f[S \ {Max(S)}], entries[Max(S)])]
           iter == CHOOSE f : P(f)
           step == [p \in (1..n) \X A |-> AddEntry(p[2], entries[p[1]])]
<1>1. AddEntries(entries) = iter[DOMAIN entries]
  BY Zenon DEF AddEntries, FoldLeft, MapThenFoldSet
<1>2. n \in Nat /\ DOMAIN entries = 1..n /\ \A i \in 1..n : entries[i] \in E /\ EntryRows(entries[i]) \in Seq(X)
  OBVIOUS
<1>3. start \in A
  BY DEF Paging
<1>4. /\ step \in [(1..n) \X A -> A]
      /\ \A i \in 1..n : \A a \in A : step[<<i, a>>] = AddEntry(a, entries[i])
  <2>1. \A i \in 1..n : \A a \in A : AddEntry(a, entries[i]) \in A
    BY <1>2, AddEntryIs
  <2> HIDE DEF A, n
  <2> QED BY <2>1
<1> HIDE DEF step, n, A, start
<1>5. P(iter)
  <2> SUFFICES \E f : P(f)
    <3> HIDE DEF P
    <3> QED OBVIOUS
  <2> HIDE DEF iter
  <2>1. PICK f : IsFold(f, A, n, start, step)
    BY <1>2, <1>3, <1>4, FoldExists
  <2>2. \A S \in SUBSET (1..n) : S # {} =>
           step[<<Max(S), f[S \ {Max(S)}]>>] = AddEntry(f[S \ {Max(S)}], entries[Max(S)])
    BY <1>2, <1>4, <2>1, MaxOfPlaces DEF IsFold
  <2>3. /\ f = [S \in SUBSET (1..n) |-> f[S]]
        /\ \A S \in SUBSET (1..n) :
             f[S] = IF S = {} THEN start ELSE AddEntry(f[S \ {Max(S)}], entries[Max(S)])
    BY <2>1, <2>2, Zenon DEF IsFold
  <2>4. f = [S \in SUBSET (1..n) |->
              IF S = {} THEN start ELSE AddEntry(f[S \ {Max(S)}], entries[Max(S)])]
    BY <2>3, Zenon
  <2>5. P(f)
    BY <1>2, <2>4, Zenon
  <2> HIDE DEF P
  <2> QED BY <2>5
<1> HIDE DEF iter
<1>6. IsFoldOver(iter, A, n, start, step)
  <2>1. ASSUME NEW S \in SUBSET (1..n)
        PROVE  iter[S] = IF S = {} THEN start ELSE AddEntry(iter[S \ {Max(S)}], entries[Max(S)])
    BY <1>2, <1>5
  <2> HIDE DEF P
  <2>2. \A S \in SUBSET (1..n) : S # {} => Max(S) \in 1..n
    BY <1>2, MaxOfPlaces
  <2> QED BY <1>4, <2>1, <2>2 DEF IsFoldOver
<1> HIDE DEF P
<1>7. PICK acc : IsRun(acc, A, n, start, step, iter[1..n])
  BY <1>2, <1>3, <1>4, <1>6, FoldChain
<1>8. \A i \in 1..n : i - 1 \in 0..n
  BY <1>2
<1>9. /\ acc \in [0..n -> A] /\ acc[0] = start /\ acc[n] = AddEntries(entries)
      /\ \A i \in 1..n : acc[i] = AddEntry(acc[i - 1], entries[i])
  BY <1>1, <1>2, <1>4, <1>7, <1>8 DEF IsRun
<1> QED BY <1>9 DEF EntriesRun, n, A, start


\* The pages of the first n entries: those of the e-th follow the page off[e].
LaidOut(pages, off, entries, n) ==
    /\ \A e \in 1..(n + 1) : off[e] \in 0..Len(pages)
    /\ off[1] = 0 /\ off[n + 1] = Len(pages)
    /\ \A e \in 1..n :
         off[e] <= off[e + 1] /\ Sheets(pages, off[e], off[e + 1], EntryRows(entries[e]))
    /\ \A p \in 1..Len(pages) : \E e \in 1..n : p \in (off[e] + 1)..off[e + 1]

\* An entry more: every entry has pages of its own, in order.
LEMMA LaidOutMore ==
    ASSUME NEW X, Rows \in Nat \ {0}, NEW acc \in Paging(X), NEW entries, NEW n \in Nat, NEW off,
           EntryRows(entries[n + 1]) \in Seq(X),
           LaidOut(NewPage(acc).pages, off, entries, n),
           off[n + 2] = Len(NewPage(AddEntry(acc, entries[n + 1])).pages)
    PROVE  LaidOut(NewPage(AddEntry(acc, entries[n + 1])).pages, off, entries, n + 1)
<1> DEFINE old == NewPage(acc).pages
           new == NewPage(AddEntry(acc, entries[n + 1])).pages
           k == Len(old)
           m == Len(new)
<1>1. /\ old \in Seq(Seq(X)) /\ new \in Seq(Seq(X))
      /\ k <= m /\ \A p \in 1..k : new[p] = old[p]
      /\ Sheets(new, k, m, EntryRows(entries[n + 1]))
  BY AddEntryIs
<1> HIDE DEF old, new
<1>2. k \in Nat /\ m \in Nat
  BY <1>1
<1>3. /\ \A e \in 1..(n + 1) : off[e] \in 0..k
      /\ off[1] = 0 /\ off[n + 1] = k /\ off[n + 2] = m
      /\ \A e \in 1..n : off[e] <= off[e + 1] /\ Sheets(old, off[e], off[e + 1], EntryRows(entries[e]))
      /\ \A p \in 1..k : \E e \in 1..n : p \in (off[e] + 1)..off[e + 1]
  BY DEF LaidOut, old, new
<1> HIDE DEF k, m
<1>4. \A e \in 1..(n + 2) : off[e] \in 0..m
  <2> SUFFICES ASSUME NEW e \in 1..(n + 2) PROVE off[e] \in 0..m
    OBVIOUS
  <2>1. CASE e = n + 2
    BY <1>2, <1>3, <2>1
  <2>2. CASE e # n + 2
    <3>1. e \in 1..(n + 1)
      BY <2>2
    <3>2. off[e] \in 0..k /\ k <= m
      BY <1>1, <1>3, <3>1 DEF k, m
    <3> QED BY ONLY <1>2, <3>2
  <2> QED BY <2>1, <2>2
<1>5. ASSUME NEW e \in 1..(n + 1)
      PROVE  off[e] <= off[e + 1] /\ Sheets(new, off[e], off[e + 1], EntryRows(entries[e]))
  <2>1. CASE e = n + 1
    <3>1. e + 1 = n + 2 /\ off[e] = k /\ off[e + 1] = m /\ entries[e] = entries[n + 1]
      BY <1>3, <2>1
    <3> QED BY <1>1, <3>1 DEF k, m
  <2>2. CASE e # n + 1
    <3>1. e \in 1..n /\ e \in 1..(n + 1) /\ e + 1 \in 1..(n + 1)
      BY <2>2
    <3>2. off[e] \in Nat /\ off[e + 1] \in 0..k /\ off[e] <= off[e + 1]
          /\ Sheets(old, off[e], off[e + 1], EntryRows(entries[e]))
      BY <1>3, <3>1
    <3>3. \A p \in 1..off[e + 1] : new[p] = old[p]
      <4>1. \A p \in 1..off[e + 1] : p \in 1..k
        BY <1>2, <3>2
      <4> QED BY <1>1, <4>1 DEF k
    <3>4. Sheets(new, off[e], off[e + 1], EntryRows(entries[e]))
      BY <3>2, <3>3, SheetsKept
    <3> QED BY <3>2, <3>4
  <2> QED BY <2>1, <2>2
<1>6. ASSUME NEW p \in 1..m PROVE \E e \in 1..(n + 1) : p \in (off[e] + 1)..off[e + 1]
  <2>1. CASE p <= k
    <3>1. p \in 1..k
      BY <1>2, <2>1
    <3>2. PICK e \in 1..n : p \in (off[e] + 1)..off[e + 1]
      BY <1>3, <3>1
    <3>3. e \in 1..(n + 1)
      OBVIOUS
    <3> QED BY <3>2, <3>3
  <2>2. CASE ~(p <= k)
    <3>1. n + 1 \in 1..(n + 1) /\ (n + 1) + 1 = n + 2
      OBVIOUS
    <3>2. p \in (off[n + 1] + 1)..off[(n + 1) + 1]
      BY <1>2, <1>3, <2>2, <3>1
    <3> QED BY <3>1, <3>2
  <2> QED BY <2>1, <2>2
<1>7. (n + 1) + 1 = n + 2
  OBVIOUS
<1>8. off[1] = 0 /\ off[(n + 1) + 1] = m
  BY <1>3, <1>7
<1> QED BY <1>4, <1>5, <1>6, <1>7, <1>8 DEF LaidOut, m, new

\* Every entry has pages of its own, in their order.
LEMMA EntriesLaidOut ==
    ASSUME NEW X, Rows \in Nat \ {0}, NEW E, \A e \in E : EntryRows(e) \in Seq(X),
           NEW entries \in Seq(E)
    PROVE  LET pages == NewPage(AddEntries(entries)).pages
           IN  /\ pages \in Seq(Seq(X))
               /\ \E off : LaidOut(pages, off, entries, Len(entries))
<1> DEFINE n == Len(entries)
           start == [pages |-> <<>>, rows |-> <<>>]
<1>1. PICK acc : EntriesRun(acc, X, entries)
  BY EntriesFold
<1>2. /\ acc \in [0..n -> Paging(X)] /\ acc[0] = start /\ acc[n] = AddEntries(entries)
      /\ \A i \in 1..n : acc[i] = AddEntry(acc[i - 1], entries[i])
  BY <1>1 DEF EntriesRun
<1>3. n \in Nat /\ \A i \in 1..n : entries[i] \in E /\ EntryRows(entries[i]) \in Seq(X)
  OBVIOUS
<1> HIDE DEF n
<1> DEFINE held(i) == NewPage(acc[i]).pages
           off == [e \in 1..(n + 1) |-> Len(held(e - 1))]
           S == {i \in Nat : LaidOut(held(i), off, entries, i)}
<1>4. \A i \in 0..n : i + 1 \in 1..(n + 1) /\ (i + 1) - 1 = i
  BY <1>3
<1> HIDE DEF held
<1>5. \A i \in 0..n : off[i + 1] = Len(held(i))
  BY <1>4
<1> HIDE DEF off
<1>6. held(0) = <<>>
  BY <1>2 DEF held, NewPage
<1>7. 0 \in S
  <2>1. off[1] = 0 /\ Len(<<>>) = 0
    <3>1. 0 \in 0..n /\ 0 + 1 = 1
      BY <1>3
    <3> QED BY <1>5, <1>6, <3>1
  <2>2. \A e \in 1..(0 + 1) : e = 1
    OBVIOUS
  <2>3. LaidOut(<<>>, off, entries, 0)
    <3>1. \A e \in 1..(0 + 1) : off[e] \in 0..Len(<<>>)
      BY <2>1, <2>2
    <3>2. off[0 + 1] = Len(<<>>)
      BY <2>1
    <3> QED BY <2>1, <3>1, <3>2 DEF LaidOut
  <2> QED BY <1>6, <2>3
<1>8. ASSUME NEW i \in 0..(n - 1), i \in S PROVE i + 1 \in S
  <2>1. i + 1 \in 1..n /\ (i + 1) - 1 = i /\ i \in 0..n /\ i + 1 \in 0..n /\ i + 1 \in Nat
        /\ i + 2 = (i + 1) + 1 /\ i \in Nat
    BY <1>3
  <2>2. acc[i] \in Paging(X) /\ acc[i + 1] = AddEntry(acc[i], entries[i + 1])
        /\ EntryRows(entries[i + 1]) \in Seq(X)
    BY <1>2, <1>3, <2>1
  <2>3. LaidOut(NewPage(acc[i]).pages, off, entries, i)
    BY <1>8 DEF held
  <2>4. off[i + 2] = Len(NewPage(AddEntry(acc[i], entries[i + 1])).pages)
    BY <1>5, <2>1, <2>2 DEF held
  <2> HIDE DEF S
  <2>5. LaidOut(NewPage(AddEntry(acc[i], entries[i + 1])).pages, off, entries, i + 1)
    BY <2>1, <2>2, <2>3, <2>4, LaidOutMore
  <2>6. LaidOut(held(i + 1), off, entries, i + 1)
    BY <2>2, <2>5 DEF held
  <2> QED BY <2>1, <2>6 DEF S
<1> HIDE DEF S
<1>9. \A i \in 0..n : i \in S
  BY <1>3, <1>7, <1>8, UpTo
<1>10. LaidOut(held(n), off, entries, n)
  BY <1>3, <1>9 DEF S
<1>11. held(n) \in Seq(Seq(X))
  <2>1. acc[n] \in Paging(X)
    BY <1>2, <1>3
  <2>2. acc[n].pages \in Seq(Seq(X)) /\ acc[n].rows \in Seq(X)
    BY <2>1 DEF Paging
  <2> DEFINE P == acc[n].pages
             ap == Append(P, acc[n].rows)
  <2>3. ap \in Seq(Seq(X))
    BY <2>2, AppendProperties, Zenon
  <2>4. held(n) = P \/ held(n) = ap
    <3> HIDE DEF ap
    <3>1. held(n) = IF acc[n].rows = <<>> THEN P ELSE [pages |-> ap, rows |-> <<>>].pages
      BY DEF held, NewPage, ap
    <3> QED BY <3>1
  <2> QED BY <2>2, <2>3, <2>4
<1>12. held(n) = NewPage(AddEntries(entries)).pages
  BY <1>2 DEF held
<1> QED BY <1>10, <1>11, <1>12 DEF n

\* Multiplication is commutative.
LEMMA Commute == ASSUME NEW a \in Nat, NEW b \in Nat PROVE a * b = b * a /\ a * b \in Nat
OBVIOUS

\* Where the c-th column of the r-th row of a page is in its string.
LEMMA RowCell ==
    ASSUME NEW C \in Nat \ {0}, NEW R \in Nat \ {0}, NEW r \in 1..R, NEW c \in 1..C
    PROVE  LET i == (r - 1) * C + c
           IN  /\ (r - 1) * C \in Nat /\ i \in 1..(C * R)
               /\ (i - 1) \div C + 1 = r /\ ((i - 1) % C) + 1 = c
<1> DEFINE q == r - 1
           h == c - 1
<1>1. q \in Nat /\ h \in 0..(C - 1) /\ q + 1 \in Nat /\ q + 1 <= R /\ C \in Nat /\ R \in Nat
  OBVIOUS
<1>2. q * C \in Nat /\ (q + 1) * C = q * C + C /\ (q + 1) * C <= R * C /\ R * C \in Nat
  <2> HIDE DEF q, h
  <2> QED BY <1>1, Times
<1>3. R * C = C * R
  BY <1>1, Commute
<1>4. (q * C + h) \div C = q /\ (q * C + h) % C = h
  <2> HIDE DEF q, h
  <2> QED BY <1>1, DivModUnique
<1> DEFINE b == q * C
<1>5. b \in Nat /\ b + C <= C * R /\ C * R \in Nat
  <2> HIDE DEF q, h
  <2> QED BY <1>2, <1>3
<1>6. b + c \in 1..(C * R) /\ (b + c) - 1 = b + h
  <2> DEFINE m == C * R
  <2>1. b \in Nat /\ b + C <= m /\ m \in Nat
    BY <1>5
  <2> HIDE DEF b, m
  <2> QED BY <2>1 DEF m
<1>7. ((b + c) - 1) \div C = q /\ ((b + c) - 1) % C = h
  BY <1>4, <1>6
<1> HIDE DEF b
<1>8. q + 1 = r /\ h + 1 = c
  OBVIOUS
<1> QED BY <1>5, <1>6, <1>7, <1>8 DEF b

\* The row and the column of a cell of a page.
LEMMA CellRow ==
    ASSUME NEW C \in Nat \ {0}, NEW R \in Nat \ {0}, NEW i \in 1..(C * R)
    PROVE  /\ (i - 1) \div C + 1 \in 1..R /\ ((i - 1) % C) + 1 \in 1..C
           /\ i = ((i - 1) \div C) * C + ((i - 1) % C) + 1
<1> DEFINE h == i - 1
           q == h \div C
           c == h % C
<1>1. C * R \in Nat /\ C * R = R * C /\ C \in Nat /\ R \in Nat
  BY Commute
<1>2. h \in Nat /\ h + 1 <= R * C
  <2> DEFINE m == C * R
  <2> HIDE DEF m
  <2>1. i \in 1..m
    BY DEF m
  <2>2. h \in Nat /\ h + 1 <= m
    BY <2>1
  <2> QED BY <1>1, <2>2 DEF m
<1> HIDE DEF h
<1>3. q \in Nat /\ c \in 0..(C - 1) /\ h = q * C + c
  BY <1>2, DivMod
<1> HIDE DEF q, c
<1>4. q < R
  <2> SUFFICES ASSUME R <= q PROVE FALSE
    BY <1>1, <1>3
  <2>1. R * C <= q * C /\ q * C \in Nat /\ R * C \in Nat
    BY <1>1, <1>3, Times
  <2> QED BY <1>2, <1>3, <2>1
<1>5. i = q * C + c + 1
  <2>1. q * C \in Nat
    BY <1>1, <1>3, Times
  <2>2. i = h + 1
    BY DEF h
  <2> QED BY <1>3, <2>1, <2>2
<1> QED BY <1>1, <1>3, <1>4, <1>5 DEF q, c, h

\* A page is its rows, padded with spaces to the full grid.
LEMMA GridIs ==
    ASSUME NEW T, Space \in T, Cols \in Nat \ {0}, Rows \in Nat \ {0}, NEW rows \in Seq(Seq(T))
    PROVE  /\ Grid(rows) \in Seq(T) /\ Len(Grid(rows)) = PageChars
           /\ \A r \in 1..Rows : \A c \in 1..Cols :
                /\ (r - 1) * Cols + c \in 1..PageChars
                /\ Grid(rows)[(r - 1) * Cols + c] =
                     IF r <= Len(rows) /\ c <= Len(rows[r]) THEN rows[r][c] ELSE Space
<1> DEFINE C == Cols
           R == Rows
           at(r, c) == IF r <= Len(rows) /\ c <= Len(rows[r]) THEN rows[r][c] ELSE Space
           cell(i) == at((i - 1) \div C + 1, ((i - 1) % C) + 1)
           g == [i \in 1..(C * R) |-> cell(i)]
<1>1. Grid(rows) = g /\ PageChars = C * R
  BY DEF Grid, PageChars
<1>2. C \in Nat \ {0} /\ R \in Nat \ {0} /\ C * R \in Nat
  <2>1. C \in Nat \ {0} /\ R \in Nat \ {0}
    OBVIOUS
  <2> HIDE DEF C, R
  <2> QED BY <2>1, Commute
<1> HIDE DEF C, R
<1>3. \A r \in 1..R : \A c \in 1..C : at(r, c) \in T
  <2> SUFFICES ASSUME NEW r \in 1..R, NEW c \in 1..C PROVE at(r, c) \in T
    OBVIOUS
  <2>1. CASE r <= Len(rows) /\ c <= Len(rows[r])
    <3>1. r \in 1..Len(rows)
      BY <1>2, <2>1
    <3>2. rows[r] \in Seq(T)
      BY <3>1
    <3>3. c \in 1..Len(rows[r])
      BY <1>2, <2>1, <3>2
    <3> QED BY <2>1, <3>2, <3>3
  <2>2. CASE ~(r <= Len(rows) /\ c <= Len(rows[r]))
    BY <2>2
  <2> QED BY <2>1, <2>2
<1> HIDE DEF at
<1>4. \A i \in 1..(C * R) : cell(i) \in T
  <2> SUFFICES ASSUME NEW i \in 1..(C * R) PROVE cell(i) \in T
    OBVIOUS
  <2>1. (i - 1) \div C + 1 \in 1..R /\ ((i - 1) % C) + 1 \in 1..C
    BY <1>2, CellRow
  <2> QED BY <1>3, <2>1
<1>5. g \in Seq(T) /\ Len(g) = C * R
  <2> HIDE DEF cell
  <2> DEFINE m == C * R
  <2>1. m \in Nat /\ \A i \in 1..m : cell(i) \in T
    BY <1>2, <1>4
  <2> HIDE DEF m
  <2>2. [i \in 1..m |-> cell(i)] \in Seq(T) /\ Len([i \in 1..m |-> cell(i)]) = m
    BY <2>1
  <2> QED BY <2>2 DEF m
<1>6. ASSUME NEW r \in 1..R, NEW c \in 1..C
      PROVE  (r - 1) * C + c \in 1..(C * R) /\ g[(r - 1) * C + c] = at(r, c)
  <2> DEFINE i == (r - 1) * C + c
  <2>1. i \in 1..(C * R) /\ (i - 1) \div C + 1 = r /\ ((i - 1) % C) + 1 = c
    BY <1>2, RowCell
  <2> HIDE DEF i
  <2>2. g[i] = cell(i)
    BY <2>1
  <2>3. cell(i) = at(r, c)
    BY <2>1
  <2> QED BY <2>1, <2>2, <2>3 DEF i
<1> HIDE DEF g
<1> QED BY <1>1, <1>5, <1>6 DEF C, R, at

\* The pages before MAX_PAGES and the padding.
AllPages(entries) == NewPage(AddEntries(entries)).pages

\* What a page of the reply shows in a column of a row.
Printed(all, p, r, c) ==
    IF p <= Len(all) /\ r <= Len(all[p]) /\ c <= Len(all[p][r]) THEN all[p][r][c] ELSE Space

\* layout_pages: at most MaxPages pages, each of PageChars characters, with the rows of the
\* laid out reply padded to their width.
LEMMA LayoutIs ==
    ASSUME NEW T, Space \in T, Cols \in Nat \ {0}, Rows \in Nat \ {0}, NEW entries,
           AllPages(entries) \in Seq(Seq(Seq(T)))
    PROVE  LET pages == LayoutPages(entries)
               all == AllPages(entries)
           IN  /\ pages \in Seq(Seq(T)) /\ Len(pages) \in 1..MaxPages
               /\ Len(pages) < MaxPages => Len(all) <= Len(pages)
               /\ \A p \in 1..Len(pages) :
                    /\ Len(pages[p]) = PageChars
                    /\ \A r \in 1..Rows : \A c \in 1..Cols :
                         pages[p][(r - 1) * Cols + c] = Printed(all, p, r, c)
<1> DEFINE all == AllPages(entries)
           row == <<>>
           page == <<row>>
           blank == <<page>>
           from == IF all = <<>> THEN blank ELSE all
           kept == First(from, MaxPages)
           n == Len(kept)
           pages == LayoutPages(entries)
<1>1. pages = [p \in DOMAIN kept |-> Grid(kept[p])]
  BY Zenon DEF LayoutPages, AddEntries, AllPages, Keep
<1>2. all \in Seq(Seq(Seq(T))) /\ MaxPages \in Nat \ {0}
  BY LayoutAssumption
<1>3. /\ blank \in Seq(Seq(Seq(T))) /\ Len(blank) = 1 /\ blank[1] = page
      /\ page \in Seq(Seq(T)) /\ Len(page) = 1 /\ page[1] = row /\ Len(row) = 0
  <2>1. row \in Seq(T) /\ Len(row) = 0
    OBVIOUS
  <2> HIDE DEF row
  <2>2. page \in Seq(Seq(T)) /\ Len(page) = 1 /\ page[1] = row
    BY <2>1
  <2> HIDE DEF page
  <2>3. blank \in Seq(Seq(Seq(T))) /\ Len(blank) = 1 /\ blank[1] = page
    BY <2>2
  <2> QED BY <2>1, <2>2, <2>3
<1> HIDE DEF all, row, page, blank
<1>4. from \in Seq(Seq(Seq(T))) /\ Len(from) > 0 /\ Len(from) \in Nat
  <2>1. CASE all = <<>>
    <3>1. from = blank
      BY <2>1
    <3>2. blank \in Seq(Seq(Seq(T))) /\ Len(blank) > 0 /\ Len(blank) \in Nat
      <4>1. blank \in Seq(Seq(Seq(T)))
        BY <1>3
      <4>2. Len(blank) = 1
        BY <1>3
      <4> QED BY <4>1, <4>2
    <3> QED BY <3>1, <3>2, Zenon
  <2>2. CASE all # <<>>
    <3>1. from = all
      BY <2>2
    <3> HIDE DEF from
    <3>2. Len(all) \in Nat /\ Len(all) > 0
      BY <1>2, <2>2
    <3> QED BY <1>2, <3>1, <3>2
  <2> QED BY <2>1, <2>2
<1> DEFINE Y == Seq(Seq(T))
<1>5. /\ kept \in Seq(Y) /\ n = Least(MaxPages, Len(from)) /\ n <= MaxPages /\ n <= Len(from)
      /\ \A p \in 1..n : kept[p] = from[p]
  <2> HIDE DEF from
  <2>1. from \in Seq(Y) /\ MaxPages \in Nat
    BY <1>2, <1>4
  <2> HIDE DEF Y
  <2> QED BY <2>1, FirstIs
<1>6. n \in 1..MaxPages /\ (n < MaxPages => n = Len(from))
  <2> HIDE DEF from
  <2>1. Len(from) \in Nat /\ Len(from) > 0 /\ MaxPages \in Nat /\ MaxPages > 0
    BY <1>2, <1>4
  <2> HIDE DEF kept, n
  <2>2. n = IF MaxPages <= Len(from) THEN MaxPages ELSE Len(from)
    BY <1>5 DEF Least
  <2> QED BY <2>1, <2>2
<1>7. n < MaxPages => Len(all) <= n
  <2>1. all = <<>> => Len(all) = 0
    OBVIOUS
  <2>2. n \in Nat
    BY <1>6
  <2> HIDE DEF kept, n
  <2> QED BY <1>6, <2>1, <2>2
<1> HIDE DEF from, kept, n, Y
<1>8. DOMAIN kept = 1..n /\ \A p \in 1..n : kept[p] \in Seq(Seq(T))
  BY <1>5 DEF n, Y
<1>9. pages = [p \in 1..n |-> Grid(kept[p])]
  BY <1>1, <1>8
<1> HIDE DEF pages
<1>10. \A p \in 1..n : Grid(kept[p]) \in Seq(T)
  BY <1>8, GridIs
<1>11. pages \in Seq(Seq(T)) /\ Len(pages) = n /\ \A p \in 1..n : pages[p] = Grid(kept[p])
  <2> DEFINE g(p) == Grid(kept[p])
  <2>1. \A p \in 1..n : g(p) \in Seq(T)
    BY <1>10
  <2> HIDE DEF g
  <2>2. pages = [p \in 1..n |-> g(p)]
    BY <1>9 DEF g
  <2>3. n \in Nat
    BY <1>6
  <2>4. pages \in Seq(Seq(T)) /\ Len(pages) = n /\ \A p \in 1..n : pages[p] = g(p)
    BY <2>1, <2>2, <2>3
  <2> QED BY <2>4 DEF g
<1>12. ASSUME NEW p \in 1..n
       PROVE  /\ Len(pages[p]) = PageChars
              /\ \A r \in 1..Rows : \A c \in 1..Cols :
                   pages[p][(r - 1) * Cols + c] = Printed(all, p, r, c)
  <2>1. pages[p] = Grid(kept[p]) /\ kept[p] \in Seq(Seq(T))
    BY <1>8, <1>11
  <2>2. Len(pages[p]) = PageChars
    BY <2>1, GridIs
  <2>3. ASSUME NEW r \in 1..Rows, NEW c \in 1..Cols
        PROVE  pages[p][(r - 1) * Cols + c] = Printed(all, p, r, c)
    <3> DEFINE k == kept[p]
    <3>1. pages[p][(r - 1) * Cols + c] = IF r <= Len(k) /\ c <= Len(k[r]) THEN k[r][c] ELSE Space
      <4> HIDE DEF k
      <4>1. k \in Seq(Seq(T)) /\ pages[p] = Grid(k)
        BY <2>1 DEF k
      <4> QED BY <4>1, GridIs
    <3>2. CASE all = <<>>
      <4>1. Len(all) = 0 /\ p > Len(all)
        BY <3>2
      <4>2. Printed(all, p, r, c) = Space
        BY <4>1 DEF Printed
      <4>3. p = 1 /\ k = page
        <5>1. from = blank
          BY <3>2 DEF from
        <5>2. n <= 1
          BY <1>3, <1>5, <5>1
        <5>3. p = 1
          BY <1>6, <5>2
        <5> QED BY <1>3, <1>5, <5>1, <5>3
      <4>4. ~(r <= Len(k) /\ c <= Len(k[r]))
        <5> SUFFICES ASSUME r <= 1, c <= Len(page[r]) PROVE FALSE
          BY <1>3, <4>3
        <5>1. r = 1
          OBVIOUS
        <5> QED BY <1>3, <5>1
      <4> QED BY <3>1, <4>2, <4>4
    <3>3. CASE all # <<>>
      <4>1. k = all[p] /\ p <= Len(all)
        <5>1. from = all
          BY <3>3 DEF from
        <5>2. n <= Len(all)
          BY <1>5, <5>1
        <5>3. Len(all) \in Nat /\ n \in Nat
          BY <1>2, <1>6
        <5> QED BY <1>5, <5>1, <5>2, <5>3
      <4> HIDE DEF k
      <4> QED BY <3>1, <4>1 DEF Printed
    <3> QED BY <3>2, <3>3
  <2> QED BY <2>2, <2>3
<1> QED BY <1>6, <1>7, <1>11, <1>12 DEF all, pages

Ink(g) == {Odd} \cup 0..g
Written(g) == Odd..g
Limit(entry) == IF entry.kind = "lines" THEN PageChars ELSE PageChars * MaxPages
Entry(g) == {x \in [kind : {"lines", "text"}, lines : Seq(Seq(Written(g)))] :
               x.kind = "text" => Len(x.lines) = 1}
Clean(c) == IF Visible(c) THEN c ELSE Space

\* ascii_clamp: what is visible stays, the rest is a space, and the end is cut.
LEMMA ClampIs ==
    ASSUME NEW g \in Nat, NEW s \in Seq(Written(g)), NEW n \in Nat
    PROVE  /\ AsciiClamp(s, n) \in Seq(Ink(g)) /\ Len(AsciiClamp(s, n)) = Least(n, Len(s))
           /\ \A c \in 1..Least(n, Len(s)) : AsciiClamp(s, n)[c] = Clean(s[c])
<1> DEFINE m == Least(n, Len(s))
<1>1. m \in Nat /\ m <= Len(s)
  BY DEF Least
<1>2. AsciiClamp(s, n) = [c \in 1..m |-> Clean(s[c])]
  BY DEF AsciiClamp, Clean
<1> HIDE DEF m
<1>3. \A c \in 1..m : Clean(s[c]) \in Ink(g)
  <2> SUFFICES ASSUME NEW c \in 1..m PROVE Clean(s[c]) \in Ink(g)
    OBVIOUS
  <2>1. c \in 1..Len(s)
    BY <1>1
  <2>2. s[c] \in Written(g)
    BY <2>1
  <2>3. s[c] \in Odd..g
    BY <2>2 DEF Written
  <2> QED BY <2>3 DEF Clean, Visible, Ink, Odd, Space
<1> DEFINE f(c) == Clean(s[c])
<1>4. [c \in 1..m |-> f(c)] \in Seq(Ink(g)) /\ Len([c \in 1..m |-> f(c)]) = m
  <2>1. \A c \in 1..m : f(c) \in Ink(g)
    BY <1>3
  <2> HIDE DEF f
  <2> QED BY <1>1, <2>1
<1> QED BY <1>1, <1>2, <1>4 DEF m

\* A string without the separator is one part.
LEMMA SplitWhole ==
    ASSUME NEW T, NEW s \in Seq(T), NEW sep, sep \notin T
    PROVE  Split(s, sep) = <<s>>
<1> DEFINE parts == Split(s, sep)
           n == Len(parts)
<1>1. parts \in Seq(Seq(T)) /\ parts # <<>>
  BY SplitParted
<1>2. PICK at : Parted(parts, at, s, Len(s), sep)
  BY SplitParted
<1>3. n \in Nat /\ n > 0
  BY <1>1
<1>4. \A k \in 1..n : at[k] \in Nat /\ at[k] + Len(parts[k]) <= Len(s) /\ Len(parts[k]) \in Nat
  BY <1>1, <1>2, PartedIn
<1> HIDE DEF parts, n
<1>5. n = 1
  <2> SUFFICES ASSUME n # 1 PROVE FALSE
    OBVIOUS
  <2>1. 1 \in 1..(n - 1) /\ 1 + 1 \in 1..n /\ 1 \in 1..n
    BY <1>3
  <2>2. at[1 + 1] = at[1] + Len(parts[1]) + 1 /\ s[at[1 + 1]] = sep
    BY <1>2, <2>1 DEF Parted, n
  <2>3. at[1 + 1] <= Len(s) /\ at[1 + 1] \in Nat /\ at[1] \in Nat /\ Len(parts[1]) \in Nat
    <3>1. /\ at[1 + 1] + Len(parts[1 + 1]) <= Len(s) /\ at[1 + 1] \in Nat
          /\ Len(parts[1 + 1]) \in Nat
      BY <1>4, <2>1
    <3>2. at[1] \in Nat /\ Len(parts[1]) \in Nat
      BY <1>4, <2>1
    <3>3. Len(s) \in Nat
      OBVIOUS
    <3> HIDE DEF parts
    <3> QED BY <3>1, <3>2, <3>3
  <2>4. at[1 + 1] \in 1..Len(s)
    BY <2>2, <2>3
  <2>5. s[at[1 + 1]] \in T
    BY <2>4
  <2> QED BY <2>2, <2>5
<1>6. parts[1] = s
  <2> DEFINE p == parts[1]
  <2>1. p \in Seq(T)
    BY <1>1, <1>3 DEF n
  <2>2. at[1] = 0 /\ at[1] + Len(p) = Len(s)
    BY <1>2, <1>5 DEF Parted, n
  <2>3. \A c \in 1..Len(p) : p[c] = s[at[1] + c]
    BY <1>2, <1>3, <1>5 DEF Parted, n
  <2> HIDE DEF p
  <2>4. Len(p) = Len(s)
    BY <2>1, <2>2
  <2>5. \A c \in 1..Len(p) : p[c] = s[c]
    <3> SUFFICES ASSUME NEW c \in 1..Len(p) PROVE p[c] = s[c]
      OBVIOUS
    <3>1. at[1] + c = c
      BY <2>2
    <3> QED BY <2>3, <3>1
  <2>6. p = s
    BY <2>1, <2>4, <2>5, SeqEqual
  <2> QED BY <2>6 DEF p
<1> DEFINE one == <<s>>
<1>7. one \in Seq(Seq(T)) /\ Len(one) = 1 /\ one[1] = s
  OBVIOUS
<1> HIDE DEF one
<1>8. parts = one
  <2>1. \A k \in 1..1 : k = 1
    OBVIOUS
  <2>2. Len(parts) = 1 /\ \A k \in 1..Len(parts) : parts[k] = one[k]
    BY <1>5, <1>6, <1>7, <2>1 DEF n
  <2> QED BY <1>1, <1>7, <2>2, SeqEqual
<1> QED BY <1>8 DEF parts, one

\* The lines of an entry, cleaned and cut at their limit.
LEMMA EntryLinesAre ==
    ASSUME NEW g \in Nat, Cols \in Nat \ {0}, Rows \in Nat \ {0}, NEW entry \in Entry(g)
    PROVE  LET lines == EntryLines(entry)
           IN  /\ Limit(entry) \in Nat
               /\ lines \in Seq(Seq(Ink(g))) /\ Len(lines) = Len(entry.lines)
               /\ \A l \in 1..Len(lines) :
                    LET m == Least(Limit(entry), Len(entry.lines[l]))
                    IN  /\ Len(lines[l]) = m /\ m \in Nat /\ m <= Len(entry.lines[l])
                        /\ \A c \in 1..m : lines[l][c] = Clean(entry.lines[l][c])
<1> DEFINE raw == entry.lines
           n == Len(raw)
           lim == Limit(entry)
           lines == EntryLines(entry)
           cut(l) == AsciiClamp(raw[l], lim)
<1>1. raw \in Seq(Seq(Written(g))) /\ entry.kind \in {"lines", "text"}
      /\ (entry.kind = "text" => n = 1)
  BY DEF Entry
<1>2. PageChars \in Nat /\ MaxPages \in Nat
  <2>1. Cols \in Nat /\ Rows \in Nat
    OBVIOUS
  <2>2. Cols * Rows \in Nat
    <3> DEFINE a == Cols
               b == Rows
    <3>1. a \in Nat /\ b \in Nat
      BY <2>1
    <3> HIDE DEF a, b
    <3>2. a * b \in Nat
      BY <3>1, Commute
    <3> QED BY <3>2 DEF a, b
  <2> QED BY <2>2, LayoutAssumption DEF PageChars
<1>3. lim \in Nat
  <2> DEFINE a == PageChars
  <2>1. a \in Nat /\ MaxPages \in Nat
    BY <1>2
  <2> HIDE DEF a
  <2>2. a * MaxPages \in Nat
    BY <2>1, Commute
  <2> QED BY <2>1, <2>2 DEF Limit, a
<1>4. n \in Nat /\ DOMAIN raw = 1..n /\ \A l \in 1..n : raw[l] \in Seq(Written(g))
  BY <1>1
<1> HIDE DEF raw, n, lim, cut
<1>5. ASSUME NEW l \in 1..n
      PROVE  LET m == Least(lim, Len(raw[l]))
             IN  /\ cut(l) \in Seq(Ink(g)) /\ Len(cut(l)) = m /\ m \in Nat /\ m <= Len(raw[l])
                 /\ \A c \in 1..m : cut(l)[c] = Clean(raw[l][c])
  <2> DEFINE s == raw[l]
             m == Least(lim, Len(s))
             a == AsciiClamp(s, lim)
  <2>1. s \in Seq(Written(g))
    BY <1>4
  <2> HIDE DEF s
  <2>2. a \in Seq(Ink(g)) /\ Len(a) = m /\ \A c \in 1..m : a[c] = Clean(s[c])
    BY <1>3, <2>1, ClampIs
  <2>3. m \in Nat /\ m <= Len(s)
    <3>1. Len(s) \in Nat
      BY <2>1
    <3> QED BY <1>3, <3>1 DEF Least
  <2> HIDE DEF a, m
  <2>4. cut(l) = a
    BY DEF cut, a, s
  <2> QED BY <2>2, <2>3, <2>4 DEF m, s
<1>6. lines = [l \in 1..n |-> cut(l)]
  <2>1. CASE entry.kind = "lines"
    <3>1. lim = PageChars
      BY <2>1 DEF lim, Limit
    <3>2. lines = [l \in DOMAIN raw |-> AsciiClamp(raw[l], PageChars)]
      BY <2>1 DEF EntryLines, raw
    <3> QED BY <1>4, <3>1, <3>2 DEF cut
  <2>2. CASE entry.kind # "lines"
    <3>1. entry.kind = "text" /\ n = 1
      BY <1>1, <2>2
    <3>2. lim = PageChars * MaxPages
      BY <2>2 DEF lim, Limit
    <3>3. lines = Split(cut(1), Newline)
      BY <2>2, <3>2 DEF EntryLines, raw, cut
    <3>4. cut(1) \in Seq(Ink(g))
      BY <1>5, <3>1
    <3>5. Newline \notin Ink(g)
      BY DEF Ink, Newline, Odd
    <3>6. lines = <<cut(1)>>
      BY <3>3, <3>4, <3>5, SplitWhole
    <3>7. [l \in 1..1 |-> cut(l)] = <<cut(1)>>
      OBVIOUS
    <3> QED BY <3>1, <3>6, <3>7
  <2> QED BY <2>1, <2>2
<1> HIDE DEF lines
<1>7. lines \in Seq(Seq(Ink(g))) /\ Len(lines) = n /\ \A l \in 1..n : lines[l] = cut(l)
  <2>1. \A l \in 1..n : cut(l) \in Seq(Ink(g))
    BY <1>5
  <2> QED BY <1>4, <1>6, <2>1
<1> QED BY <1>3, <1>5, <1>7 DEF lines, n, raw, lim

\* A string has one way of being parted.
LEMMA PartedOnce ==
    ASSUME NEW U, NEW sep, NEW s \in Seq(U), NEW p1 \in Seq(Seq(U)), NEW p2 \in Seq(Seq(U)),
           p1 # <<>>, p2 # <<>>, NEW at1, NEW at2,
           Parted(p1, at1, s, Len(s), sep), Parted(p2, at2, s, Len(s), sep)
    PROVE  p1 = p2
<1> DEFINE m == Len(s)
           n1 == Len(p1)
           n2 == Len(p2)
           Same(k) == k <= n1 /\ k <= n2 /\ at1[k] = at2[k]
           S == {i \in Nat : i < n1 => Same(i + 1)}
\* Where a part ends, the string does or there is a separator.
<1>1. ASSUME NEW p \in Seq(Seq(U)), p # <<>>, NEW at, Parted(p, at, s, m, sep), NEW k \in 1..Len(p)
      PROVE  LET b == at[k] + Len(p[k])
             IN  /\ Len(p) \in Nat /\ at[k] \in Nat /\ Len(p[k]) \in Nat /\ b <= m
                 /\ \A c \in 1..Len(p[k]) : p[k][c] = s[at[k] + c] /\ p[k][c] # sep
                 /\ k = Len(p) => b = m
                 /\ k # Len(p) => b < m /\ s[b + 1] = sep /\ at[k + 1] = b + 1
  <2>1. Len(p) \in Nat /\ m \in Nat /\ \A i \in 1..Len(p) : at[i] \in Nat /\ Len(p[i]) \in Nat
    <3>1. at \in Seq(Nat) /\ Len(at) = Len(p)
      BY <1>1 DEF Parted
    <3>2. Len(p) \in Nat /\ m \in Nat /\ \A i \in 1..Len(p) : Len(p[i]) \in Nat
      BY <1>1
    <3>3. \A i \in 1..Len(p) : at[i] \in Nat
      <4>1. \A i \in 1..Len(at) : at[i] \in Nat
        BY ONLY <3>1
      <4> QED BY ONLY <3>1, <4>1
    <3> QED BY <3>2, <3>3
  <2>2. \A i \in 1..Len(p) : at[i] + Len(p[i]) <= m
    BY <1>1, <2>1, PartedIn
  <2>3. ASSUME k # Len(p)
        PROVE  LET b == at[k] + Len(p[k]) IN b < m /\ s[b + 1] = sep /\ at[k + 1] = b + 1
    <3>1. k \in 1..(Len(p) - 1) /\ k + 1 \in 1..Len(p)
      BY <2>1, <2>3
    <3>2. at[k + 1] = at[k] + Len(p[k]) + 1 /\ s[at[k + 1]] = sep
      BY <1>1, <3>1 DEF Parted
    <3>3. at[k + 1] + Len(p[k + 1]) <= m /\ Len(p[k + 1]) \in Nat /\ at[k] \in Nat /\ Len(p[k]) \in Nat
      BY <2>1, <2>2, <3>1
    <3>4. at[k] + Len(p[k]) < m /\ m \in Nat
      <4> HIDE DEF m
      <4>1. m \in Nat
        BY <2>1
      <4> QED BY ONLY <3>2, <3>3, <4>1
    <3> QED BY <3>2, <3>4
  <2>4. k = Len(p) => at[k] + Len(p[k]) = m
    BY <1>1 DEF Parted
  <2>5. \A c \in 1..Len(p[k]) : p[k][c] = s[at[k] + c] /\ p[k][c] # sep
    BY <1>1 DEF Parted
  <2> QED BY <2>1, <2>2, <2>3, <2>4, <2>5
<1>2. n1 \in Nat /\ n2 \in Nat /\ n1 > 0 /\ n2 > 0 /\ m \in Nat
  OBVIOUS
\* Parts that begin at the same place are as long.
<1>3. ASSUME NEW k \in 1..n1, Same(k)
      PROVE  /\ k \in 1..n2 /\ Len(p1[k]) = Len(p2[k])
             /\ k # n1 => Same(k + 1)
             /\ k = n1 => k = n2
  <2> DEFINE a == at1[k]
             l1 == Len(p1[k])
             l2 == Len(p2[k])
  <2>0. k \in 1..n2 /\ at2[k] = a
    BY <1>2, <1>3
  <2>1. /\ a \in Nat /\ l1 \in Nat /\ a + l1 <= m
        /\ \A c \in 1..l1 : p1[k][c] = s[a + c] /\ p1[k][c] # sep
        /\ k = n1 => a + l1 = m
        /\ k # n1 => a + l1 < m /\ s[a + l1 + 1] = sep /\ at1[k + 1] = a + l1 + 1
    BY <1>1
  <2>2. /\ l2 \in Nat /\ a + l2 <= m
        /\ \A c \in 1..l2 : p2[k][c] = s[a + c] /\ p2[k][c] # sep
        /\ k = n2 => a + l2 = m
        /\ k # n2 => a + l2 < m /\ s[a + l2 + 1] = sep /\ at2[k + 1] = a + l2 + 1
    <3> HIDE DEF a
    <3>1. /\ l2 \in Nat /\ at2[k] + l2 <= m
          /\ \A c \in 1..l2 : p2[k][c] = s[at2[k] + c] /\ p2[k][c] # sep
          /\ k = n2 => at2[k] + l2 = m
          /\ k # n2 => at2[k] + l2 < m /\ s[at2[k] + l2 + 1] = sep /\ at2[k + 1] = at2[k] + l2 + 1
      <4>1. k \in 1..Len(p2)
        BY <2>0
      <4> QED BY <1>1, <4>1
    <3> QED BY <2>0, <3>1
  <2> HIDE DEF a, l1, l2, m, n1, n2
  <2>3. ~(l1 < l2)
    <3> SUFFICES ASSUME l1 < l2 PROVE FALSE
      OBVIOUS
    <3>1. k # n1
      BY <1>2, <2>1, <2>2
    <3>2. l1 + 1 \in 1..l2 /\ a + (l1 + 1) = a + l1 + 1
      BY <2>1, <2>2
    <3> QED BY <2>1, <2>2, <3>1, <3>2
  <2>4. ~(l2 < l1)
    <3> SUFFICES ASSUME l2 < l1 PROVE FALSE
      OBVIOUS
    <3>1. k # n2
      BY <1>2, <2>1, <2>2
    <3>2. l2 + 1 \in 1..l1 /\ a + (l2 + 1) = a + l2 + 1
      BY <2>1, <2>2
    <3> QED BY <2>1, <2>2, <3>1, <3>2
  <2>5. l1 = l2
    BY <2>1, <2>2, <2>3, <2>4
  <2>6. k = n1 => k = n2
    BY <1>2, <2>1, <2>2, <2>5
  <2>7. k # n1 => k # n2 /\ at1[k + 1] = at2[k + 1]
    BY <1>2, <2>1, <2>2, <2>5
  <2>8. k # n1 => k + 1 <= n1 /\ k + 1 <= n2
    BY <1>2, <2>0, <2>7
  <2> QED BY <2>0, <2>5, <2>6, <2>7, <2>8 DEF l1, l2, n1, n2
<1>4. 0 \in S
  <2>1. at1[1] = 0 /\ at2[1] = 0
    BY DEF Parted
  <2> QED BY <1>2, <2>1
<1> HIDE DEF n1, n2, Same
<1>5. ASSUME NEW i \in Nat, i \in S PROVE i + 1 \in S
  <2> SUFFICES ASSUME i + 1 < n1 PROVE Same(i + 1 + 1)
    OBVIOUS
  <2>1. i + 1 \in 1..n1 /\ i + 1 # n1 /\ Same(i + 1)
    BY <1>2, <1>5
  <2> QED BY <1>3, <2>1
<1> HIDE DEF S
<1>6. \A i \in Nat : i \in S
  BY <1>4, <1>5, NatSet
<1>7. ASSUME NEW k \in 1..n1 PROVE Same(k)
  <2> DEFINE i == k - 1
  <2>1. i \in Nat /\ i < n1 /\ i + 1 = k
    BY <1>2
  <2> HIDE DEF i
  <2> QED BY <1>6, <2>1 DEF S
<1>8. n1 = n2
  <2>1. n1 \in 1..n1
    BY <1>2
  <2> QED BY <1>3, <1>7, <2>1
<1>9. ASSUME NEW k \in 1..n1 PROVE p1[k] = p2[k]
  <2> DEFINE a == p1[k]
             b == p2[k]
  <2>1. a \in Seq(U) /\ b \in Seq(U)
    BY <1>8 DEF n1, n2
  <2>2. Len(a) = Len(b) /\ at1[k] = at2[k] /\ k \in 1..n2
    BY <1>3, <1>7, <1>8 DEF Same
  <2>3. /\ \A c \in 1..Len(a) : a[c] = s[at1[k] + c]
        /\ \A c \in 1..Len(b) : b[c] = s[at2[k] + c]
    BY <2>2 DEF Parted, n1, n2
  <2> HIDE DEF a, b
  <2>4. a = b
    BY <2>1, <2>2, <2>3, SeqEqual
  <2> QED BY <2>4 DEF a, b
<1> QED BY <1>8, <1>9, SeqEqual DEF n1, n2

JoinStep(body, page) == body \o <<Nul>> \o page

IsJoined(e, body, page) ==
    /\ Len(e) = Len(body) + 1 + Len(page)
    /\ \A c \in 1..Len(body) : e[c] = body[c]
    /\ e[Len(body) + 1] = Nul
    /\ \A c \in 1..Len(page) : e[Len(body) + 1 + c] = page[c]

\* A page more of the frame.
LEMMA JoinStepType ==
    ASSUME NEW U, Nul \in U, NEW body \in Seq(U), NEW page \in Seq(U)
    PROVE  JoinStep(body, page) \in Seq(U) /\ IsJoined(JoinStep(body, page), body, page)
<1> DEFINE one == <<Nul>>
           co == body \o one
           all == co \o page
           n == Len(body)
           m == Len(page)
<1>1. one \in Seq(U) /\ Len(one) = 1 /\ one[1] = Nul
  OBVIOUS
<1>2. Len(body) \in Nat /\ Len(page) \in Nat
  OBVIOUS
<1> HIDE DEF one
<1>30. co \in Seq(U) /\ Len(co) = Len(body) + Len(one)
      /\ \A c \in 1..(Len(body) + Len(one)) : co[c] = IF c <= Len(body) THEN body[c] ELSE one[c - Len(body)]
  BY <1>1, ConcatProperties
<1>3. co \in Seq(U) /\ Len(co) = n + 1
      /\ \A c \in 1..(n + 1) : co[c] = IF c <= n THEN body[c] ELSE one[c - n]
  BY <1>1, <1>30, Zenon
<1> HIDE DEF co
<1>40. all \in Seq(U) /\ Len(all) = Len(co) + Len(page)
      /\ \A c \in 1..(Len(co) + Len(page)) : all[c] = IF c <= Len(co) THEN co[c] ELSE page[c - Len(co)]
  <2>1. co \in Seq(U) /\ page \in Seq(U)
    BY <1>3
  <2> QED BY ONLY <2>1, ConcatProperties DEF all
<1>4. all \in Seq(U) /\ Len(all) = (n + 1) + m
      /\ \A c \in 1..((n + 1) + m) : all[c] = IF c <= n + 1 THEN co[c] ELSE page[c - (n + 1)]
  BY <1>3, <1>40, Zenon
<1>41. n \in Nat /\ m \in Nat
  BY <1>2
<1> HIDE DEF all, n, m
<1>5. ASSUME NEW c \in 1..n PROVE all[c] = body[c]
  <2>1. c \in 1..((n + 1) + m) /\ c <= n + 1 /\ c \in 1..(n + 1) /\ c <= n
    BY <1>41
  <2>2. all[c] = co[c]
    BY ONLY <1>4, <2>1
  <2>3. co[c] = body[c]
    BY ONLY <1>3, <2>1
  <2> QED BY <2>2, <2>3
<1>6. all[n + 1] = Nul
  <2>1. n + 1 \in 1..((n + 1) + m) /\ n + 1 <= n + 1 /\ n + 1 \in 1..(n + 1) /\ ~(n + 1 <= n)
        /\ (n + 1) - n = 1
    BY <1>41
  <2>2. all[n + 1] = co[n + 1]
    BY ONLY <1>4, <2>1
  <2>3. co[n + 1] = one[(n + 1) - n]
    BY ONLY <1>3, <2>1
  <2> QED BY <1>1, <2>1, <2>2, <2>3
<1>7. ASSUME NEW c \in 1..m PROVE all[n + 1 + c] = page[c]
  <2>1. n + 1 + c \in 1..((n + 1) + m) /\ ~(n + 1 + c <= n + 1) /\ (n + 1 + c) - (n + 1) = c
    BY <1>41
  <2>2. all[n + 1 + c] = page[(n + 1 + c) - (n + 1)]
    BY ONLY <1>4, <2>1
  <2> QED BY <2>1, <2>2
<1>8. JoinStep(body, page) = all
  BY DEF JoinStep, all, co, one
<1>9. Len(all) = n + 1 + m
  BY <1>4, <1>41
<1> QED BY <1>4, <1>5, <1>6, <1>7, <1>8, <1>9 DEF n, m, IsJoined

JoinRest(start, rest) == FoldLeft(JoinStep, start, rest)
JoinRun(acc, U, start, rest) ==
    /\ acc \in [0..Len(rest) -> Seq(U)]
    /\ acc[0] = start /\ acc[Len(rest)] = JoinRest(start, rest)
    /\ \A i \in 1..Len(rest) : acc[i] = JoinStep(acc[i - 1], rest[i])

\* The frame's body, after each page.
LEMMA JoinFold ==
    ASSUME NEW U, Nul \in U, NEW start \in Seq(U), NEW rest \in Seq(Seq(U))
    PROVE  \E acc : JoinRun(acc, U, start, rest)
<1> DEFINE n == Len(rest)
           A == Seq(U)
           P(f) == f = [S \in SUBSET DOMAIN rest |->
                         IF S = {} THEN start
                         ELSE JoinStep(f[S \ {Max(S)}], rest[Max(S)])]
           iter == CHOOSE f : P(f)
           step == [p \in (1..n) \X A |-> JoinStep(p[2], rest[p[1]])]
<1>1. JoinRest(start, rest) = iter[DOMAIN rest]
  BY Zenon DEF JoinRest, JoinStep, FoldLeft, MapThenFoldSet
<1>2. n \in Nat /\ DOMAIN rest = 1..n /\ \A i \in 1..n : rest[i] \in Seq(U)
  OBVIOUS
<1>3. start \in A
  OBVIOUS
<1>4. /\ step \in [(1..n) \X A -> A]
      /\ \A i \in 1..n : \A a \in A : step[<<i, a>>] = JoinStep(a, rest[i])
  <2>1. \A i \in 1..n : \A a \in A : JoinStep(a, rest[i]) \in A
    BY <1>2, JoinStepType
  <2> HIDE DEF A, n
  <2> QED BY <2>1
<1> HIDE DEF step, n, A
<1>5. P(iter)
  <2> SUFFICES \E f : P(f)
    <3> HIDE DEF P
    <3> QED OBVIOUS
  <2> HIDE DEF iter
  <2>1. PICK f : IsFold(f, A, n, start, step)
    BY <1>2, <1>3, <1>4, FoldExists
  <2>2. \A S \in SUBSET (1..n) : S # {} =>
           step[<<Max(S), f[S \ {Max(S)}]>>] = JoinStep(f[S \ {Max(S)}], rest[Max(S)])
    BY <1>2, <1>4, <2>1, MaxOfPlaces DEF IsFold
  <2>3. /\ f = [S \in SUBSET (1..n) |-> f[S]]
        /\ \A S \in SUBSET (1..n) :
             f[S] = IF S = {} THEN start ELSE JoinStep(f[S \ {Max(S)}], rest[Max(S)])
    BY <2>1, <2>2, Zenon DEF IsFold
  <2>4. f = [S \in SUBSET (1..n) |->
              IF S = {} THEN start ELSE JoinStep(f[S \ {Max(S)}], rest[Max(S)])]
    BY <2>3, Zenon
  <2>5. P(f)
    BY <1>2, <2>4, Zenon
  <2> HIDE DEF P
  <2> QED BY <2>5
<1> HIDE DEF iter
<1>6. IsFoldOver(iter, A, n, start, step)
  <2>1. ASSUME NEW S \in SUBSET (1..n)
        PROVE  iter[S] = IF S = {} THEN start ELSE JoinStep(iter[S \ {Max(S)}], rest[Max(S)])
    BY <1>2, <1>5
  <2> HIDE DEF P
  <2>2. \A S \in SUBSET (1..n) : S # {} => Max(S) \in 1..n
    BY <1>2, MaxOfPlaces
  <2> QED BY <1>4, <2>1, <2>2 DEF IsFoldOver
<1> HIDE DEF P
<1>7. PICK acc : IsRun(acc, A, n, start, step, iter[1..n])
  BY <1>2, <1>3, <1>4, <1>6, FoldChain
<1>8. \A i \in 1..n : i - 1 \in 0..n
  BY <1>2
<1>9. /\ acc \in [0..n -> A] /\ acc[0] = start /\ acc[n] = JoinRest(start, rest)
      /\ \A i \in 1..n : acc[i] = JoinStep(acc[i - 1], rest[i])
  BY <1>1, <1>2, <1>4, <1>7, <1>8 DEF IsRun
<1> QED BY <1>9 DEF JoinRun, n, A


\* Joined pages are the parts of what they were joined to.
LEMMA JoinParted ==
    ASSUME NEW T, Nul \notin T, NEW pages \in Seq(Seq(T)), pages # <<>>
    PROVE  LET body == Join(pages)
           IN  /\ body \in Seq(T \cup {Nul}) /\ Len(body) >= Len(pages[1])
               /\ \E at : Parted(pages, at, body, Len(body), Nul)
<1> DEFINE U == T \cup {Nul}
           n == Len(pages)
           start == Head(pages)
           rest == Tail(pages)
           k == n - 1
<1>1. Join(pages) = JoinRest(start, rest)
  BY Zenon DEF Join, JoinRest, JoinStep
<1>2. n \in Nat /\ n > 0 /\ k \in Nat /\ k + 1 = n /\ \A i \in 1..n : pages[i] \in Seq(T)
  OBVIOUS
<1>3. \A i \in 1..n : pages[i] \in Seq(U)
  BY <1>2
<1>4. /\ start = pages[1] /\ Len(rest) = k /\ rest \in Seq(Seq(U)) /\ start \in Seq(U)
      /\ \A i \in 1..k : rest[i] = pages[i + 1]
  <2>1. pages \in Seq(Seq(U))
    <3>1. pages = [i \in 1..n |-> pages[i]]
      OBVIOUS
    <3>2. n \in Nat /\ \A i \in 1..n : pages[i] \in Seq(U)
      BY <1>2, <1>3
    <3> HIDE DEF U, n
    <3>3. [i \in 1..n |-> pages[i]] \in Seq(Seq(U))
      BY ONLY <3>2
    <3> QED BY <3>1, <3>3, Zenon
  <2> HIDE DEF U
  <2>2. start = pages[1] /\ rest \in Seq(Seq(U)) /\ Len(rest) = Len(pages) - 1
        /\ \A i \in 1..Len(rest) : rest[i] = pages[i + 1]
    BY <2>1, HeadTailProperties
  <2> QED BY <1>2, <1>3, <2>2
<1> HIDE DEF start, rest
<1>5. PICK acc : JoinRun(acc, U, start, rest)
  BY <1>4, JoinFold
<1> HIDE DEF k
<1>6. /\ \A i \in 0..k : acc[i] \in Seq(U) /\ Len(acc[i]) \in Nat
      /\ acc[0] = start /\ acc[k] = Join(pages)
      /\ \A i \in 1..k : acc[i] = JoinStep(acc[i - 1], pages[i + 1])
  <2>1. /\ acc \in [0..k -> Seq(U)] /\ acc[0] = start /\ acc[k] = JoinRest(start, rest)
        /\ \A i \in 1..k : acc[i] = JoinStep(acc[i - 1], rest[i])
    BY <1>4, <1>5 DEF JoinRun
  <2> HIDE DEF U
  <2>2. \A i \in 0..k : acc[i] \in Seq(U)
    BY <2>1
  <2>3. \A i \in 0..k : Len(acc[i]) \in Nat
    BY <2>2
  <2> QED BY <1>1, <1>4, <2>1, <2>2, <2>3
<1> HIDE DEF n
<1> DEFINE width(i) == Len(pages[i])
           at == [i \in 1..n |-> IF i = 1 THEN 0 ELSE Len(acc[i - 2]) + 1]
           body == acc[k]
           Held(i) == \* After i + 1 pages.
               /\ at[i + 1] + width(i + 1) = Len(acc[i])
               /\ \A j \in 1..(i + 1) : at[j] + width(j) <= Len(acc[i])
               /\ \A j \in 1..i : at[j + 1] = at[j] + width(j) + 1 /\ acc[i][at[j + 1]] = Nul
               /\ \A j \in 1..(i + 1) : \A c \in 1..width(j) : acc[i][at[j] + c] = pages[j][c]
           S == {i \in Nat : Held(i)}
<1>7. /\ at \in Seq(Nat) /\ Len(at) = n /\ at[1] = 0
      /\ \A i \in 1..k : at[i + 1] = Len(acc[i - 1]) + 1
      /\ \A i \in 1..n : at[i] \in Nat
  <2> DEFINE v(i) == IF i = 1 THEN 0 ELSE Len(acc[i - 2]) + 1
  <2>1. ASSUME NEW i \in 1..n PROVE v(i) \in Nat
    <3>1. i # 1 => i - 2 \in 0..k
      BY <1>2
    <3> QED BY <1>6, <3>1
  <2>2. ASSUME NEW i \in 1..k PROVE i + 1 \in 1..n /\ v(i + 1) = Len(acc[i - 1]) + 1
    <3>1. i + 1 \in 1..n /\ i + 1 # 1 /\ (i + 1) - 2 = i - 1
      BY <1>2
    <3> QED BY <3>1
  <2>3. v(1) = 0 /\ 1 \in 1..n
    BY <1>2
  <2>4. at = [i \in 1..n |-> v(i)]
    OBVIOUS
  <2> HIDE DEF v, at
  <2>5. at \in Seq(Nat) /\ Len(at) = n /\ \A i \in 1..n : at[i] = v(i)
    BY <1>2, <2>1, <2>4
  <2> QED BY <2>1, <2>2, <2>3, <2>5
<1> HIDE DEF at
<1>8. \A i \in 1..n : width(i) \in Nat
  BY <1>2
<1> HIDE DEF width
<1>9. Held(0)
  <2>1. acc[0] = pages[1] /\ at[1] = 0 /\ 1 \in 1..n /\ width(1) \in Nat /\ width(1) = Len(pages[1])
    BY <1>2, <1>4, <1>6, <1>7, <1>8 DEF width
  <2>2. at[0 + 1] + width(0 + 1) = Len(acc[0])
    BY <2>1
  <2>3. \A j \in 1..(0 + 1) : j = 1
    OBVIOUS
  <2>4. \A j \in 1..(0 + 1) : at[j] + width(j) <= Len(acc[0])
    BY <2>1, <2>3
  <2>5. ASSUME NEW j \in 1..(0 + 1), NEW c \in 1..width(j) PROVE acc[0][at[j] + c] = pages[j][c]
    <3>1. j = 1 /\ at[1] + c = c
      BY <2>1, <2>3
    <3> QED BY <2>1, <3>1
  <2> QED BY <2>2, <2>4, <2>5
<1>10. ASSUME NEW i \in 0..(k - 1), Held(i) PROVE Held(i + 1)
  <2> DEFINE s == acc[i]
             e == acc[i + 1]
             page == pages[i + 2]
             m == Len(s)
  <2>0. i \in 0..k /\ i + 1 \in 1..k /\ i + 1 \in 0..k /\ (i + 1) - 1 = i /\ (i + 1) + 1 = i + 2
        /\ i + 2 \in 1..n /\ i \in Nat
    BY <1>2
  <2>1. s \in Seq(U) /\ page \in Seq(U) /\ e = JoinStep(s, page) /\ at[i + 2] = m + 1 /\ m \in Nat
        /\ width(i + 2) \in Nat /\ width(i + 2) = Len(page)
    <3>1. s \in Seq(U) /\ m \in Nat
      BY <1>6, <2>0
    <3>2. page \in Seq(U) /\ width(i + 2) \in Nat
      BY <1>3, <1>8, <2>0
    <3>3. e = JoinStep(s, page)
      BY <1>6, <2>0
    <3>4. at[i + 2] = m + 1
      BY <1>7, <2>0
    <3> QED BY <3>1, <3>2, <3>3, <3>4 DEF width
  <2>2. /\ Len(e) = m + 1 + width(i + 2)
        /\ \A c \in 1..m : e[c] = s[c]
        /\ e[m + 1] = Nul
        /\ \A c \in 1..width(i + 2) : e[m + 1 + c] = page[c]
    <3>1. Nul \in U
      OBVIOUS
    <3>2. IsJoined(e, s, page)
      <4>1. s \in Seq(U) /\ page \in Seq(U)
        BY <2>1
      <4> HIDE DEF s, e, page, U
      <4> QED BY <2>1, <3>1, <4>1, JoinStepType
    <3> HIDE DEF s, e, page, U
    <3> QED BY <2>1, <3>2 DEF m, IsJoined
  <2>3. /\ at[i + 1] + width(i + 1) = m
        /\ \A j \in 1..(i + 1) : at[j] + width(j) <= m
        /\ \A j \in 1..i : at[j + 1] = at[j] + width(j) + 1 /\ s[at[j + 1]] = Nul
        /\ \A j \in 1..(i + 1) : \A c \in 1..width(j) : s[at[j] + c] = pages[j][c]
    BY <1>10
  <2> HIDE DEF s, e, m, Held
  <2>40. i \in Nat /\ k \in Nat /\ n \in Nat /\ k + 1 = n /\ i <= k - 1 /\ m \in Nat /\ width(i + 2) \in Nat
        /\ Len(e) = m + 1 + width(i + 2)
    BY <1>2, <2>0, <2>1, <2>2
  <2>4. at[(i + 1) + 1] + width((i + 1) + 1) = Len(e)
    BY <2>0, <2>1, <2>2
  <2>5. ASSUME NEW j \in 1..((i + 1) + 1) PROVE at[j] + width(j) <= Len(e)
    <3>1. CASE j = i + 2
      <4>1. at[j] = m + 1 /\ width(j) = width(i + 2)
        BY <2>1, <3>1
      <4> QED BY ONLY <2>40, <4>1
    <3>2. CASE j # i + 2
      <4>1. j \in 1..(i + 1) /\ j \in 1..n
        BY ONLY <2>40, <3>2, j \in 1..((i + 1) + 1)
      <4>2. at[j] + width(j) <= m /\ at[j] \in Nat /\ width(j) \in Nat
        BY <1>7, <1>8, <2>3, <4>1, Zenon
      <4> QED BY ONLY <2>40, <4>2
    <3> QED BY <3>1, <3>2
  <2>6. ASSUME NEW j \in 1..(i + 1) PROVE at[j + 1] = at[j] + width(j) + 1 /\ e[at[j + 1]] = Nul
    <3>1. CASE j = i + 1
      BY <2>0, <2>1, <2>2, <2>3, <3>1
    <3>2. CASE j # i + 1
      <4>1. j \in 1..i /\ j + 1 \in 1..(i + 1) /\ j + 1 \in 1..n /\ j \in 1..n
        BY ONLY <2>40, <3>2, j \in 1..(i + 1)
      <4>2. at[j + 1] = at[j] + width(j) + 1 /\ s[at[j + 1]] = Nul
        BY <2>3, <4>1
      <4>3. at[j + 1] + width(j + 1) <= m /\ width(j + 1) \in Nat /\ at[j] \in Nat
            /\ width(j) \in Nat
        BY <1>7, <1>8, <2>3, <4>1, Zenon
      <4>4. at[j + 1] \in 1..m
        <5> DEFINE x == at[j + 1]
                   y == at[j]
                   v == width(j)
                   w == width(j + 1)
        <5>1. x = y + v + 1 /\ x + w <= m /\ w \in Nat /\ y \in Nat /\ v \in Nat /\ m \in Nat
          BY <2>40, <4>2, <4>3
        <5> HIDE DEF x, y, v, w
        <5>2. x \in 1..m
          BY ONLY <5>1
        <5> QED BY <5>2 DEF x
      <4> QED BY <2>2, <4>2, <4>4
    <3> QED BY <3>1, <3>2
  <2>7. ASSUME NEW j \in 1..((i + 1) + 1), NEW c \in 1..width(j) PROVE e[at[j] + c] = pages[j][c]
    <3>1. CASE j = i + 2
      <4>1. at[j] = m + 1 /\ pages[j] = page
        BY <2>1, <3>1
      <4>2. \A d \in 1..Len(page) : e[m + 1 + d] = page[d]
        BY <2>1, <2>2
      <4>3. c \in 1..Len(page)
        <5>1. c \in 1..width(j) /\ width(j) = Len(pages[j])
          BY DEF width
        <5> QED BY <4>1, <5>1
      <4> HIDE DEF page
      <4> QED BY <4>1, <4>2, <4>3
    <3>2. CASE j # i + 2
      <4>1. j \in 1..(i + 1) /\ j \in 1..n
        BY ONLY <2>40, <3>2, j \in 1..((i + 1) + 1)
      <4>2. at[j] + width(j) <= m /\ at[j] \in Nat /\ width(j) \in Nat
        BY <1>7, <1>8, <2>3, <4>1, Zenon
      <4>3. at[j] + c \in 1..m
        BY ONLY <2>40, <4>2, c \in 1..width(j)
      <4> QED BY <2>2, <2>3, <4>1, <4>3
    <3> QED BY <3>1, <3>2
  <2> QED BY <2>4, <2>5, <2>6, <2>7 DEF e, Held
<1> HIDE DEF Held
<1>11. 0 \in S /\ \A i \in 0..(k - 1) : i \in S => i + 1 \in S
  <2>1. \A i \in 0..(k - 1) : i + 1 \in Nat
    BY <1>2
  <2> QED BY <1>9, <1>10, <2>1
<1> HIDE DEF S
<1>12. k \in S
  <2>1. \A i \in 0..k : i \in S
    BY <1>2, <1>11, UpTo
  <2> QED BY <1>2, <2>1
<1>13. Held(k)
  BY <1>12 DEF S
<1>14. ASSUME NEW j \in 1..n, NEW c \in 1..Len(pages[j]) PROVE pages[j][c] # Nul
  <2> DEFINE p == pages[j]
  <2>1. p \in Seq(T)
    BY <1>2
  <2> HIDE DEF p
  <2>2. \A d \in 1..Len(p) : p[d] \in T
    BY <2>1
  <2> QED BY <2>2 DEF p
<1>15. /\ at[n] + Len(pages[n]) = Len(body)
       /\ \A j \in 1..(n - 1) : at[j + 1] = at[j] + Len(pages[j]) + 1 /\ body[at[j + 1]] = Nul
       /\ \A j \in 1..n : \A c \in 1..Len(pages[j]) : body[at[j] + c] = pages[j][c]
       /\ \A j \in 1..n : at[j] + Len(pages[j]) <= Len(body)
  <2>1. n - 1 = k /\ k + 1 = n
    BY <1>2
  <2>2. /\ at[k + 1] + Len(pages[k + 1]) = Len(body)
        /\ \A j \in 1..k : at[j + 1] = at[j] + Len(pages[j]) + 1 /\ body[at[j + 1]] = Nul
        /\ \A j \in 1..(k + 1) : \A c \in 1..Len(pages[j]) : body[at[j] + c] = pages[j][c]
        /\ \A j \in 1..(k + 1) : at[j] + Len(pages[j]) <= Len(body)
    BY <1>13 DEF Held, width
  <2> HIDE DEF body
  <2> QED BY <2>1, <2>2
<1>16. Parted(pages, at, body, Len(body), Nul)
  <2> HIDE DEF body
  <2> QED BY <1>7, <1>14, <1>15 DEF Parted, n
<1>17. body \in Seq(U) /\ body = Join(pages)
  BY <1>2, <1>6
<1>18. Len(body) >= Len(pages[1])
  <2>1. 1 \in 1..n
    BY <1>2
  <2>2. at[1] + Len(pages[1]) <= Len(body) /\ at[1] = 0 /\ Len(pages[1]) \in Nat
    BY <1>7, <1>8, <1>15, <2>1
  <2> HIDE DEF body
  <2> QED BY <2>2
<1> QED BY <1>16, <1>17, <1>18

\* The bridge cuts the body at its NULs into the pages that were joined.
THEOREM SplitJoin ==
    ASSUME NEW T, Nul \notin T, NEW pages \in Seq(Seq(T)), pages # <<>>
    PROVE  Split(Join(pages), Nul) = pages
<1> DEFINE body == Join(pages)
           U == T \cup {Nul}
           chunks == Split(body, Nul)
<1>1. body \in Seq(U) /\ \E at : Parted(pages, at, body, Len(body), Nul)
  BY JoinParted
<1>2. pages \in Seq(Seq(U))
  <2>1. \A p \in 1..Len(pages) : pages[p] \in Seq(U)
    OBVIOUS
  <2> HIDE DEF U
  <2> QED BY <2>1
<1> HIDE DEF body, U
<1>3. chunks \in Seq(Seq(U)) /\ chunks # <<>> /\ \E at : Parted(chunks, at, body, Len(body), Nul)
  BY <1>1, SplitParted
<1> HIDE DEF chunks
<1>4. PICK a : Parted(pages, a, body, Len(body), Nul)
  BY <1>1
<1>5. PICK b : Parted(chunks, b, body, Len(body), Nul)
  BY <1>3
<1>6. chunks = pages
  BY <1>1, <1>2, <1>3, <1>4, <1>5, PartedOnce
<1> QED BY <1>6 DEF chunks, body

\* A page as the bridge gets it from its frame, and as a string of the calculator.
Paint(c) == IF c = Odd THEN Space ELSE c

\* The bridge gets from a frame the pages that the relay put in it, whatever the frame says
\* their number is.
LEMMA ParseJoined ==
    ASSUME NEW g \in Nat, NEW n, NEW pages \in Seq(Seq(Ink(g))), pages # <<>>, pages[1] # <<>>
    PROVE  ParsePagesFrame([n |-> n, body |-> Join(pages)]) = pages
<1> DEFINE T == Ink(g)
           body == Join(pages)
           f == [n |-> n, body |-> body]
<1>1. Nul \notin T
  BY DEF Ink, Nul, Odd
<1>2. Split(body, Nul) = pages
  BY <1>1, SplitJoin
<1>3. body # <<>>
  <2>1. body \in Seq(T \cup {Nul}) /\ Len(body) >= Len(pages[1])
    BY <1>1, JoinParted
  <2>2. pages[1] \in Seq(T)
    OBVIOUS
  <2> HIDE DEF body, T
  <2> QED BY <2>1, <2>2
<1>4. \A p \in DOMAIN pages : BytesToAscii(pages[p]) = pages[p]
  <2> SUFFICES ASSUME NEW p \in DOMAIN pages PROVE BytesToAscii(pages[p]) = pages[p]
    OBVIOUS
  <2>1. pages[p] \in Seq(T)
    OBVIOUS
  <2>2. \A i \in DOMAIN pages[p] : pages[p][i] \in T
    BY <2>1
  <2>3. \A i \in DOMAIN pages[p] : (IF pages[p][i] < 0 THEN Odd ELSE pages[p][i]) = pages[p][i]
    BY <2>2 DEF Ink, Odd
  <2>4. BytesToAscii(pages[p]) = [i \in DOMAIN pages[p] |-> pages[p][i]]
    BY <2>3 DEF BytesToAscii
  <2> QED BY <2>1, <2>4
<1>5. f.body = body
  OBVIOUS
<1> HIDE DEF body, f
<1>6. ParsePagesFrame(f) = OrBlank([p \in DOMAIN pages |-> BytesToAscii(pages[p])])
  BY <1>2, <1>3, <1>5 DEF ParsePagesFrame
<1>7. [p \in DOMAIN pages |-> BytesToAscii(pages[p])] = [p \in DOMAIN pages |-> pages[p]]
  BY <1>4
<1>8. [p \in DOMAIN pages |-> pages[p]] = pages
  OBVIOUS
<1>9. ParsePagesFrame(f) = pages
  BY <1>6, <1>7, <1>8 DEF OrBlank
<1> QED BY <1>9 DEF f, body

\* Pushing what was laid out: each page becomes a string as long as it, in which only
\* what has no token has changed.
LEMMA PushedIs ==
    ASSUME NEW g \in Nat, NEW n, NEW pages \in Seq(Seq(Ink(g))), Len(pages) \in 1..MaxPages,
           \A p \in 1..Len(pages) : Len(pages[p]) = PageChars,
           PageChars \in Nat \ {0}, PageChars <= InMax, InMax \in Int, MaxPages \in Nat
    PROVE  LET texts == First(ParsePagesFrame([n |-> n, body |-> Join(pages)]), MaxPages)
           IN  [p \in DOMAIN texts |-> AsciiToStrPayload(texts[p])] =
                 [p \in DOMAIN pages |-> AsciiToTokensLossy(pages[p])]
<1> DEFINE parsed == ParsePagesFrame([n |-> n, body |-> Join(pages)])
           texts == First(parsed, MaxPages)
<1>1. parsed = pages
  <2>1. pages # <<>> /\ pages[1] # <<>>
    OBVIOUS
  <2> QED BY <2>1, ParseJoined
<1>2. First(pages, MaxPages) = pages
  <2> DEFINE T == Seq(Ink(g))
  <2>1. pages \in Seq(T) /\ Len(pages) <= MaxPages
    OBVIOUS
  <2> HIDE DEF T
  <2> QED BY <2>1, FirstIs
<1> HIDE DEF parsed
<1>3. texts = pages
  BY <1>1, <1>2
<1>4. \A p \in DOMAIN pages : AsciiToStrPayload(pages[p]) = AsciiToTokensLossy(pages[p])
  <2> SUFFICES ASSUME NEW p \in DOMAIN pages PROVE First(pages[p], InMax) = pages[p]
    BY DEF AsciiToStrPayload
  <2>1. pages[p] \in Seq(Ink(g)) /\ Len(pages[p]) <= InMax /\ InMax \in Nat
    OBVIOUS
  <2> QED BY <2>1, FirstIs
<1> HIDE DEF texts
<1>5. [p \in DOMAIN texts |-> AsciiToStrPayload(texts[p])] =
        [p \in DOMAIN pages |-> AsciiToTokensLossy(pages[p])]
  BY <1>3, <1>4
<1> QED BY <1>5 DEF texts, parsed

\* Every character of a page has a place in the string, shown or blank.
LEMMA LossyIs ==
    ASSUME NEW g \in Nat, NEW s \in Seq(Ink(g))
    PROVE  /\ AsciiToTokensLossy(s) \in Seq(0..g) /\ Len(AsciiToTokensLossy(s)) = Len(s)
           /\ \A i \in 1..Len(s) : AsciiToTokensLossy(s)[i] = Paint(s[i])
<1>1. \A i \in 1..Len(s) : s[i] \in Ink(g)
  OBVIOUS
<1>2. \A i \in 1..Len(s) : Paint(s[i]) \in 0..g
  BY <1>1 DEF Paint, Ink, Odd, Space
<1>3. AsciiToTokensLossy(s) = [i \in 1..Len(s) |-> Paint(s[i])]
  BY DEF AsciiToTokensLossy, Paint
<1> QED BY <1>2, <1>3

\* The characters of a reply, and which comes first.
Chars == [entry : Nat, line : Nat, at : Nat]
IsChar(rep, x) ==
    /\ x.entry \in 1..Len(rep) /\ x.line \in 1..Len(rep[x.entry].lines)
    /\ x.at \in 1..Len(rep[x.entry].lines[x.line])
Char(rep, x) == rep[x.entry].lines[x.line][x.at]
Earlier(x, y) ==
    \/ x.entry < y.entry
    \/ x.entry = y.entry /\ x.line < y.line
    \/ x.entry = y.entry /\ x.line = y.line /\ x.at < y.at

\* The characters that can be shown are numbered as they were written.
Numbered(rep) ==
    \A x, y \in Chars :
        IsChar(rep, x) /\ IsChar(rep, y) /\ Earlier(x, y) /\ Char(rep, x) > 0 /\ Char(rep, y) > 0
        => Char(rep, x) < Char(rep, y)

\* A page has at least one cell, and fits a string of the calculator.
LEMMA GridSize ==
    ASSUME grid \in Grids
    PROVE  /\ Cols \in Nat \ {0} /\ Rows \in Nat \ {0} /\ PageChars \in Nat \ {0}
           /\ PageChars <= InMax /\ InMax \in Nat /\ MaxPages \in Nat \ {0} /\ MaxSize \in Nat
<1>1. grid \in (Nat \ {0}) \X (Nat \ {0}) /\ grid[1] * grid[2] <= InMax
  BY LayoutAssumption, TextAssumption
<1>2. grid[1] \in Nat \ {0} /\ grid[2] \in Nat \ {0}
  BY <1>1
<1>3. \A a, b \in Nat \ {0} : a * b \in Nat \ {0}
  OBVIOUS
<1>4. grid[1] * grid[2] \in Nat \ {0}
  BY <1>2, <1>3
<1> QED BY <1>1, <1>2, <1>4, LayoutAssumption, TextAssumption DEF Cols, Rows, PageChars

\* The pages of a reply, entry by entry.
LEMMA ReplyLaidOut ==
    ASSUME grid \in Grids, NEW g \in Nat, NEW entries \in Seq(Entry(g))
    PROVE  /\ AllPages(entries) \in Seq(Seq(Seq(Ink(g))))
           /\ \E off : LaidOut(AllPages(entries), off, entries, Len(entries))
<1> DEFINE X == Seq(Ink(g))
           E == Entry(g)
<1>1. Cols \in Nat \ {0} /\ Rows \in Nat \ {0}
  BY GridSize
<1>2. \A e \in E : EntryRows(e) \in Seq(X)
  <2> SUFFICES ASSUME NEW e \in E PROVE EntryRows(e) \in Seq(X)
    OBVIOUS
  <2>1. EntryLines(e) \in Seq(Seq(Ink(g)))
    BY <1>1, EntryLinesAre
  <2>2. Space \in Ink(g)
    BY DEF Space, Ink
  <2> DEFINE T == Ink(g)
  <2> HIDE DEF T
  <2>3. EntryRows(e) \in Seq(Seq(T))
    BY <1>1, <2>1, <2>2, EntryRowsAre DEF T
  <2> QED BY <2>3 DEF T
<1> HIDE DEF X, E
<1>3. entries \in Seq(E)
  BY DEF E
<1>4. AllPages(entries) \in Seq(Seq(X)) /\ \E off : LaidOut(AllPages(entries), off, entries, Len(entries))
  BY <1>1, <1>2, <1>3, EntriesLaidOut DEF AllPages
<1> QED BY <1>4 DEF X

\* What LayoutPages returns for the reply.
LEMMA ReplyPages ==
    ASSUME grid \in Grids, NEW g \in Nat, reply \in Seq(Entry(g))
    PROVE  LET pages == LayoutPages(reply)
           IN  /\ pages \in Seq(Seq(Ink(g))) /\ Len(pages) \in 1..MaxPages
               /\ Len(pages) < MaxPages => Len(AllPages(reply)) <= Len(pages)
               /\ \A p \in 1..Len(pages) :
                    /\ Len(pages[p]) = PageChars
                    /\ \A r \in 1..Rows : \A c \in 1..Cols :
                         pages[p][(r - 1) * Cols + c] = Printed(AllPages(reply), p, r, c)
<1>1. Cols \in Nat \ {0} /\ Rows \in Nat \ {0}
  BY GridSize
<1>2. AllPages(reply) \in Seq(Seq(Seq(Ink(g))))
  BY ReplyLaidOut
<1> DEFINE T == Ink(g)
<1>3. Space \in T
  BY DEF Space, Ink
<1>4. AllPages(reply) \in Seq(Seq(Seq(T)))
  BY <1>2
<1> HIDE DEF T
<1>5. LET pages == LayoutPages(reply)
           IN  /\ pages \in Seq(Seq(T)) /\ Len(pages) \in 1..MaxPages
               /\ Len(pages) < MaxPages => Len(AllPages(reply)) <= Len(pages)
               /\ \A p \in 1..Len(pages) :
                    /\ Len(pages[p]) = PageChars
                    /\ \A r \in 1..Rows : \A c \in 1..Cols :
                         pages[p][(r - 1) * Cols + c] = Printed(AllPages(reply), p, r, c)
  BY <1>1, <1>3, <1>4, LayoutIs
<1> QED BY <1>5 DEF T

\* A character of a reply is one that the model may write.
LEMMA CharIs ==
    ASSUME NEW g \in Nat, NEW rep \in Seq(Entry(g)), NEW x \in Chars, IsChar(rep, x)
    PROVE  /\ rep[x.entry] \in Entry(g) /\ rep[x.entry].lines \in Seq(Seq(Written(g)))
           /\ Char(rep, x) \in Written(g)
<1>1. x.entry \in 1..Len(rep) /\ x.line \in 1..Len(rep[x.entry].lines)
      /\ x.at \in 1..Len(rep[x.entry].lines[x.line])
  BY DEF IsChar
<1>2. rep[x.entry] \in Entry(g)
  BY <1>1
<1>3. rep[x.entry].lines \in Seq(Seq(Written(g)))
  BY <1>2 DEF Entry
<1>4. rep[x.entry].lines[x.line] \in Seq(Written(g))
  BY <1>1, <1>3
<1>5. rep[x.entry].lines[x.line][x.at] \in Written(g)
  BY <1>1, <1>4
<1> QED BY <1>2, <1>3, <1>5 DEF Char

\* A reply written with few glyphs is one written with more.
LEMMA EntryMore ==
    ASSUME NEW g \in Nat, NEW h \in Nat, g <= h
    PROVE  Entry(g) \subseteq Entry(h) /\ Seq(Entry(g)) \subseteq Seq(Entry(h))
<1>1. Written(g) \subseteq Written(h)
  BY DEF Written, Odd
<1> DEFINE A == Written(g)
           B == Written(h)
<1>2. A \subseteq B
  BY <1>1
<1> HIDE DEF A, B
<1>3. Seq(A) \subseteq Seq(B)
  BY <1>2
<1> DEFINE C == Seq(A)
           D == Seq(B)
<1> HIDE DEF C, D
<1>4. Seq(C) \subseteq Seq(D)
  BY <1>3 DEF C, D
<1>5. Entry(g) = {x \in [kind : {"lines", "text"}, lines : Seq(C)] : x.kind = "text" => Len(x.lines) = 1}
  BY DEF Entry, A, C
<1>6. Entry(h) = {x \in [kind : {"lines", "text"}, lines : Seq(D)] : x.kind = "text" => Len(x.lines) = 1}
  BY DEF Entry, B, D
<1>7. Entry(g) \subseteq Entry(h)
  BY <1>4, <1>5, <1>6
<1> DEFINE P == Entry(g)
           Q == Entry(h)
<1> HIDE DEF P, Q
<1>8. Seq(P) \subseteq Seq(Q)
  BY <1>7 DEF P, Q
<1> QED BY <1>7, <1>8 DEF P, Q

\* A reply that gained no character stays numbered.
LEMMA NumberedSame ==
    ASSUME NEW rep, Numbered(rep), NEW more,
           \A x \in Chars : IsChar(more, x) => IsChar(rep, x) /\ Char(more, x) = Char(rep, x)
    PROVE  Numbered(more)
BY Zenon DEF Numbered

\* So does one that gained a last character, when it is the next number or none.
LEMMA NumberedNext ==
    ASSUME NEW g \in Nat, NEW rep \in Seq(Entry(g)), Numbered(rep), NEW more, NEW last \in Chars,
           NEW c \in Int, c <= 0 \/ c > g,
           \A x \in Chars : IsChar(more, x) =>
             \/ x = last /\ Char(more, x) = c
             \/ IsChar(rep, x) /\ Char(more, x) = Char(rep, x) /\ ~Earlier(last, x)
    PROVE  Numbered(more)
<1> SUFFICES ASSUME NEW x \in Chars, NEW y \in Chars, IsChar(more, x), IsChar(more, y), Earlier(x, y),
                    Char(more, x) > 0, Char(more, y) > 0
             PROVE  Char(more, x) < Char(more, y)
  BY Zenon DEF Numbered
<1>1. CASE x = last /\ Char(more, x) = c
  <2>1. ~(IsChar(rep, y) /\ Char(more, y) = Char(rep, y) /\ ~Earlier(last, y))
    BY <1>1
  <2>2. y = last
    BY <2>1
  <2>3. ~Earlier(last, last)
    BY DEF Earlier, Chars
  <2> QED BY <1>1, <2>2, <2>3
<1>2. CASE IsChar(rep, x) /\ Char(more, x) = Char(rep, x) /\ ~Earlier(last, x)
  <2>1. Char(rep, x) \in Written(g)
    BY <1>2, CharIs
  <2>2. CASE y = last /\ Char(more, y) = c
    BY <1>2, <2>1, <2>2 DEF Written, Odd
  <2>3. CASE IsChar(rep, y) /\ Char(more, y) = Char(rep, y)
    BY <1>2, <2>3 DEF Numbered
  <2> QED BY <2>2, <2>3
<1> QED BY <1>1, <1>2

\* A new entry leaves the characters numbered as they were.
LEMMA NewEntryKeeps ==
    ASSUME NEW g \in Nat, NEW rep \in Seq(Entry(g)), Numbered(rep), NEW kind \in {"lines", "text"}
    PROVE  LET more == Append(rep, [kind |-> kind, lines |-> IF kind = "text" THEN << <<>> >> ELSE <<>>])
           IN  more \in Seq(Entry(g)) /\ Numbered(more)
<1> DEFINE new == [kind |-> kind, lines |-> IF kind = "text" THEN << <<>> >> ELSE <<>>]
           more == Append(rep, new)
           n == Len(rep)
<1>1. new.lines \in Seq(Seq(Written(g)))
  <2>1. <<>> \in Seq(Written(g))
    OBVIOUS
  <2> DEFINE A == Seq(Written(g))
  <2>2. <<>> \in A
    BY <2>1
  <2> HIDE DEF A
  <2>3. << <<>> >> \in Seq(A) /\ <<>> \in Seq(A)
    BY <2>2
  <2> QED BY <2>3 DEF A
<1>2. new \in Entry(g)
  <2>1. kind = "text" => Len(new.lines) = 1
    OBVIOUS
  <2>2. new \in [kind : {"lines", "text"}, lines : Seq(Seq(Written(g)))] /\ new.kind = kind
    BY <1>1
  <2> HIDE DEF new
  <2> QED BY <2>1, <2>2 DEF Entry
<1>3. \A l \in 1..Len(new.lines) : Len(new.lines[l]) = 0
  OBVIOUS
<1> HIDE DEF new
<1> DEFINE E == Entry(g)
<1>4. new \in E /\ rep \in Seq(E)
  BY <1>2
<1> HIDE DEF E
<1>5. more \in Seq(E) /\ Len(more) = n + 1 /\ n \in Nat /\ more[n + 1] = new
      /\ \A e \in 1..n : more[e] = rep[e]
  BY <1>4
<1>6. ASSUME NEW x \in Chars, IsChar(more, x)
      PROVE  IsChar(rep, x) /\ Char(more, x) = Char(rep, x)
  <2>1. x.entry \in 1..(n + 1) /\ x.line \in 1..Len(more[x.entry].lines)
        /\ x.at \in 1..Len(more[x.entry].lines[x.line])
    BY <1>5, <1>6 DEF IsChar
  <2>2. x.entry # n + 1
    <3> SUFFICES ASSUME x.entry = n + 1 PROVE FALSE
      OBVIOUS
    <3>1. x.line \in 1..Len(new.lines) /\ x.at \in 1..Len(new.lines[x.line])
      BY <1>5, <2>1
    <3>2. Len(new.lines[x.line]) = 0
      BY <1>3, <3>1
    <3> HIDE DEF more
    <3> QED BY <3>1, <3>2
  <2>3. x.entry \in 1..n
    BY <1>5, <2>1, <2>2
  <2>4. more[x.entry] = rep[x.entry]
    BY <1>5, <2>3
  <2> HIDE DEF more
  <2> QED BY <2>1, <2>3, <2>4 DEF IsChar, Char
<1> HIDE DEF more
<1>7. Numbered(more)
  BY <1>6, NumberedSame
<1>8. more \in Seq(Entry(g)) /\ Numbered(more)
  BY <1>5, <1>7 DEF E
<1> QED BY <1>8 DEF more, new

\* A new line leaves the characters numbered as they were.
LEMMA NewLineKeeps ==
    ASSUME NEW g \in Nat, NEW rep \in Seq(Entry(g)), Numbered(rep), rep # <<>>,
           rep[Len(rep)].kind = "lines"
    PROVE  LET more == [rep EXCEPT ![Len(rep)].lines = Append(@, <<>>)]
           IN  more \in Seq(Entry(g)) /\ Numbered(more)
<1> DEFINE n == Len(rep)
           E == Entry(g)
           W == Seq(Written(g))
           lines == rep[n].lines
           m == Len(lines)
           new == [rep[n] EXCEPT !.lines = Append(lines, <<>>)]
           more == [rep EXCEPT ![n].lines = Append(@, <<>>)]
<1>1. n \in 1..Len(rep) /\ n \in Nat /\ rep[n] \in E
  OBVIOUS
<1>2. rep[n] \in [kind : {"lines", "text"}, lines : Seq(W)]
  BY <1>1 DEF Entry
<1>3. <<>> \in W
  OBVIOUS
<1> HIDE DEF W
<1>4. lines \in Seq(W)
  BY <1>2
<1>5. Append(lines, <<>>) \in Seq(W) /\ m \in Nat /\ Len(Append(lines, <<>>)) = m + 1
      /\ Append(lines, <<>>)[m + 1] = <<>> /\ \A l \in 1..m : Append(lines, <<>>)[l] = lines[l]
  BY <1>3, <1>4
<1>6. new \in [kind : {"lines", "text"}, lines : Seq(W)] /\ new.kind = "lines"
      /\ new.lines = Append(lines, <<>>)
  <2> DEFINE a == Append(lines, <<>>)
  <2>1. a \in Seq(W)
    BY <1>5
  <2> HIDE DEF a
  <2>2. [rep[n] EXCEPT !.lines = a] \in [kind : {"lines", "text"}, lines : Seq(W)]
        /\ [rep[n] EXCEPT !.lines = a].kind = "lines" /\ [rep[n] EXCEPT !.lines = a].lines = a
    BY <1>2, <2>1
  <2> QED BY <2>2 DEF a
<1>7. new \in E
  BY <1>6 DEF Entry, W
<1>8. more = [rep EXCEPT ![n] = new]
  OBVIOUS
<1> HIDE DEF new, E
<1>9. rep \in Seq(E)
  BY DEF E
<1> HIDE DEF more
<1>10. more \in Seq(E) /\ Len(more) = n /\ more[n] = new
       /\ \A e \in 1..n : e # n => more[e] = rep[e]
  BY <1>1, <1>7, <1>8, <1>9
<1>11. ASSUME NEW x \in Chars, IsChar(more, x)
       PROVE  IsChar(rep, x) /\ Char(more, x) = Char(rep, x)
  <2>1. x.entry \in 1..n /\ x.line \in 1..Len(more[x.entry].lines)
        /\ x.at \in 1..Len(more[x.entry].lines[x.line])
    BY <1>10, <1>11 DEF IsChar
  <2>2. CASE x.entry # n
    <3>1. more[x.entry] = rep[x.entry]
      BY <1>10, <2>1, <2>2
    <3> HIDE DEF n
    <3> QED BY <2>1, <3>1 DEF IsChar, Char, n
  <2>3. CASE x.entry = n
    <3>1. more[x.entry].lines = Append(lines, <<>>)
      BY <1>6, <1>10, <2>3
    <3>2. x.line \in 1..(m + 1) /\ x.at \in 1..Len(Append(lines, <<>>)[x.line])
      BY <1>5, <2>1, <3>1
    <3>3. x.line # m + 1
      <4> SUFFICES ASSUME x.line = m + 1 PROVE FALSE
        OBVIOUS
      <4>1. x.at \in 1..Len(<<>>)
        BY <1>5, <3>2
      <4> QED BY <4>1
    <3>4. x.line \in 1..m
      BY <1>5, <3>2, <3>3
    <3>5. more[x.entry].lines[x.line] = lines[x.line]
      BY <1>5, <3>1, <3>4
    <3>6. rep[x.entry].lines = lines
      BY <2>3
    <3> HIDE DEF n, lines
    <3> QED BY <2>1, <3>4, <3>5, <3>6 DEF IsChar, Char, n, m
  <2> QED BY <2>2, <2>3
<1>12. Numbered(more)
  BY <1>11, NumberedSame
<1>13. more \in Seq(Entry(g)) /\ Numbered(more)
  BY <1>10, <1>12 DEF E
<1> QED BY <1>13 DEF more

\* What is written last has the greatest number.
LEMMA WriteKeeps ==
    ASSUME NEW g \in Nat, NEW rep \in Seq(Entry(g)), Numbered(rep), rep # <<>>,
           rep[Len(rep)].lines # <<>>, NEW c \in Written(g + 1), c <= 0 \/ c > g,
           NEW h \in Nat, g <= h, c <= h
    PROVE  LET more == [rep EXCEPT ![Len(rep)].lines[Len(rep[Len(rep)].lines)] = Append(@, c)]
           IN  more \in Seq(Entry(h)) /\ Numbered(more)
<1> DEFINE n == Len(rep)
           E == Entry(h)
           W == Seq(Written(h))
           lines == rep[n].lines
           m == Len(lines)
           line == lines[m]
           k == Len(line)
           longer == Append(line, c)
           all == [lines EXCEPT ![m] = longer]
           new == [rep[n] EXCEPT !.lines = all]
           more == [rep EXCEPT ![n].lines[m] = Append(@, c)]
           last == [entry |-> n, line |-> m, at |-> k + 1]
<1>0. rep \in Seq(E)
  BY EntryMore
<1>1. n \in 1..Len(rep) /\ n \in Nat /\ rep[n] \in E
  BY <1>0
<1>2. rep[n] \in [kind : {"lines", "text"}, lines : Seq(W)]
      /\ (rep[n].kind = "text" => Len(rep[n].lines) = 1)
  BY <1>1 DEF Entry
<1>3. lines \in Seq(W) /\ m \in 1..Len(lines) /\ m \in Nat /\ line \in W
  <2> HIDE DEF W
  <2>1. lines \in Seq(W) /\ lines # <<>>
    BY <1>2
  <2> HIDE DEF lines
  <2> QED BY <2>1
<1>4. c \in Written(h)
  BY DEF Written, Odd
<1>5. longer \in W /\ k \in Nat /\ Len(longer) = k + 1 /\ longer[k + 1] = c
      /\ \A i \in 1..k : longer[i] = line[i]
  <2> HIDE DEF line
  <2>1. line \in Seq(Written(h))
    BY <1>3
  <2> QED BY <1>4, <2>1
<1> HIDE DEF W, longer
<1>6. all \in Seq(W) /\ Len(all) = m /\ all[m] = longer
      /\ \A l \in 1..m : l # m => all[l] = lines[l]
  <2> HIDE DEF lines
  <2> QED BY <1>3, <1>5
<1>7. more = [rep EXCEPT ![n] = new]
  BY DEF longer
<1> HIDE DEF all
<1>8. new \in [kind : {"lines", "text"}, lines : Seq(W)] /\ new.kind = rep[n].kind /\ new.lines = all
  BY <1>2, <1>6
<1>9. new \in E
  <2>1. rep[n].kind = "text" => Len(new.lines) = 1
    BY <1>2, <1>6, <1>8
  <2> HIDE DEF new
  <2> QED BY <1>8, <2>1 DEF Entry, W
<1> HIDE DEF new, E, more
<1>10. more \in Seq(E) /\ Len(more) = n /\ more[n] = new
       /\ \A e \in 1..n : e # n => more[e] = rep[e]
  BY <1>0, <1>1, <1>7, <1>9
<1>11. last \in Chars /\ last.entry = n /\ last.line = m /\ last.at = k + 1
  BY <1>1, <1>3, <1>5 DEF Chars
<1> HIDE DEF last
<1>12. ASSUME NEW x \in Chars, IsChar(more, x)
       PROVE  \/ x = last /\ Char(more, x) = c
              \/ IsChar(rep, x) /\ Char(more, x) = Char(rep, x) /\ ~Earlier(last, x)
  <2>1. x.entry \in 1..n /\ x.line \in 1..Len(more[x.entry].lines)
        /\ x.at \in 1..Len(more[x.entry].lines[x.line])
    BY <1>10, <1>12 DEF IsChar
  <2>2. CASE x.entry # n
    <3>1. more[x.entry] = rep[x.entry]
      BY <1>10, <2>1, <2>2
    <3>2. ~Earlier(last, x)
      BY <1>1, <1>11, <2>1, <2>2 DEF Earlier
    <3>3. IsChar(rep, x) /\ Char(more, x) = Char(rep, x)
      <4> HIDE DEF n
      <4> QED BY <2>1, <3>1 DEF IsChar, Char, n
    <3> QED BY <3>2, <3>3
  <2>3. CASE x.entry = n
    <3>1. more[x.entry].lines = all
      BY <1>8, <1>10, <2>3
    <3>2. x.line \in 1..m /\ x.at \in 1..Len(all[x.line])
      BY <1>6, <2>1, <3>1
    <3>3. rep[x.entry].lines = lines
      BY <2>3
    <3>4. CASE x.line # m
      <4>1. more[x.entry].lines[x.line] = lines[x.line]
        BY <1>6, <3>1, <3>2, <3>4
      <4>2. ~Earlier(last, x)
        BY <1>3, <1>11, <2>3, <3>2, <3>4 DEF Earlier
      <4>3. IsChar(rep, x) /\ Char(more, x) = Char(rep, x)
        <5> HIDE DEF n, lines
        <5> QED BY <2>1, <3>2, <3>3, <4>1 DEF IsChar, Char, n, m
      <4> QED BY <4>2, <4>3
    <3>5. CASE x.line = m
      <4>1. more[x.entry].lines[x.line] = longer
        BY <1>6, <3>1, <3>5
      <4>2. x.at \in 1..(k + 1)
        BY <1>5, <2>1, <4>1
      <4>3. CASE x.at = k + 1
        <5>1. x = last
          BY <1>11, <2>3, <3>5, <4>3 DEF Chars
        <5>2. Char(more, x) = c
          BY <1>5, <4>1, <4>3 DEF Char
        <5> QED BY <5>1, <5>2
      <4>4. CASE x.at # k + 1
        <5>1. x.at \in 1..k
          BY <1>5, <4>2, <4>4
        <5>2. longer[x.at] = line[x.at]
          BY <1>5, <5>1
        <5>3. ~Earlier(last, x)
          BY <1>1, <1>3, <1>5, <1>11, <2>3, <3>5, <5>1 DEF Earlier
        <5>4. rep[x.entry].lines[x.line] = line
          BY <3>3, <3>5
        <5>5. x.line \in 1..m
          BY <3>2
        <5>6. IsChar(rep, x)
          <6> HIDE DEF n, lines, line
          <6> QED BY <2>1, <3>3, <5>1, <5>4, <5>5 DEF IsChar, n, m, k
        <5>7. Char(more, x) = Char(rep, x)
          <6> HIDE DEF n, lines, line
          <6> QED BY <4>1, <5>2, <5>4 DEF Char
        <5> QED BY <5>3, <5>6, <5>7
      <4> QED BY <4>3, <4>4
    <3> QED BY <3>4, <3>5
  <2> QED BY <2>2, <2>3
<1>13. c \in Int
  BY DEF Written, Odd
<1>14. Numbered(more)
  <2> HIDE DEF n, m, k, lines, line
  <2> QED BY <1>11, <1>12, <1>13, NumberedNext
<1>15. more \in Seq(Entry(h)) /\ Numbered(more)
  BY <1>10, <1>14 DEF E
<1> QED BY <1>15 DEF more

-----------------------------------------------------------------------------
(* What a layout is, said of a grid, a reply and its pages, and not of the *)
(* state: what holds of them still holds when other variables change.      *)

\* Break, Cut, Sheets, LaidOut and Limit, of C columns and R rows.
BreakOf(C, line, a, r, b) ==
    /\ \E t \in (b + 1)..Len(line) : NoSpace(line, b + 1, t) /\ t - a > C
    /\ b = a + r => \E p \in 1..b : \E q \in (b + 1)..Len(line) :
                       NoSpace(line, p, q) /\ q - p + 1 > C
CutOf(C, rows, at, line) ==
    /\ at \in Seq(Nat) /\ Len(at) = Len(rows)
    /\ \A r \in 1..Len(rows) :
         /\ Len(rows[r]) \in 0..C /\ at[r] + Len(rows[r]) <= Len(line)
         /\ \A c \in 1..Len(rows[r]) : rows[r][c] = line[at[r] + c]
    /\ \A r \in 1..(Len(rows) - 1) :
         at[r] + Len(rows[r]) <= at[r + 1] /\ BreakOf(C, line, at[r], Len(rows[r]), at[r + 1])
    /\ \A p \in 1..Len(line) :
         \/ line[p] = Space
         \/ \E r \in 1..Len(rows) : p \in (at[r] + 1)..(at[r] + Len(rows[r]))
SheetsOf(R, all, a, b, flat) ==
    /\ a \in Nat /\ b \in Nat /\ a <= b
    /\ \A p \in (a + 1)..b :
         /\ Len(all[p]) \in 1..R
         /\ \A r \in 1..Len(all[p]) :
              /\ (p - a - 1) * R + r \in 1..Len(flat)
              /\ all[p][r] = flat[(p - a - 1) * R + r]
    /\ \A j \in 1..Len(flat) :
         \E p \in (a + 1)..b : \E r \in 1..Len(all[p]) : j = (p - a - 1) * R + r
LimitOf(n, entry) == IF entry.kind = "lines" THEN n ELSE n * MaxPages

\* An entry: its lines as clamped, the rows they wrap to and all its rows, where each
\* line's begin among them and where each row begins in its line.
EntryPlan(C, n, T, entry, lines, rows, flat, base, at) ==
    /\ LimitOf(n, entry) \in Nat
    /\ lines \in Seq(Seq(T)) /\ Len(lines) = Len(entry.lines)
    /\ rows \in Seq(Seq(Seq(T))) /\ Len(rows) = Len(entry.lines)
    /\ flat \in Seq(Seq(T)) /\ Strung(flat, base, rows, Len(entry.lines))
    /\ \A l \in 1..Len(entry.lines) :
         /\ Len(lines[l]) = Least(LimitOf(n, entry), Len(entry.lines[l]))
         /\ \A c \in 1..Len(lines[l]) :
              c \in 1..Len(entry.lines[l]) /\ lines[l][c] = Clean(entry.lines[l][c])
         /\ Len(rows[l]) > 0 /\ CutOf(C, rows[l], at[l], lines[l])

\* A reply: the pages of all its entries, how many come before each, and the plans of
\* its entries.
Plan(C, R, T, rep, m) ==
    /\ m.all \in Seq(Seq(Seq(T)))
    /\ \A e \in 1..(Len(rep) + 1) : m.off[e] \in 0..Len(m.all)
    /\ m.off[1] = 0 /\ m.off[Len(rep) + 1] = Len(m.all)
    /\ \A p \in 1..Len(m.all) : \E e \in 1..Len(rep) : p \in (m.off[e] + 1)..m.off[e + 1]
    /\ \A e \in 1..Len(rep) :
         /\ SheetsOf(R, m.all, m.off[e], m.off[e + 1], m.flat[e])
         /\ EntryPlan(C, C * R, T, rep[e], m.lines[e], m.rows[e], m.flat[e], m.base[e], m.at[e])

\* The pages of a plan that are kept, padded.
PagesOf(C, R, T, pages, all) ==
    /\ pages \in Seq(Seq(T)) /\ Len(pages) \in 1..MaxPages
    /\ Len(pages) < MaxPages => Len(all) <= Len(pages)
    /\ \A p \in 1..Len(pages) :
         /\ Len(pages[p]) = C * R
         /\ \A r \in 1..R : \A c \in 1..C : pages[p][(r - 1) * C + c] = Printed(all, p, r, c)

IsLayout(C, R, T, rep, pages) ==
    \E m : Plan(C, R, T, rep, m) /\ PagesOf(C, R, T, pages, m.all)

\* An entry has a plan: where each of its lines is cut and each of its rows is strung.
LEMMA PlanOfEntry ==
    ASSUME grid \in Grids, NEW g \in Nat, NEW entry \in Entry(g)
    PROVE  \E base, at : EntryPlan(Cols, Cols * Rows, Ink(g), entry, EntryLines(entry), LineRows(entry),
                                   EntryRows(entry), base, at)
<1> DEFINE T == Ink(g)
           lines == EntryLines(entry)
           rows == LineRows(entry)
           flat == EntryRows(entry)
           n == Len(entry.lines)
<1>1. Cols \in Nat \ {0} /\ Rows \in Nat \ {0}
  BY GridSize
<1>2. /\ Limit(entry) \in Nat
      /\ lines \in Seq(Seq(T)) /\ Len(lines) = Len(entry.lines)
      /\ \A l \in 1..Len(lines) :
           LET m == Least(Limit(entry), Len(entry.lines[l]))
           IN  /\ Len(lines[l]) = m /\ m \in Nat /\ m <= Len(entry.lines[l])
               /\ \A c \in 1..m : lines[l][c] = Clean(entry.lines[l][c])
  BY <1>1, EntryLinesAre
<1>3. Space \in T
  BY DEF Space, Ink
<1>4. Limit(entry) = LimitOf(Cols * Rows, entry)
  BY DEF Limit, LimitOf, PageChars
<1> HIDE DEF T
<1>5. /\ rows \in Seq(Seq(Seq(T))) /\ Len(rows) = n
      /\ \A l \in 1..n : /\ rows[l] \in Seq(Seq(T)) /\ Len(rows[l]) > 0
                         /\ \E at : Cut(rows[l], at, lines[l])
      /\ flat \in Seq(Seq(T)) /\ \E base : Strung(flat, base, rows, n)
  BY <1>1, <1>2, <1>3, EntryRowsAre
<1>6. PICK base : Strung(flat, base, rows, n)
  BY <1>5
<1> DEFINE at == [l \in 1..n |-> CHOOSE a : Cut(rows[l], a, lines[l])]
<1>7. \A l \in 1..n : Cut(rows[l], at[l], lines[l])
  <2> SUFFICES ASSUME NEW l \in 1..n PROVE Cut(rows[l], at[l], lines[l])
    OBVIOUS
  <2>1. \E a : Cut(rows[l], a, lines[l])
    BY <1>5
  <2>2. Cut(rows[l], CHOOSE a : Cut(rows[l], a, lines[l]), lines[l])
    BY <2>1, Zenon
  <2>3. at[l] = CHOOSE a : Cut(rows[l], a, lines[l])
    BY Zenon
  <2> QED BY <2>2, <2>3, Zenon
<1> HIDE DEF lines, rows, flat, at
<1>8. \A l \in 1..n : CutOf(Cols, rows[l], at[l], lines[l])
  BY <1>7, Zenon DEF Cut, CutOf, Break, BreakOf
<1>9. ASSUME NEW l \in 1..n
      PROVE  /\ Len(lines[l]) = Least(LimitOf(Cols * Rows, entry), Len(entry.lines[l]))
             /\ \A c \in 1..Len(lines[l]) :
                  c \in 1..Len(entry.lines[l]) /\ lines[l][c] = Clean(entry.lines[l][c])
  <2> DEFINE k == Len(entry.lines[l])
             j == Least(Limit(entry), k)
  <2>1. Len(lines[l]) = j /\ j \in Nat /\ j <= k /\ \A c \in 1..j : lines[l][c] = Clean(entry.lines[l][c])
    BY <1>2
  <2>2. k \in Nat
    BY DEF Entry
  <2>3. j = Least(LimitOf(Cols * Rows, entry), k)
    BY <1>4
  <2> HIDE DEF j, k
  <2>4. \A c \in 1..Len(lines[l]) : c \in 1..k /\ lines[l][c] = Clean(entry.lines[l][c])
    BY <2>1, <2>2
  <2> QED BY <2>1, <2>3, <2>4 DEF k
<1> HIDE DEF n
<1>10. EntryPlan(Cols, Cols * Rows, T, entry, lines, rows, flat, base, at)
  BY <1>2, <1>4, <1>5, <1>6, <1>8, <1>9 DEF EntryPlan, n
<1> QED BY <1>10 DEF T, lines, rows, flat

\* LayoutPages lays the reply out.
THEOREM ReplyIsLaidOut ==
    ASSUME grid \in Grids, NEW g \in Nat, reply \in Seq(Entry(g))
    PROVE  IsLayout(Cols, Rows, Ink(g), reply, LayoutPages(reply))
<1> DEFINE T == Ink(g)
           n == Len(reply)
           all == AllPages(reply)
           pages == LayoutPages(reply)
<1>1. Cols \in Nat \ {0} /\ Rows \in Nat \ {0}
  BY GridSize
<1>2. all \in Seq(Seq(Seq(T))) /\ \E off : LaidOut(all, off, reply, n)
  BY ReplyLaidOut
<1>3. PagesOf(Cols, Rows, T, pages, all)
  <2>1. /\ pages \in Seq(Seq(Ink(g))) /\ Len(pages) \in 1..MaxPages
        /\ Len(pages) < MaxPages => Len(AllPages(reply)) <= Len(pages)
        /\ \A p \in 1..Len(pages) :
             /\ Len(pages[p]) = PageChars
             /\ \A r \in 1..Rows : \A c \in 1..Cols :
                  pages[p][(r - 1) * Cols + c] = Printed(AllPages(reply), p, r, c)
    BY ReplyPages
  <2>2. PageChars = Cols * Rows
    BY DEF PageChars
  <2> HIDE DEF pages
  <2> QED BY <2>1, <2>2, Zenon DEF PagesOf
<1>4. PICK off : LaidOut(all, off, reply, n)
  BY <1>2
<1>5. \A e \in 1..n : reply[e] \in Entry(g)
  OBVIOUS
<1> DEFINE lines == [e \in 1..n |-> EntryLines(reply[e])]
           rows == [e \in 1..n |-> LineRows(reply[e])]
           flat == [e \in 1..n |-> EntryRows(reply[e])]
           IsPlan(e, b, a) == EntryPlan(Cols, Cols * Rows, T, reply[e], lines[e], rows[e], flat[e], b, a)
           base == [e \in 1..n |-> CHOOSE b : \E x : IsPlan(e, b, x)]
           at == [e \in 1..n |-> CHOOSE a : IsPlan(e, base[e], a)]
<1>6. \A e \in 1..n : lines[e] = EntryLines(reply[e]) /\ rows[e] = LineRows(reply[e])
                      /\ flat[e] = EntryRows(reply[e])
  BY Zenon
<1>7. \A e \in 1..n : \E b, a : EntryPlan(Cols, Cols * Rows, T, reply[e], lines[e], rows[e], flat[e], b, a)
  <2> SUFFICES ASSUME NEW e \in 1..n
               PROVE  \E b, a : EntryPlan(Cols, Cols * Rows, T, reply[e], lines[e], rows[e], flat[e], b, a)
    OBVIOUS
  <2>1. \E b, a : EntryPlan(Cols, Cols * Rows, Ink(g), reply[e], EntryLines(reply[e]), LineRows(reply[e]),
                            EntryRows(reply[e]), b, a)
    BY <1>5, PlanOfEntry
  <2> HIDE DEF lines, rows, flat
  <2> QED BY <1>6, <2>1
<1> HIDE DEF lines, rows, flat
<1>8. \A e \in 1..n : IsPlan(e, base[e], at[e])
  <2> SUFFICES ASSUME NEW e \in 1..n PROVE IsPlan(e, base[e], at[e])
    OBVIOUS
  <2>1. \E b, a : IsPlan(e, b, a)
    BY <1>7
  <2> HIDE DEF IsPlan
  <2>2. \E a : IsPlan(e, CHOOSE b : \E x : IsPlan(e, b, x), a)
    BY <2>1, Zenon
  <2>3. base[e] = CHOOSE b : \E x : IsPlan(e, b, x)
    BY Zenon
  <2>4. \E a : IsPlan(e, base[e], a)
    BY <2>2, <2>3, Zenon
  <2>5. at[e] = CHOOSE a : IsPlan(e, base[e], a)
    BY Zenon
  <2> HIDE DEF base, at
  <2> QED BY <2>4, <2>5, Zenon
<1> DEFINE m == [all |-> all, off |-> off, lines |-> lines, rows |-> rows, flat |-> flat,
                 base |-> base, at |-> at]
<1> HIDE DEF base, at, all, T
<1>9. /\ m.all = all /\ m.off = off /\ m.lines = lines /\ m.rows = rows /\ m.flat = flat
      /\ m.base = base /\ m.at = at
  OBVIOUS
<1> HIDE DEF m
<1>10. /\ \A e \in 1..(n + 1) : off[e] \in 0..Len(all)
       /\ off[1] = 0 /\ off[n + 1] = Len(all)
       /\ \A e \in 1..n : Sheets(all, off[e], off[e + 1], flat[e])
       /\ \A p \in 1..Len(all) : \E e \in 1..n : p \in (off[e] + 1)..off[e + 1]
  BY <1>4, <1>6, Zenon DEF LaidOut
<1>11. \A e \in 1..n : SheetsOf(Rows, all, off[e], off[e + 1], flat[e])
  BY <1>10, Zenon DEF Sheets, SheetsOf
<1>12. \A e \in 1..n : EntryPlan(Cols, Cols * Rows, T, reply[e], lines[e], rows[e], flat[e], base[e], at[e])
  BY <1>8
<1>13. Plan(Cols, Rows, T, reply, m)
  BY <1>2, <1>9, <1>10, <1>11, <1>12, Zenon DEF Plan
<1>14. PagesOf(Cols, Rows, T, pages, m.all)
  BY <1>3, <1>9, Zenon DEF all
<1> QED BY <1>13, <1>14, Zenon DEF IsLayout, T

-----------------------------------------------------------------------------
(* The inductive invariant.                                                *)

Strings(pages) == [p \in DOMAIN pages |-> AsciiToTokensLossy(pages[p])]

\* What the frame and the strings are made of, when they are there.
Packed(size2, g, rep, f, s) ==
    \E pages :
        /\ IsLayout(size2[1], size2[2], Ink(g), rep, pages)
        /\ f = [n |-> Len(pages), body |-> Join(pages)]
        /\ s # <<>> => s = Strings(pages)

TextInv ==
    /\ side \in {"ask", "reply"} /\ mode \in {"text", "math"} /\ grid \in Grids
    /\ typed \in Seq(Bytes)
    /\ ascii # <<>> => ascii = TokensToAscii(mode, typed)
    /\ size \in 0..MaxSize /\ glyphs \in 0..size
    /\ reply \in Seq(Entry(glyphs)) /\ Numbered(reply)
    /\ strs # <<>> => frame # NoFrame
    /\ frame # NoFrame => Packed(grid, glyphs, reply, frame, strs)

\* The strings of the calculator have the length of the pages, and their characters.
LEMMA StringsAre ==
    ASSUME NEW g \in Nat, NEW C, NEW R, NEW rep, NEW pages, IsLayout(C, R, Ink(g), rep, pages),
           C * R \in Nat, MaxPages \in Nat
    PROVE  /\ pages \in Seq(Seq(Ink(g))) /\ Len(pages) \in 1..MaxPages
           /\ \A p \in 1..Len(pages) : Len(pages[p]) = C * R
           /\ Strings(pages) \in Seq(Seq(0..g)) /\ Len(Strings(pages)) = Len(pages)
           /\ \A p \in 1..Len(pages) :
                /\ Len(Strings(pages)[p]) = C * R
                /\ \A i \in 1..(C * R) : Strings(pages)[p][i] = Paint(pages[p][i])
<1>1. PICK m : PagesOf(C, R, Ink(g), pages, m.all)
  BY DEF IsLayout
<1>2. /\ pages \in Seq(Seq(Ink(g))) /\ Len(pages) \in 1..MaxPages
      /\ \A p \in 1..Len(pages) : Len(pages[p]) = C * R
  BY <1>1 DEF PagesOf
<1> DEFINE D == Seq(0..g)
           S == Strings(pages)
<1>3. \A p \in 1..Len(pages) : pages[p] \in Seq(Ink(g))
  BY <1>2
<1>4. \A p \in 1..Len(pages) :
        /\ AsciiToTokensLossy(pages[p]) \in D
        /\ Len(AsciiToTokensLossy(pages[p])) = C * R
        /\ \A i \in 1..(C * R) : AsciiToTokensLossy(pages[p])[i] = Paint(pages[p][i])
  BY <1>2, <1>3, LossyIs
<1> DEFINE f(p) == AsciiToTokensLossy(pages[p])
<1>5. \A p \in 1..Len(pages) : f(p) \in D
  BY <1>4
<1>6. S = [p \in 1..Len(pages) |-> f(p)] /\ Len(pages) \in Nat
  BY <1>2 DEF Strings
<1> HIDE DEF D, f, S
<1>7. S \in Seq(D) /\ Len(S) = Len(pages) /\ \A p \in 1..Len(pages) : S[p] = f(p)
  BY <1>5, <1>6
<1>8. \A p \in 1..Len(pages) :
        /\ Len(S[p]) = C * R
        /\ \A i \in 1..(C * R) : S[p][i] = Paint(pages[p][i])
  BY <1>4, <1>7 DEF f
<1> QED BY <1>2, <1>7, <1>8 DEF S, D

\* The frame of a layout.
LEMMA JoinedIs ==
    ASSUME NEW g \in Nat, NEW pages \in Seq(Seq(Ink(g))), Len(pages) > 0
    PROVE  Join(pages) \in Seq(Nul..g)
<1> DEFINE T == Ink(g)
<1>1. Nul \notin T /\ T \cup {Nul} \subseteq Nul..g
  BY DEF Ink, Nul, Odd
<1> HIDE DEF T
<1>2. pages \in Seq(Seq(T)) /\ pages # <<>>
  BY DEF T
<1>3. Join(pages) \in Seq(T \cup {Nul})
  BY <1>1, <1>2, JoinParted
<1> DEFINE A == T \cup {Nul}
           B == Nul..g
<1>4. A \subseteq B /\ Join(pages) \in Seq(A)
  BY <1>1, <1>3
<1> HIDE DEF A, B
<1>5. Join(pages) \in Seq(B)
  BY <1>4
<1> QED BY <1>5 DEF B

\* The invariant gives the types, and the length that the deck's sub( needs.
LEMMA TextTyped == TextInv => TypeOK
<1> SUFFICES ASSUME TextInv PROVE TypeOK
  OBVIOUS
<1>0. grid \in Grids
  BY DEF TextInv
<1>1. /\ Cols \in Nat \ {0} /\ Rows \in Nat \ {0} /\ PageChars \in Nat \ {0}
      /\ MaxPages \in Nat \ {0} /\ MaxSize \in Nat
  BY <1>0, GridSize
<1>2. /\ side \in {"ask", "reply"} /\ mode \in {"text", "math"} /\ typed \in Seq(Bytes)
      /\ size \in 0..MaxSize /\ glyphs \in 0..size /\ reply \in Seq(Entry(glyphs))
  BY DEF TextInv
<1>3. glyphs \in 0..MaxSize /\ glyphs \in Nat
  BY <1>1, <1>2
<1>4. ascii \in Seq(Bytes \cup {"*", "?"})
  <2>1. CASE ascii = <<>>
    <3> DEFINE P == Bytes \cup {"*", "?"}
    <3> HIDE DEF P
    <3>1. <<>> \in Seq(P)
      OBVIOUS
    <3> QED BY <2>1, <3>1 DEF P
  <2>2. CASE ascii # <<>>
    <3>1. ascii = TokensToAscii(mode, typed)
      BY <2>2 DEF TextInv
    <3>2. ascii \in Seq(Pieces)
      BY <1>2, <3>1, TokensToAsciiShows
    <3> QED BY <3>2 DEF Pieces
  <2> QED BY <2>1, <2>2
<1>5. reply \in Seq([kind : {"lines", "text"}, lines : Seq(Seq(Odd..MaxSize))])
  <2> DEFINE A == Entry(glyphs)
             B == [kind : {"lines", "text"}, lines : Seq(Seq(Odd..MaxSize))]
  <2>1. A \subseteq B
    <3> DEFINE a == Written(glyphs)
               b == Odd..MaxSize
    <3>1. a \subseteq b
      BY <1>1, <1>3 DEF Written, Odd
    <3> HIDE DEF a, b
    <3>2. Seq(a) \subseteq Seq(b)
      BY <3>1
    <3> DEFINE c == Seq(a)
               d == Seq(b)
    <3> HIDE DEF c, d
    <3>3. Seq(c) \subseteq Seq(d)
      BY <3>2 DEF c, d
    <3>4. A \subseteq [kind : {"lines", "text"}, lines : Seq(c)]
      BY DEF Entry, a, c
    <3>5. A \subseteq [kind : {"lines", "text"}, lines : Seq(d)]
      BY <3>3, <3>4
    <3> QED BY <3>5 DEF b, d
  <2>2. reply \in Seq(A)
    BY <1>2
  <2> HIDE DEF A, B
  <2>3. reply \in Seq(B)
    BY <2>1, <2>2
  <2> QED BY <2>3 DEF B
<1>6. CASE frame = NoFrame
  <2>1. strs = <<>>
    BY <1>6 DEF TextInv
  <2>2. frame.n \in 0..MaxPages /\ frame.body \in Seq(Nul..glyphs)
    <3> DEFINE B == Nul..glyphs
    <3> HIDE DEF B
    <3>1. frame.n = 0 /\ frame.body = <<>>
      BY <1>6 DEF NoFrame
    <3>2. frame.body \in Seq(B)
      BY <3>1
    <3> QED BY <1>1, <3>1, <3>2 DEF B
  <2>3. strs \in Seq(Seq(0..glyphs)) /\ Len(strs) <= MaxPages /\ \A p \in DOMAIN strs : Drawable(strs[p])
    <3> DEFINE B == Seq(0..glyphs)
    <3> HIDE DEF B
    <3>1. strs \in Seq(B) /\ Len(strs) = 0 /\ DOMAIN strs = {}
      BY <2>1
    <3> QED BY <1>1, <3>1 DEF B
  <2> QED BY <1>0, <1>2, <1>3, <1>4, <1>5, <2>2, <2>3 DEF TypeOK
<1>7. CASE frame # NoFrame
  <2>1. Packed(grid, glyphs, reply, frame, strs)
    BY <1>7 DEF TextInv
  <2>2. PICK pages : /\ IsLayout(grid[1], grid[2], Ink(glyphs), reply, pages)
                     /\ frame = [n |-> Len(pages), body |-> Join(pages)]
                     /\ strs # <<>> => strs = Strings(pages)
    BY <2>1 DEF Packed
  <2>3. grid[1] * grid[2] = PageChars
    BY DEF PageChars, Cols, Rows
  <2>4. /\ pages \in Seq(Seq(Ink(glyphs))) /\ Len(pages) \in 1..MaxPages
        /\ Strings(pages) \in Seq(Seq(0..glyphs)) /\ Len(Strings(pages)) = Len(pages)
        /\ \A p \in 1..Len(pages) : Len(Strings(pages)[p]) = PageChars
    BY <1>1, <1>3, <2>2, <2>3, StringsAre
  <2>5. frame.n \in 0..MaxPages /\ frame.body \in Seq(Nul..glyphs)
    <3>1. Join(pages) \in Seq(Nul..glyphs)
      BY <1>3, <2>4, JoinedIs
    <3>2. frame.n = Len(pages) /\ frame.body = Join(pages)
      BY <2>2
    <3> QED BY <1>1, <2>4, <3>1, <3>2
  <2>6. strs \in Seq(Seq(0..glyphs)) /\ Len(strs) <= MaxPages
    <3>1. CASE strs = <<>>
      <4> DEFINE B == Seq(0..glyphs)
      <4> HIDE DEF B
      <4>1. strs \in Seq(B) /\ Len(strs) = 0
        BY <3>1
      <4> QED BY <1>1, <4>1 DEF B
    <3>2. CASE strs # <<>>
      <4>1. strs = Strings(pages)
        BY <2>2, <3>2
      <4> QED BY <1>1, <2>4, <4>1
    <3> QED BY <3>1, <3>2
  <2>7. ASSUME NEW p \in DOMAIN strs PROVE Drawable(strs[p])
    <3>1. strs # <<>>
      BY <2>7
    <3>2. strs = Strings(pages)
      BY <2>2, <3>1
    <3>3. p \in 1..Len(pages)
      BY <2>4, <2>6, <2>7, <3>2
    <3>4. Len(strs[p]) = PageChars
      BY <2>4, <3>2, <3>3
    <3>5. \A r \in 1..Rows : 1 + (r - 1) * Cols + Cols - 1 <= PageChars
      <4> SUFFICES ASSUME NEW r \in 1..Rows PROVE 1 + (r - 1) * Cols + Cols - 1 <= PageChars
        OBVIOUS
      <4>1. (r - 1) * Cols + Cols \in 1..(Cols * Rows)
        <5>1. Cols \in 1..Cols
          BY <1>1
        <5> QED BY <1>1, <5>1, RowCell
      <4>2. (r - 1) * Cols \in Nat /\ Cols \in Nat /\ Cols * Rows \in Nat
        <5>1. r - 1 \in Nat
          BY <1>1
        <5> QED BY <1>1, <5>1, Commute
      <4> QED BY <4>1, <4>2 DEF PageChars
    <3> QED BY <3>4, <3>5 DEF Drawable
  <2> QED BY <1>0, <1>2, <1>3, <1>4, <1>5, <2>5, <2>6, <2>7 DEF TypeOK
<1> QED BY <1>6, <1>7

\* Before the first entry there is nothing to number.
LEMMA EmptyNumbered ==
    ASSUME NEW g \in Nat
    PROVE  <<>> \in Seq(Entry(g)) /\ Numbered(<<>>)
<1> DEFINE E == Entry(g)
<1> HIDE DEF E
<1>1. <<>> \in Seq(E)
  OBVIOUS
<1>2. \A x \in Chars : ~IsChar(<<>>, x)
  BY DEF IsChar
<1> QED BY <1>1, <1>2 DEF E, Numbered

\* A step that writes the reply: no frame is made yet.
ReplySound(rep, g, k) ==
    k \in 0..MaxSize /\ g \in 0..k /\ rep \in Seq(Entry(g)) /\ Numbered(rep)

\* Whatever the model writes next, the reply stays one of its kind, numbered as written.
LEMMA AnswerKeeps ==
    ASSUME ReplySound(reply, glyphs, size), MaxSize \in Nat, NewEntry \/ NewLine \/ Write
    PROVE  ReplySound(reply', glyphs', size')
<1>1. /\ size \in 0..MaxSize /\ glyphs \in 0..size /\ reply \in Seq(Entry(glyphs)) /\ Numbered(reply)
      /\ glyphs \in Nat
  BY DEF ReplySound
<1>2. CASE NewEntry
  <2>1. PICK kind \in {"lines", "text"} :
          AddTo(Append(reply, [kind |-> kind, lines |-> IF kind = "text" THEN << <<>> >> ELSE <<>>]))
    BY <1>2 DEF NewEntry
  <2>2. /\ size < MaxSize /\ size' = size + 1 /\ glyphs' = glyphs
        /\ reply' = Append(reply, [kind |-> kind, lines |-> IF kind = "text" THEN << <<>> >> ELSE <<>>])
    BY <1>2, <2>1 DEF NewEntry, AddTo
  <2>3. reply' \in Seq(Entry(glyphs)) /\ Numbered(reply')
    BY <1>1, <2>2, NewEntryKeeps
  <2>4. size' \in 0..MaxSize /\ glyphs' \in 0..size'
    BY <1>1, <2>2
  <2> QED BY <2>2, <2>3, <2>4 DEF ReplySound
<1>3. CASE NewLine
  <2>1. /\ reply # <<>> /\ reply[Len(reply)].kind = "lines"
        /\ size < MaxSize /\ size' = size + 1 /\ glyphs' = glyphs
        /\ reply' = [reply EXCEPT ![Len(reply)].lines = Append(@, <<>>)]
    BY <1>3 DEF NewLine, AddTo, Last
  <2>2. reply' \in Seq(Entry(glyphs)) /\ Numbered(reply')
    BY <1>1, <2>1, NewLineKeeps
  <2>3. size' \in 0..MaxSize /\ glyphs' \in 0..size'
    BY <1>1, <2>1
  <2> QED BY <2>1, <2>2, <2>3 DEF ReplySound
<1>4. CASE Write
  <2>1. reply # <<>> /\ reply[Len(reply)].lines # <<>>
    BY <1>4 DEF Write, Last
  <2>2. PICK c \in {Space, Odd, glyphs + 1, IF Last(reply).kind = "text" THEN Newline ELSE Foreign} :
          /\ AddTo([reply EXCEPT ![Len(reply)].lines[Len(Last(reply).lines)] = Append(@, c)])
          /\ glyphs' = IF c > 0 THEN c ELSE glyphs
    BY <1>4 DEF Write
  <2>3. /\ size < MaxSize /\ size' = size + 1
        /\ reply' = [reply EXCEPT ![Len(reply)].lines[Len(reply[Len(reply)].lines)] = Append(@, c)]
    BY <2>2 DEF AddTo, Last
  <2>4. c \in {Space, Odd, glyphs + 1, Newline, Foreign}
    BY <2>2
  <2>5. /\ c \in Written(glyphs + 1) /\ (c <= 0 \/ c > glyphs)
        /\ glyphs' \in Nat /\ glyphs <= glyphs' /\ c <= glyphs' /\ glyphs' <= glyphs + 1
    BY <1>1, <2>2, <2>4 DEF Space, Odd, Newline, Foreign, Written
  <2>6. reply' \in Seq(Entry(glyphs')) /\ Numbered(reply')
    BY <1>1, <2>1, <2>3, <2>5, WriteKeeps
  <2>7. size' \in 0..MaxSize /\ glyphs' \in 0..size'
    BY <1>1, <2>3, <2>5
  <2> QED BY <2>6, <2>7 DEF ReplySound
<1> QED BY <1>2, <1>3, <1>4

\* The frame of the reply, and its strings.
LEMMA LayOutPacks ==
    ASSUME grid \in Grids, NEW g \in Nat, reply \in Seq(Entry(g))
    PROVE  LET pages == LayoutPages(reply)
           IN  Packed(grid, g, reply, [n |-> Len(pages), body |-> Join(pages)], <<>>)
<1> DEFINE pages == LayoutPages(reply)
<1>1. IsLayout(grid[1], grid[2], Ink(g), reply, pages)
  BY ReplyIsLaidOut DEF Cols, Rows
<1> HIDE DEF pages
<1>2. Packed(grid, g, reply, [n |-> Len(pages), body |-> Join(pages)], <<>>)
  BY <1>1 DEF Packed
<1> QED BY <1>2 DEF pages

\* What the bridge pushes is the strings of the pages that were laid out.
LEMMA PushPacks ==
    ASSUME grid \in Grids, NEW g \in Nat, Packed(grid, g, reply, frame, <<>>)
    PROVE  LET texts == First(ParsePagesFrame(frame), MaxPages)
           IN  Packed(grid, g, reply, frame, [p \in DOMAIN texts |-> AsciiToStrPayload(texts[p])])
<1>1. /\ PageChars \in Nat \ {0} /\ PageChars <= InMax /\ InMax \in Nat /\ MaxPages \in Nat
  BY GridSize
<1>2. PICK pages : /\ IsLayout(grid[1], grid[2], Ink(g), reply, pages)
                   /\ frame = [n |-> Len(pages), body |-> Join(pages)]
  BY DEF Packed
<1>3. grid[1] * grid[2] = PageChars
  BY DEF PageChars, Cols, Rows
<1>4. /\ pages \in Seq(Seq(Ink(g))) /\ Len(pages) \in 1..MaxPages
      /\ \A p \in 1..Len(pages) : Len(pages[p]) = PageChars
  <2>1. grid[1] * grid[2] \in Nat
    BY <1>1, <1>3
  <2>2. /\ pages \in Seq(Seq(Ink(g))) /\ Len(pages) \in 1..MaxPages
        /\ \A p \in 1..Len(pages) : Len(pages[p]) = grid[1] * grid[2]
    BY <1>1, <1>2, <2>1, StringsAre
  <2> QED BY <1>3, <2>2
<1> DEFINE texts == First(ParsePagesFrame(frame), MaxPages)
           s == [p \in DOMAIN texts |-> AsciiToStrPayload(texts[p])]
<1>5. s = Strings(pages)
  <2> DEFINE n == Len(pages)
  <2>1. LET t == First(ParsePagesFrame([n |-> n, body |-> Join(pages)]), MaxPages)
        IN  [p \in DOMAIN t |-> AsciiToStrPayload(t[p])] = [p \in DOMAIN pages |-> AsciiToTokensLossy(pages[p])]
    BY <1>1, <1>4, PushedIs
  <2> QED BY <1>2, <2>1 DEF Strings
<1> HIDE DEF s
<1>6. Packed(grid, g, reply, frame, s)
  BY <1>2, <1>5 DEF Packed
<1> QED BY <1>6 DEF s

\* The invariant holds at first.
LEMMA TextInit == Init => TextInv
<1> SUFFICES ASSUME Init PROVE TextInv
  OBVIOUS
<1>1. /\ side \in {"ask", "reply"} /\ mode \in {"text", "math"} /\ grid \in Grids
      /\ typed = <<>> /\ ascii = <<>> /\ reply = <<>> /\ glyphs = 0 /\ size = 0
      /\ frame = NoFrame /\ strs = <<>>
  BY DEF Init, Blank
<1>2. typed \in Seq(Bytes)
  <2> DEFINE B == Bytes
  <2> HIDE DEF B
  <2>1. typed \in Seq(B)
    BY <1>1
  <2> QED BY <2>1 DEF B
<1>3. reply \in Seq(Entry(glyphs)) /\ Numbered(reply)
  BY <1>1, EmptyNumbered
<1>4. size \in 0..MaxSize /\ glyphs \in 0..size
  BY <1>1, LayoutAssumption
<1> QED BY <1>1, <1>2, <1>3, <1>4 DEF TextInv

\* Every step keeps the invariant.
LEMMA TextNext == TextInv /\ [Next]_vars => TextInv'
<1> SUFFICES ASSUME TextInv, [Next]_vars PROVE TextInv'
  OBVIOUS
<1>1. /\ side \in {"ask", "reply"} /\ mode \in {"text", "math"} /\ grid \in Grids
      /\ typed \in Seq(Bytes)
      /\ ascii # <<>> => ascii = TokensToAscii(mode, typed)
      /\ ReplySound(reply, glyphs, size)
      /\ strs # <<>> => frame # NoFrame
      /\ frame # NoFrame => Packed(grid, glyphs, reply, frame, strs)
  BY DEF TextInv, ReplySound
<1>2. /\ MaxSize \in Nat /\ glyphs \in Nat /\ reply \in Seq(Entry(glyphs))
  BY <1>1, LayoutAssumption DEF ReplySound
<1>3. SUFFICES
        /\ side' \in {"ask", "reply"} /\ mode' \in {"text", "math"} /\ grid' \in Grids
        /\ typed' \in Seq(Bytes)
        /\ ascii' # <<>> => ascii' = TokensToAscii(mode', typed')
        /\ ReplySound(reply', glyphs', size')
        /\ strs' # <<>> => frame' # NoFrame
        /\ frame' # NoFrame => Packed(grid', glyphs', reply', frame', strs')
  BY DEF TextInv, ReplySound, NoFrame
<1>4. CASE Type
  <2>1. PICK b \in Bytes : typed' = Append(typed, b)
    BY <1>4 DEF Type
  <2>2. UNCHANGED <<side, grid, replyVars, mode, ascii, pageVars>> /\ ascii = <<>>
    BY <1>4 DEF Type
  <2>3. typed' \in Seq(Bytes)
    <3> DEFINE B == Bytes
    <3>1. typed \in Seq(B) /\ b \in B
      BY <1>1
    <3> HIDE DEF B
    <3>2. typed' \in Seq(B)
      BY <2>1, <3>1
    <3> QED BY <3>2 DEF B
  <2> QED BY <1>1, <2>2, <2>3 DEF replyVars, pageVars
<1>5. CASE Decode
  <2>1. ascii' = TokensToAscii(mode, typed) /\ UNCHANGED <<side, grid, replyVars, typed, mode, pageVars>>
    BY <1>5 DEF Decode
  <2> QED BY <1>1, <2>1 DEF replyVars, pageVars
<1>6. CASE Answer
  <2>1. frame = NoFrame /\ UNCHANGED <<side, grid, askVars, pageVars>> /\ (NewEntry \/ NewLine \/ Write)
    BY <1>6 DEF Answer
  <2>2. ReplySound(reply', glyphs', size')
    BY <1>1, <1>2, <2>1, AnswerKeeps
  <2>3. strs = <<>>
    BY <1>1, <2>1
  <2> QED BY <1>1, <2>1, <2>2, <2>3 DEF askVars, pageVars
<1>7. CASE LayOut
  <2> DEFINE pages == LayoutPages(reply)
  <2>1. /\ frame = NoFrame /\ frame' = [n |-> Len(pages), body |-> Join(pages)]
        /\ UNCHANGED <<side, grid, replyVars, askVars, strs>>
    BY <1>7 DEF LayOut
  <2>2. Packed(grid, glyphs, reply, frame', <<>>)
    BY <1>1, <1>2, <2>1, LayOutPacks
  <2>3. strs = <<>>
    BY <1>1, <2>1
  <2> HIDE DEF pages
  <2> QED BY <1>1, <2>1, <2>2, <2>3 DEF askVars, replyVars
<1>8. CASE Push
  <2> DEFINE texts == First(ParsePagesFrame(frame), MaxPages)
             s == [p \in DOMAIN texts |-> AsciiToStrPayload(texts[p])]
  <2>1. frame # NoFrame /\ strs = <<>> /\ strs' = s /\ UNCHANGED <<side, grid, replyVars, askVars, frame>>
    BY <1>8 DEF Push
  <2>2. Packed(grid, glyphs, reply, frame, s)
    BY <1>1, <1>2, <2>1, PushPacks
  <2> HIDE DEF s
  <2> QED BY <1>1, <2>1, <2>2 DEF askVars, replyVars
<1>9. CASE Again
  <2>1. /\ reply' = <<>> /\ glyphs' = 0 /\ size' = 0
        /\ typed' = <<>> /\ ascii' = <<>> /\ frame' = NoFrame /\ strs' = <<>>
        /\ UNCHANGED <<side, grid, mode>>
    BY <1>9 DEF Again
  <2>2. ReplySound(reply', glyphs', size')
    BY <1>2, <2>1, EmptyNumbered DEF ReplySound
  <2>3. typed' \in Seq(Bytes)
    <3> DEFINE B == Bytes
    <3> HIDE DEF B
    <3>1. typed' \in Seq(B)
      BY <2>1
    <3> QED BY <3>1 DEF B
  <2> QED BY <1>1, <2>1, <2>2, <2>3
<1>10. CASE UNCHANGED vars
  BY <1>1, <1>10 DEF vars, replyVars, askVars, pageVars
<1> QED BY <1>4, <1>5, <1>6, <1>7, <1>8, <1>9, <1>10 DEF Next

\* Decoding a string, laying out a reply, packing it in a frame and pushing its pages keep
\* the invariant: what the calculator has is the layout of the reply that was written.
THEOREM TextInvariant == Spec => []TextInv
<1>1. Init => TextInv
  BY TextInit
<1>2. TextInv /\ [Next]_vars => TextInv'
  BY TextNext
<1> QED BY <1>1, <1>2, PTL DEF Spec

\* A reply gives one to MaxPages strings, each long enough for every sub( of the deck
\* (layout_pages, _push_paginated_reply).
THEOREM TextTypeCorrect == Spec => []TypeOK
<1>1. TextInv => TypeOK
  BY TextTyped
<1> QED BY <1>1, TextInvariant, PTL

\* tokens_to_ascii shows each token of the string once and in order, for strings of every
\* length, with "*" between juxtaposed values, or either way where code and comments
\* disagree.
THEOREM TokensAlwaysRead == Spec => []TokensRead
<1>1. TextInv => TokensRead
  <2> SUFFICES ASSUME TextInv, ascii # <<>>
               PROVE  \E bare \in SUBSET Disputed(typed) :
                          ascii = FlattenSeq([i \in DOMAIN typed |-> Shows(mode, typed, i, bare)])
    BY DEF TokensRead
  <2>1. ascii = TokensToAscii(mode, typed) /\ typed \in Seq(Bytes)
    BY DEF TextInv
  <2>2. ascii = FlattenSeq([i \in DOMAIN typed |-> Shows(mode, typed, i, Disputed(typed))])
    BY <2>1, TokensToAsciiShows DEF AsShown
  <2> QED BY <2>2
<1> QED BY <1>1, TextInvariant, PTL

-----------------------------------------------------------------------------
(* The rows of a reply, numbered from 0 through its pages: where the k-th  *)
(* row of line l of entry e is.                                            *)

RowNo(R, m, e, l, k) == m.off[e] * R + m.base[e][l] + k - 1
IsRow(rep, m, e, l, k) ==
    e \in 1..Len(rep) /\ l \in 1..Len(rep[e].lines) /\ k \in 1..Len(m.rows[e][l])

\* Multiplication distributes over addition.
LEMMA Distribute ==
    ASSUME NEW a \in Nat, NEW b \in Nat, NEW d \in Nat
    PROVE  (a + b) * d = a * d + b * d /\ a * d \in Nat /\ b * d \in Nat
OBVIOUS

\* The plan of an entry.
LEMMA PlanAt ==
    ASSUME NEW C, NEW R, NEW T, NEW rep, NEW m, Plan(C, R, T, rep, m), NEW e \in 1..Len(rep),
           Len(rep) \in Nat
    PROVE  /\ SheetsOf(R, m.all, m.off[e], m.off[e + 1], m.flat[e])
           /\ EntryPlan(C, C * R, T, rep[e], m.lines[e], m.rows[e], m.flat[e], m.base[e], m.at[e])
           /\ m.all \in Seq(Seq(Seq(T))) /\ Len(m.all) \in Nat
           /\ m.off[e] \in 0..Len(m.all) /\ m.off[e + 1] \in 0..Len(m.all)
<1>1. m.all \in Seq(Seq(Seq(T))) /\ \A f \in 1..(Len(rep) + 1) : m.off[f] \in 0..Len(m.all)
  BY DEF Plan
<1>2. e \in 1..(Len(rep) + 1) /\ e + 1 \in 1..(Len(rep) + 1)
  OBVIOUS
<1>3. Len(m.all) \in Nat
  BY <1>1
<1>4. /\ SheetsOf(R, m.all, m.off[e], m.off[e + 1], m.flat[e])
      /\ EntryPlan(C, C * R, T, rep[e], m.lines[e], m.rows[e], m.flat[e], m.base[e], m.at[e])
  BY Zenon DEF Plan
<1> QED BY <1>1, <1>2, <1>3, <1>4

\* A row of a line, among the rows of its entry.
LEMMA RowInEntry ==
    ASSUME NEW C, NEW R, NEW T, NEW rep, NEW m, Plan(C, R, T, rep, m), Len(rep) \in Nat,
           NEW e, NEW l, NEW k, IsRow(rep, m, e, l, k), Len(rep[e].lines) \in Nat
    PROVE  /\ m.base[e][l] \in Nat /\ k \in Nat /\ m.base[e][l] + k \in 1..Len(m.flat[e])
           /\ m.flat[e][m.base[e][l] + k] = m.rows[e][l][k]
           /\ m.off[e] \in Nat /\ m.rows[e][l][k] \in Seq(T) /\ m.base[e][l] + k <= m.base[e][l + 1]
<1> DEFINE n == Len(rep[e].lines)
           flat == m.flat[e]
           base == m.base[e]
           rows == m.rows[e]
<1>1. e \in 1..Len(rep) /\ l \in 1..n /\ k \in 1..Len(rows[l])
  BY DEF IsRow
<1>2. /\ EntryPlan(C, C * R, T, rep[e], m.lines[e], rows, flat, base, m.at[e])
      /\ m.off[e] \in Nat
  BY <1>1, PlanAt
<1> HIDE DEF flat, base, rows
<1>3. flat \in Seq(Seq(T)) /\ Strung(flat, base, rows, n) /\ rows \in Seq(Seq(Seq(T))) /\ Len(rows) = n
  BY <1>2 DEF EntryPlan
<1>4. n \in Nat
  OBVIOUS
<1> HIDE DEF n
<1>5. l \in 1..(n + 1) /\ l + 1 \in 1..(n + 1)
  BY <1>1, <1>4
<1>6. /\ base[l] \in 0..Len(flat) /\ base[l + 1] \in 0..Len(flat)
      /\ Len(rows[l]) \in Nat /\ base[l + 1] = base[l] + Len(rows[l])
      /\ flat[base[l] + k] = rows[l][k]
  BY <1>1, <1>3, <1>5, Zenon DEF Strung
<1>7. Len(flat) \in Nat
  BY <1>3
<1>8. base[l] \in Nat /\ k \in Nat /\ base[l] + k \in 1..Len(flat) /\ base[l] + k <= base[l + 1]
  <2> DEFINE a == base[l]
             b == base[l + 1]
             w == Len(rows[l])
             x == Len(flat)
  <2>1. a \in 0..x /\ b \in 0..x /\ w \in Nat /\ b = a + w /\ x \in Nat /\ k \in 1..w
    BY <1>1, <1>6, <1>7
  <2> HIDE DEF a, b, w, x
  <2>2. a \in Nat /\ k \in Nat /\ a + k \in 1..x /\ a + k <= b
    BY <2>1
  <2> QED BY <2>2 DEF a, b, x
<1>9. rows[l][k] \in Seq(T)
  <2>1. rows[l] \in Seq(Seq(T))
    BY <1>1, <1>3
  <2> DEFINE D == Seq(T)
  <2> HIDE DEF D
  <2>2. rows[l] \in Seq(D)
    BY <2>1 DEF D
  <2>3. rows[l][k] \in D
    BY <1>1, <2>2
  <2> QED BY <2>3 DEF D
<1>10. m.base[e][l] \in Nat /\ m.base[e][l] + k \in 1..Len(m.flat[e])
       /\ m.flat[e][m.base[e][l] + k] = m.rows[e][l][k] /\ m.rows[e][l][k] \in Seq(T)
       /\ m.base[e][l] + k <= m.base[e][l + 1]
  BY <1>6, <1>8, <1>9 DEF flat, base, rows
<1> QED BY <1>2, <1>8, <1>10

\* Where a row is on the pages.
RowOnPage(R, m, e, l, k, p, r) ==
    /\ p \in 1..Len(m.all) /\ p \in (m.off[e] + 1)..m.off[e + 1]
    /\ r \in 1..R /\ r \in 1..Len(m.all[p]) /\ m.all[p][r] = m.rows[e][l][k]
    /\ RowNo(R, m, e, l, k) = (p - 1) * R + r - 1

\* Each row of a reply is on a page.
LEMMA RowHasPage ==
    ASSUME NEW C, NEW R \in Nat \ {0}, NEW T, NEW rep, NEW m, Plan(C, R, T, rep, m), Len(rep) \in Nat,
           NEW e, NEW l, NEW k, IsRow(rep, m, e, l, k), Len(rep[e].lines) \in Nat
    PROVE  \E p, r : RowOnPage(R, m, e, l, k, p, r)
<1> DEFINE j == m.base[e][l] + k
           a == m.off[e]
           b == m.off[e + 1]
           flat == m.flat[e]
           all == m.all
           n == Len(all)
<1>1. m.base[e][l] \in Nat /\ k \in Nat /\ j \in 1..Len(flat) /\ flat[j] = m.rows[e][l][k]
  BY RowInEntry
<1>2. SheetsOf(R, all, a, b, flat) /\ n \in Nat /\ a \in 0..n /\ b \in 0..n
  <2>1. e \in 1..Len(rep)
    BY DEF IsRow
  <2> QED BY <2>1, PlanAt
<1> HIDE DEF j, a, b, flat, all, n
<1>3. PICK p \in (a + 1)..b : \E r \in 1..Len(all[p]) : j = (p - a - 1) * R + r
  BY <1>1, <1>2 DEF SheetsOf
<1>4. PICK r \in 1..Len(all[p]) : j = (p - a - 1) * R + r
  BY <1>3
<1>5. Len(all[p]) \in 1..R /\ all[p][r] = flat[j]
  BY <1>2, <1>3, <1>4, Zenon DEF SheetsOf
<1>6. p \in 1..n /\ r \in 1..R /\ p - a - 1 \in Nat /\ a \in Nat /\ p - 1 = a + (p - a - 1)
  <2>1. p \in 1..n /\ p - a - 1 \in Nat /\ a \in Nat /\ p - 1 = a + (p - a - 1)
    BY ONLY <1>2, <1>3
  <2>2. r \in 1..R
    BY ONLY <1>4, <1>5
  <2> QED BY <2>1, <2>2
<1>7. (p - 1) * R = a * R + (p - a - 1) * R /\ a * R \in Nat /\ (p - a - 1) * R \in Nat
  BY <1>6, Distribute
<1>8. RowNo(R, m, e, l, k) = a * R + j - 1
  <2>1. RowNo(R, m, e, l, k) = a * R + m.base[e][l] + k - 1
    BY DEF RowNo, a
  <2> DEFINE x == m.base[e][l]
             y == a * R
  <2>2. RowNo(R, m, e, l, k) = y + x + k - 1 /\ j = x + k /\ y \in Nat /\ x \in Nat /\ k \in Nat
    BY <1>1, <1>7, <2>1 DEF j
  <2> HIDE DEF x, y
  <2>3. RowNo(R, m, e, l, k) = y + j - 1
    BY <2>2
  <2> QED BY <2>3 DEF y
<1>9. RowNo(R, m, e, l, k) = (p - 1) * R + r - 1
  <2> DEFINE x == a * R
             y == (p - a - 1) * R
             z == (p - 1) * R
  <2>1. z = x + y /\ x \in Nat /\ y \in Nat /\ j = y + r /\ RowNo(R, m, e, l, k) = x + j - 1
    BY <1>4, <1>7, <1>8
  <2>2. r \in Nat
    BY <1>6
  <2> HIDE DEF x, y, z
  <2>3. RowNo(R, m, e, l, k) = z + r - 1
    BY <2>1, <2>2
  <2> QED BY <2>3 DEF z
<1>10. RowOnPage(R, m, e, l, k, p, r)
  BY <1>1, <1>3, <1>4, <1>5, <1>6, <1>9 DEF RowOnPage, a, b, flat, all, n
<1> QED BY <1>10

\* Each row of a page is a row of the reply.
LEMMA PageHasRow ==
    ASSUME NEW C, NEW R \in Nat \ {0}, NEW T, NEW rep, NEW m, Plan(C, R, T, rep, m), Len(rep) \in Nat,
           \A e \in 1..Len(rep) : Len(rep[e].lines) \in Nat,
           NEW p \in 1..Len(m.all), NEW r \in 1..Len(m.all[p])
    PROVE  \E e, l, k : IsRow(rep, m, e, l, k) /\ RowOnPage(R, m, e, l, k, p, r)
<1>1. PICK e \in 1..Len(rep) : p \in (m.off[e] + 1)..m.off[e + 1]
  BY DEF Plan
<1> DEFINE a == m.off[e]
           b == m.off[e + 1]
           flat == m.flat[e]
           base == m.base[e]
           rows == m.rows[e]
           all == m.all
           n == Len(rep[e].lines)
           j == (p - a - 1) * R + r
<1>2. /\ SheetsOf(R, all, a, b, flat) /\ Len(all) \in Nat /\ a \in 0..Len(all) /\ b \in 0..Len(all)
      /\ EntryPlan(C, C * R, T, rep[e], m.lines[e], rows, flat, base, m.at[e])
  BY PlanAt
<1>3. n \in Nat
  OBVIOUS
<1> HIDE DEF a, b, flat, base, rows, all, n
<1>4. p \in (a + 1)..b /\ r \in 1..Len(all[p])
  BY <1>1 DEF a, b, all
<1>5. /\ Len(all[p]) \in 1..R /\ j \in 1..Len(flat) /\ all[p][r] = flat[j]
  BY <1>2, <1>4, Zenon DEF SheetsOf
<1>6. Strung(flat, base, rows, n)
  BY <1>2 DEF EntryPlan, n
<1> HIDE DEF j
<1>7. PICK l \in 1..n : j \in (base[l] + 1)..base[l + 1]
  BY <1>5, <1>6, Zenon DEF Strung
<1>8. /\ base[l] \in 0..Len(flat)
      /\ Len(rows[l]) \in Nat /\ base[l + 1] = base[l] + Len(rows[l])
      /\ \A k \in 1..Len(rows[l]) : flat[base[l] + k] = rows[l][k]
  <2>1. l \in 1..(n + 1)
    BY <1>3, <1>7
  <2> QED BY <1>6, <1>7, <2>1, Zenon DEF Strung
<1> DEFINE k == j - base[l]
<1>9. k \in 1..Len(rows[l]) /\ j = base[l] + k /\ base[l] \in Nat /\ k \in Nat
  <2> DEFINE x == base[l]
             w == Len(rows[l])
  <2>1. j \in (x + 1)..(x + w) /\ x \in Nat /\ w \in Nat
    BY <1>7, <1>8
  <2> HIDE DEF x, w
  <2>2. j - x \in 1..w /\ j = x + (j - x) /\ j - x \in Nat
    BY <2>1
  <2> QED BY <2>1, <2>2 DEF x, w
<1>10. flat[j] = rows[l][k]
  BY <1>8, <1>9
<1>11. IsRow(rep, m, e, l, k)
  BY <1>7, <1>9 DEF IsRow, n, rows
<1> HIDE DEF k
<1>12. p \in 1..Len(all) /\ r \in 1..R /\ p - a - 1 \in Nat /\ a \in Nat /\ p - 1 = a + (p - a - 1) /\ r \in Nat
  BY <1>2, <1>4, <1>5
<1>13. (p - 1) * R = a * R + (p - a - 1) * R /\ a * R \in Nat /\ (p - a - 1) * R \in Nat
  BY <1>12, Distribute
<1>14. RowNo(R, m, e, l, k) = (p - 1) * R + r - 1
  <2>1. RowNo(R, m, e, l, k) = a * R + base[l] + k - 1
    BY DEF RowNo, a, base
  <2> DEFINE x == a * R
             y == (p - a - 1) * R
             z == (p - 1) * R
             v == base[l]
  <2>2. z = x + y /\ x \in Nat /\ y \in Nat /\ j = y + r /\ j = v + k /\ v \in Nat
        /\ RowNo(R, m, e, l, k) = x + v + k - 1
    BY <1>9, <1>13, <2>1 DEF j
  <2> HIDE DEF x, y, z, v
  <2>3. RowNo(R, m, e, l, k) = z + r - 1
    BY <1>9, <1>12, <2>2
  <2> QED BY <2>3 DEF z
<1>15. RowOnPage(R, m, e, l, k, p, r)
  BY <1>4, <1>5, <1>10, <1>12, <1>14 DEF RowOnPage, a, b, rows, all
<1> QED BY <1>11, <1>15

\* The pages of an entry come before those of a later one.
LEMMA OffOrder ==
    ASSUME NEW C, NEW R, NEW T, NEW rep, NEW m, Plan(C, R, T, rep, m), Len(rep) \in Nat,
           NEW e \in 1..Len(rep), NEW f \in 1..Len(rep), e < f
    PROVE  m.off[e + 1] <= m.off[f] /\ m.off[e + 1] \in Nat /\ m.off[f] \in Nat
<1> DEFINE off == m.off
           n == Len(rep)
           S == {i \in Nat : e + 1 + i <= n => off[e + 1] <= off[e + 1 + i]}
<1>1. \A h \in 1..n : off[h] \in Nat /\ off[h + 1] \in Nat /\ off[h] <= off[h + 1]
  <2> SUFFICES ASSUME NEW h \in 1..n PROVE off[h] \in Nat /\ off[h + 1] \in Nat /\ off[h] <= off[h + 1]
    OBVIOUS
  <2>1. SheetsOf(R, m.all, off[h], off[h + 1], m.flat[h])
    BY PlanAt
  <2> QED BY <2>1 DEF SheetsOf
<1> HIDE DEF off
<1>2. n \in Nat /\ e \in 1..n /\ f \in 1..n
  OBVIOUS
<1> HIDE DEF n
<1>3. 0 \in S
  <2>1. off[e + 1] \in Nat /\ e + 1 + 0 = e + 1
    BY <1>1, <1>2
  <2> QED BY <2>1
<1>4. ASSUME NEW i \in Nat, i \in S PROVE i + 1 \in S
  <2> SUFFICES ASSUME e + 1 + (i + 1) <= n PROVE off[e + 1] <= off[e + 1 + (i + 1)]
    OBVIOUS
  <2> DEFINE j == e + 1 + i
             a == off[e + 1]
             b == off[j]
             c == off[j + 1]
  <2>1. j + 1 = e + 1 + (i + 1) /\ j \in 1..n
    BY <1>2
  <2>2. a \in Nat /\ b \in Nat /\ c \in Nat /\ b <= c
    BY <1>1, <1>2, <2>1
  <2>3. a <= b
    BY <1>2, <1>4, <2>1
  <2> HIDE DEF a, b, c
  <2>4. a <= c
    BY <2>2, <2>3
  <2> QED BY <2>1, <2>4 DEF a, c
<1>5. \A i \in Nat : i \in S
  <2> HIDE DEF S
  <2> QED BY <1>3, <1>4, NatSet
<1>6. f - (e + 1) \in Nat /\ e + 1 + (f - (e + 1)) = f
  BY <1>2
<1>7. off[e + 1] <= off[f]
  <2> DEFINE i == f - (e + 1)
  <2>1. i \in Nat /\ e + 1 + i = f
    BY <1>6
  <2>11. i \in S
    BY <1>5, <2>1
  <2>12. e + 1 + i <= n
    BY <1>2, <2>1
  <2> HIDE DEF i
  <2>2. off[e + 1] <= off[e + 1 + i]
    BY <2>1, <2>11, <2>12
  <2> QED BY <2>1, <2>2
<1>8. off[e + 1] \in Nat /\ off[f] \in Nat
  BY <1>1, <1>2
<1> QED BY <1>7, <1>8 DEF off

\* A row is among those of the pages of its entry.
LEMMA RowOfEntry ==
    ASSUME NEW C, NEW R \in Nat \ {0}, NEW T, NEW rep, NEW m, Plan(C, R, T, rep, m), Len(rep) \in Nat,
           NEW e, NEW l, NEW k, IsRow(rep, m, e, l, k), Len(rep[e].lines) \in Nat
    PROVE  /\ m.off[e] \in Nat /\ m.off[e + 1] \in Nat /\ RowNo(R, m, e, l, k) \in Nat
           /\ m.off[e] * R <= RowNo(R, m, e, l, k) /\ RowNo(R, m, e, l, k) < m.off[e + 1] * R
           /\ m.off[e] <= RowNo(R, m, e, l, k) \div R /\ RowNo(R, m, e, l, k) \div R < m.off[e + 1]
<1> DEFINE v == RowNo(R, m, e, l, k)
           a == m.off[e]
           b == m.off[e + 1]
<1>1. PICK p, r : RowOnPage(R, m, e, l, k, p, r)
  BY RowHasPage, Zenon
<1>2. e \in 1..Len(rep)
  BY DEF IsRow
<1>3. a \in Nat /\ b \in Nat
  BY <1>2, PlanAt
<1>4. p \in (a + 1)..b /\ r \in 1..R /\ v = (p - 1) * R + r - 1
  BY <1>1 DEF RowOnPage
<1> HIDE DEF v, a, b
<1> DEFINE q == p - 1
           h == r - 1
<1>5. q \in Nat /\ h \in 0..(R - 1) /\ a <= q /\ q + 1 <= b /\ q + 1 \in Nat
  BY <1>3, <1>4
<1>6. v = q * R + h
  <2> DEFINE x == q * R
  <2>1. x \in Nat /\ v = x + r - 1 /\ r \in Nat
    BY <1>4, <1>5, Distribute
  <2> HIDE DEF x, q
  <2>2. v = x + h
    BY <2>1
  <2> QED BY <2>2 DEF x
<1> HIDE DEF q, h
<1>7. v \div R = q
  BY <1>5, <1>6, DivModUnique
<1>8. a * R <= q * R /\ (q + 1) * R <= b * R /\ (q + 1) * R = q * R + R
      /\ a * R \in Nat /\ b * R \in Nat /\ q * R \in Nat
  BY <1>3, <1>5, Times
<1>9. v \in Nat /\ a * R <= v /\ v < b * R
  <2> DEFINE x == q * R
             y == a * R
             z == b * R
             u == (q + 1) * R
  <2>1. v = x + h /\ y <= x /\ u <= z /\ u = x + R /\ x \in Nat /\ y \in Nat /\ z \in Nat
    BY <1>6, <1>8
  <2> HIDE DEF x, y, z, u
  <2>2. v \in Nat /\ y <= v /\ v < z
    BY <1>5, <2>1
  <2> QED BY <2>2 DEF y, z
<1>10. a <= v \div R /\ v \div R < b
  BY <1>3, <1>5, <1>7
<1> QED BY <1>3, <1>9, <1>10 DEF v, a, b

\* Rows are numbered by entry, then by line, then as the line wraps; the rows of two
\* entries are on different pages, and every line has one.
RowsOrdered(R, m, e, l, k, f, n, q) ==
    LET v == RowNo(R, m, e, l, k)
        w == RowNo(R, m, f, n, q)
    IN  /\ v \in Nat /\ w \in Nat
        /\ e < f => v < w /\ v \div R < w \div R
        /\ e = f /\ l < n => w - v >= n - l
        /\ e = f /\ l = n => w - v = q - k

\* The rows of two lines are ordered as the lines are.
LEMMA RowOrder ==
    ASSUME NEW C, NEW R \in Nat \ {0}, NEW T, NEW rep, NEW m, Plan(C, R, T, rep, m), Len(rep) \in Nat,
           NEW e, NEW l, NEW k, IsRow(rep, m, e, l, k), Len(rep[e].lines) \in Nat,
           NEW f, NEW n, NEW q, IsRow(rep, m, f, n, q), Len(rep[f].lines) \in Nat
    PROVE  RowsOrdered(R, m, e, l, k, f, n, q)
<1> DEFINE v == RowNo(R, m, e, l, k)
           w == RowNo(R, m, f, n, q)
<1>1. /\ m.off[e] \in Nat /\ m.off[e + 1] \in Nat /\ v \in Nat
      /\ v < m.off[e + 1] * R /\ v \div R < m.off[e + 1]
  BY RowOfEntry
<1>2. /\ m.off[f] \in Nat /\ w \in Nat
      /\ m.off[f] * R <= w /\ m.off[f] <= w \div R
  BY RowOfEntry
<1>3. e \in 1..Len(rep) /\ f \in 1..Len(rep) /\ l \in 1..Len(rep[e].lines) /\ n \in 1..Len(rep[f].lines)
      /\ k \in 1..Len(m.rows[e][l]) /\ q \in 1..Len(m.rows[f][n])
  BY DEF IsRow
<1>4. ASSUME e < f PROVE v < w /\ v \div R < w \div R
  <2> DEFINE a == m.off[e + 1]
             b == m.off[f]
             x == a * R
             y == b * R
             s == v \div R
             t == w \div R
  <2>1. a <= b /\ a \in Nat /\ b \in Nat
    BY <1>3, <1>4, OffOrder
  <2>2. x <= y /\ x \in Nat /\ y \in Nat
    BY <2>1, Times
  <2>3. s \in Nat /\ t \in Nat
    BY <1>1, <1>2, DivMod
  <2>4. v < x /\ s < a /\ y <= w /\ b <= t /\ v \in Nat /\ w \in Nat
    BY <1>1, <1>2
  <2> HIDE DEF a, b, x, y, s, t, v, w
  <2>5. v < w /\ s < t
    BY <2>1, <2>2, <2>3, <2>4
  <2> QED BY <2>5 DEF s, t
<1>5. /\ m.base[e][l] \in Nat /\ k \in Nat /\ m.base[e][l] + k <= m.base[e][l + 1]
  BY RowInEntry
<1>6. m.base[f][n] \in Nat /\ q \in Nat
  BY RowInEntry
<1>7. v = m.off[e] * R + m.base[e][l] + k - 1 /\ w = m.off[f] * R + m.base[f][n] + q - 1
      /\ m.off[e] * R \in Nat /\ m.off[f] * R \in Nat
  BY <1>1, <1>2, Times DEF RowNo
<1> HIDE DEF v, w
<1>8. ASSUME e = f, l < n PROVE w - v >= n - l
  <2> DEFINE N == Len(rep[e].lines)
             base == m.base[e]
             rows == m.rows[e]
             flat == m.flat[e]
             d == m.off[e] * R
  <2>1. EntryPlan(C, C * R, T, rep[e], m.lines[e], rows, flat, base, m.at[e])
    BY <1>3, PlanAt
  <2> HIDE DEF base, rows, flat
  <2>2. Strung(flat, base, rows, N) /\ flat \in Seq(Seq(T)) /\ \A i \in 1..N : Len(rows[i]) > 0
    BY <2>1 DEF EntryPlan
  <2>3. Len(flat) \in Nat /\ N \in Nat /\ l \in 1..N /\ n \in 1..N
    BY <1>3, <1>8, <2>2
  <2> HIDE DEF N
  <2>4. base[n] - base[l + 1] >= n - (l + 1)
    BY <1>8, <2>2, <2>3, StrungOrder
  <2>41. base[l + 1] \in Nat
    <3>1. l + 1 \in 1..(N + 1)
      BY <2>3
    <3>2. base[l + 1] \in 0..Len(flat)
      BY <2>2, <3>1, Zenon DEF Strung
    <3> QED BY <2>3, <3>2
  <2> DEFINE x == base[l]
             y == base[l + 1]
             z == base[n]
  <2>5. /\ x + k <= y /\ z - y >= n - (l + 1) /\ v = d + x + k - 1 /\ w = d + z + q - 1
        /\ x \in Nat /\ y \in Nat /\ z \in Nat /\ k \in Nat /\ q \in Nat /\ d \in Nat
    BY <1>1, <1>5, <1>6, <1>7, <1>8, <2>4, <2>41 DEF base
  <2>6. q >= 1 /\ l \in Nat /\ n \in Nat
    <3>1. q \in 1..Len(m.rows[f][n])
      BY <1>3
    <3> QED BY <1>6, <2>3, <3>1
  <2> HIDE DEF x, y, z, d
  <2> QED BY ONLY <2>5, <2>6
<1>9. ASSUME e = f, l = n PROVE w - v = q - k
  <2> DEFINE d == m.off[e] * R
             x == m.base[e][l]
  <2>1. v = d + x + k - 1 /\ w = d + x + q - 1 /\ d \in Nat /\ x \in Nat /\ k \in Nat /\ q \in Nat
    BY <1>5, <1>6, <1>7, <1>9
  <2> HIDE DEF d, x
  <2> QED BY ONLY <2>1
<1>10. v \in Nat /\ w \in Nat
  BY <1>1, <1>2 DEF v, w
<1> QED BY <1>4, <1>8, <1>9, <1>10 DEF RowsOrdered, v, w

-----------------------------------------------------------------------------
(* The cells of the screens, numbered from 1: C to a row, R rows to a page. *)

\* The row and the column of a cell, and its page and its place there.
CellSplit(C, R, n, i) ==
    LET q == (i - 1) \div C
        d == ((i - 1) % C) + 1
    IN  /\ q \in Nat /\ d \in 1..C /\ i = q * C + d
        /\ q \div R \in 0..(n - 1) /\ q % R \in 0..(R - 1) /\ q < n * R
        /\ (i - 1) \div (C * R) = q \div R
        /\ ((i - 1) % (C * R)) \div C = q % R

\* The page, the row and the column of a cell.
LEMMA CellParts ==
    ASSUME NEW C \in Nat \ {0}, NEW R \in Nat \ {0}, NEW n \in Nat, NEW i \in 1..(n * (C * R))
    PROVE  CellSplit(C, R, n, i)
<1> DEFINE q == (i - 1) \div C
           h == (i - 1) % C
           p == q \div R
           r == q % R
           P == C * R
           in == r * C + h
<1>1. i - 1 \in Nat /\ P \in Nat \ {0} /\ n * P \in Nat
  <2>1. P \in Nat \ {0}
    <3>1. \A a, b \in Nat \ {0} : a * b \in Nat \ {0}
      OBVIOUS
    <3> QED BY <3>1
  <2>2. n * P \in Nat
    BY <2>1, Times
  <2> QED BY <2>1, <2>2
<1>2. q \in Nat /\ h \in 0..(C - 1) /\ i - 1 = q * C + h
  BY <1>1, DivMod
<1> HIDE DEF q, h
<1>3. p \in Nat /\ r \in 0..(R - 1) /\ q = p * R + r
  BY <1>2, DivMod
<1> HIDE DEF p, r
<1>4. in \in 0..(P - 1) /\ r * C \in Nat
  <2>1. r + 1 \in 1..R /\ h + 1 \in 1..C
    BY <1>2, <1>3
  <2>2. ((r + 1) - 1) * C + (h + 1) \in 1..(C * R) /\ ((r + 1) - 1) * C \in Nat
    BY <2>1, RowCell
  <2>3. (r + 1) - 1 = r
    BY <1>3
  <2> DEFINE y == r * C
  <2>4. y + (h + 1) \in 1..P /\ y \in Nat
    BY <2>2, <2>3
  <2> HIDE DEF y, P
  <2>5. y + h \in 0..(P - 1)
    BY <1>1, <1>2, <2>4
  <2> QED BY <2>4, <2>5 DEF y
<1>5. i - 1 = p * P + in
  <2>1. q * C = (p * R) * C + r * C
    <3>1. p * R \in Nat /\ r \in Nat
      BY <1>3, Times
    <3>2. (p * R + r) * C = (p * R) * C + r * C
      BY <3>1, Distribute
    <3> QED BY <1>3, <3>2
  <2>2. (p * R) * C = p * P
    <3>1. \A a, b, c \in Nat : (a * b) * c = a * (c * b)
      OBVIOUS
    <3> QED BY <1>3, <3>1
  <2> DEFINE x == p * P
             y == r * C
             z == q * C
  <2>3. i - 1 = z + h /\ z = x + y /\ in = y + h /\ y \in Nat
    BY <1>2, <1>4, <2>1, <2>2
  <2>4. x \in Nat
    BY <1>1, <1>3, Times
  <2> HIDE DEF x, y, z, in
  <2>5. i - 1 = x + in
    BY <1>2, <2>3, <2>4
  <2> QED BY <2>5 DEF x
<1> HIDE DEF P
<1>6. (i - 1) \div P = p /\ (i - 1) % P = in
  <2> HIDE DEF in
  <2>1. (p * P + in) \div P = p /\ (p * P + in) % P = in
    BY <1>1, <1>3, <1>4, DivModUnique
  <2> QED BY <1>5, <2>1
<1>7. in \div C = r
  BY <1>2, <1>3, DivModUnique
<1>8. p < n
  <2> SUFFICES ASSUME ~(p < n) PROVE FALSE
    OBVIOUS
  <2>1. n * P <= p * P /\ p * P \in Nat
    BY <1>1, <1>3, Times
  <2> DEFINE x == p * P
             y == n * P
  <2>2. y <= x /\ x \in Nat /\ y \in Nat /\ i - 1 = x + in /\ i \in 1..y /\ in \in Nat
    BY <1>1, <1>4, <1>5, <2>1 DEF P
  <2> HIDE DEF x, y, in
  <2> QED BY <2>2
<1>9. q < n * R
  <2>1. (p + 1) * R <= n * R /\ (p + 1) * R = p * R + R /\ p * R \in Nat /\ n * R \in Nat
    <3>1. p + 1 \in Nat /\ p + 1 <= n
      BY <1>3, <1>8
    <3> QED BY <1>3, <3>1, Times
  <2> DEFINE x == p * R
             y == n * R
             z == (p + 1) * R
  <2>2. q = x + r /\ z <= y /\ z = x + R /\ x \in Nat /\ y \in Nat
    BY <1>3, <2>1
  <2> HIDE DEF x, y, z
  <2>3. q < y
    BY <1>3, <2>2
  <2> QED BY <2>3 DEF y
<1>10. q \in Nat /\ h + 1 \in 1..C /\ i = q * C + (h + 1)
  <2> DEFINE z == q * C
  <2>1. z \in Nat /\ i - 1 = z + h
    BY <1>2, Times
  <2> HIDE DEF z
  <2>2. i = z + (h + 1)
    BY <1>2, <2>1
  <2> QED BY <1>2, <2>2 DEF z
<1>11. p \in 0..(n - 1)
  BY <1>3, <1>8
<1>12. ((i - 1) % P) \div C = r
  BY <1>6, <1>7
<1> HIDE DEF in
<1> QED BY <1>3, <1>6, <1>9, <1>10, <1>11, <1>12 DEF CellSplit, q, h, p, r, P

\* The cell at a column of a row.
CellJoined(C, R, n, q, d, i) ==
    i \in 1..(n * (C * R)) /\ q * C \in Nat /\ (i - 1) \div C = q /\ ((i - 1) % C) + 1 = d

\* The cell at a row and a column.
LEMMA CellAtRow ==
    ASSUME NEW C \in Nat \ {0}, NEW R \in Nat \ {0}, NEW n \in Nat, NEW q \in Nat, q < n * R,
           NEW d \in 1..C
    PROVE  CellJoined(C, R, n, q, d, q * C + d)
<1> DEFINE i == q * C + d
           h == d - 1
<1>1. h \in 0..(C - 1) /\ q * C \in Nat
  BY Times
<1>2. (q * C + h) \div C = q /\ (q * C + h) % C = h
  <2> HIDE DEF h
  <2> QED BY <1>1, DivModUnique
<1>3. q * C + d - 1 = q * C + h
  <2> DEFINE z == q * C
  <2>1. z \in Nat
    BY <1>1
  <2> HIDE DEF z
  <2>2. z + d - 1 = z + h
    BY <2>1
  <2> QED BY <2>2 DEF z
<1>4. (q + 1) * C <= (n * R) * C /\ (q + 1) * C = q * C + C /\ n * R \in Nat /\ (n * R) * C \in Nat
  <2>1. n * R \in Nat
    BY Times
  <2>2. q + 1 <= n * R /\ q + 1 \in Nat
    <3> DEFINE y == n * R
    <3>1. y \in Nat /\ q < y
      BY <2>1
    <3> HIDE DEF y
    <3>2. q + 1 <= y
      BY <3>1
    <3> QED BY <3>2 DEF y
  <2> QED BY <2>1, <2>2, Times
<1>5. (n * R) * C = n * (C * R)
  <2>1. \A a, b, c \in Nat : (a * b) * c = a * (c * b)
    OBVIOUS
  <2> QED BY <2>1
<1>6. i \in 1..(n * (C * R))
  <2> DEFINE z == q * C
             x == (n * R) * C
             y == (q + 1) * C
  <2>1. z \in Nat /\ y <= x /\ y = z + C /\ x \in Nat /\ i = z + d
    BY <1>1, <1>4
  <2> HIDE DEF z, x, y, i
  <2>2. i \in 1..x
    BY <2>1
  <2> QED BY <1>5, <2>2 DEF x
<1>7. (i - 1) \div C = q /\ ((i - 1) % C) + 1 = d
  <2>1. h + 1 = d
    OBVIOUS
  <2> HIDE DEF h
  <2> QED BY <1>2, <1>3, <2>1
<1> QED BY <1>1, <1>6, <1>7 DEF CellJoined

\* What the strings of a laid out reply show.
CellIn(C, R, s, i) ==
    LET q == (i - 1) \div C
    IN  s[q \div R + 1][(q % R) * C + ((i - 1) % C) + 1]

Screen(C, R, g, rep, m, s) ==
    /\ C \in Nat \ {0} /\ R \in Nat \ {0} /\ g \in Nat /\ MaxPages \in Nat \ {0}
    /\ rep \in Seq(Entry(g)) /\ Numbered(rep) /\ Plan(C, R, Ink(g), rep, m)
    /\ Len(s) \in 1..MaxPages /\ (Len(s) < MaxPages => Len(m.all) <= Len(s))
    /\ \A p \in 1..Len(s) : \A r \in 1..R : \A c \in 1..C :
         s[p][(r - 1) * C + c] = Paint(Printed(m.all, p, r, c))

\* When there are strings, the reply has a plan that they show.
LEMMA ScreenIs ==
    ASSUME TextInv, strs # <<>>
    PROVE  /\ grid \in Grids /\ glyphs \in Nat
           /\ \E m : Screen(Cols, Rows, glyphs, reply, m, strs)
<1>1. /\ grid \in Grids /\ glyphs \in Nat /\ reply \in Seq(Entry(glyphs)) /\ Numbered(reply)
  BY LayoutAssumption DEF TextInv
<1>2. Packed(grid, glyphs, reply, frame, strs)
  BY DEF TextInv
<1>3. /\ Cols \in Nat \ {0} /\ Rows \in Nat \ {0} /\ PageChars \in Nat \ {0} /\ MaxPages \in Nat \ {0}
  BY <1>1, GridSize
<1>4. PICK pages : /\ IsLayout(Cols, Rows, Ink(glyphs), reply, pages)
                   /\ strs = Strings(pages)
  BY <1>2 DEF Packed, Cols, Rows
<1>5. PICK m : Plan(Cols, Rows, Ink(glyphs), reply, m) /\ PagesOf(Cols, Rows, Ink(glyphs), pages, m.all)
  BY <1>4 DEF IsLayout
<1>6. Cols * Rows \in Nat
  BY <1>3 DEF PageChars
<1>7. /\ Len(pages) \in 1..MaxPages /\ Len(strs) = Len(pages)
      /\ \A p \in 1..Len(pages) : \A i \in 1..(Cols * Rows) : strs[p][i] = Paint(pages[p][i])
  BY <1>1, <1>3, <1>4, <1>6, StringsAre
<1>8. /\ Len(pages) < MaxPages => Len(m.all) <= Len(pages)
      /\ \A p \in 1..Len(pages) : \A r \in 1..Rows : \A c \in 1..Cols :
           pages[p][(r - 1) * Cols + c] = Printed(m.all, p, r, c)
  BY <1>5, Zenon DEF PagesOf
<1>9. \A r \in 1..Rows : \A c \in 1..Cols : (r - 1) * Cols + c \in 1..(Cols * Rows)
  BY <1>3, RowCell
<1>10. \A p \in 1..Len(strs) : \A r \in 1..Rows : \A c \in 1..Cols :
         strs[p][(r - 1) * Cols + c] = Paint(Printed(m.all, p, r, c))
  BY <1>7, <1>8, <1>9, Zenon
<1>11. Screen(Cols, Rows, glyphs, reply, m, strs)
  BY <1>1, <1>3, <1>5, <1>7, <1>8, <1>10 DEF Screen
<1> QED BY <1>1, <1>11

\* What the deck draws.
LEMMA CellDrawn ==
    ASSUME TextInv, strs # <<>>, NEW i \in 1..(Len(strs) * PageChars)
    PROVE  /\ Cell(i) = CellIn(Cols, Rows, strs, i)
           /\ (i - 1) \div PageChars = ((i - 1) \div Cols) \div Rows
<1> DEFINE n == Len(strs)
           q == (i - 1) \div Cols
           c == ((i - 1) % Cols) + 1
           p == q \div Rows + 1
           r == (q % Rows) + 1
           s == strs[p]
<1>1. /\ strs \in Seq(Seq(0..glyphs)) /\ \A h \in DOMAIN strs : Drawable(strs[h])
  BY TextTyped DEF TypeOK
<1>2. grid \in Grids
  BY DEF TextInv
<1>3. /\ Cols \in Nat \ {0} /\ Rows \in Nat \ {0} /\ PageChars \in Nat \ {0}
  BY <1>2, GridSize
<1>4. n \in Nat /\ i \in 1..(n * (Cols * Rows))
  BY <1>1 DEF PageChars
<1> HIDE DEF n
<1>5. /\ q \in Nat /\ c \in 1..Cols /\ q \div Rows \in 0..(n - 1) /\ q % Rows \in 0..(Rows - 1)
      /\ (i - 1) \div PageChars = q \div Rows
      /\ ((i - 1) % PageChars) \div Cols = q % Rows
  <2>1. /\ q \in Nat /\ c \in 1..Cols /\ q \div Rows \in 0..(n - 1) /\ q % Rows \in 0..(Rows - 1)
        /\ (i - 1) \div (Cols * Rows) = q \div Rows
        /\ ((i - 1) % (Cols * Rows)) \div Cols = q % Rows
    <3>1. CellSplit(Cols, Rows, n, i)
      BY <1>3, <1>4, CellParts
    <3> QED BY <3>1, Zenon DEF CellSplit
  <2> QED BY <2>1 DEF PageChars
<1>6. Cell(i) = DrawnRow(p, r)[c]
  BY <1>5 DEF Cell
<1> HIDE DEF q
<1>7. p \in 1..n /\ r \in 1..Rows /\ r - 1 = q % Rows /\ p \in DOMAIN strs
  <2>1. p \in 1..n /\ r \in 1..Rows /\ r - 1 = q % Rows
    BY <1>3, <1>4, <1>5
  <2> QED BY <1>1, <2>1 DEF n
<1> HIDE DEF p, r
<1>8. s \in Seq(0..glyphs)
  BY <1>1, <1>7
<1>9. 1 + (r - 1) * Cols + Cols - 1 <= Len(s)
  BY <1>1, <1>7 DEF Drawable
<1>10. r * Cols = (r - 1) * Cols + Cols /\ (r - 1) * Cols \in Nat
  <2>1. r - 1 \in Nat /\ (r - 1) + 1 = r
    BY <1>3, <1>7
  <2> QED BY <1>3, <2>1, Times
<1> HIDE DEF c, s
<1>11. SubSeq(s, 1 + (r - 1) * Cols, r * Cols)[c] = s[(r - 1) * Cols + c]
  <2> DEFINE x == (r - 1) * Cols
             y == r * Cols
  <2>1. y = x + Cols /\ x \in Nat /\ 1 + x + Cols - 1 <= Len(s) /\ Cols \in Nat
    BY <1>3, <1>9, <1>10
  <2> HIDE DEF x, y
  <2>2. 1 + x \in Nat /\ y \in Nat /\ y <= Len(s) /\ c \in 1..Cols /\ c <= y - (1 + x) + 1
        /\ (1 + x) + c - 1 = x + c
    BY <1>5, <2>1
  <2>3. SubSeq(s, 1 + x, y)[c] = s[(1 + x) + c - 1]
    BY <1>8, <2>1, <2>2
  <2>4. SubSeq(s, 1 + x, y)[c] = s[x + c]
    BY <2>2, <2>3
  <2> QED BY <2>4 DEF x, y
<1>12. Cell(i) = s[(r - 1) * Cols + c]
  BY <1>6, <1>11 DEF DrawnRow, s
<1>13. CellIn(Cols, Rows, strs, i) = s[(q % Rows) * Cols + c]
  <2>1. CellIn(Cols, Rows, strs, i) = strs[q \div Rows + 1][(q % Rows) * Cols + ((i - 1) % Cols) + 1]
    BY DEF CellIn, q
  <2>2. (q % Rows) * Cols + ((i - 1) % Cols) + 1 = (q % Rows) * Cols + (((i - 1) % Cols) + 1)
    <3> DEFINE x == (q % Rows) * Cols
               y == (i - 1) % Cols
    <3>1. x \in Nat
      BY <1>7, <1>10
    <3>2. y \in Nat
      <4>1. i - 1 \in Nat
        BY <1>4
      <4> QED BY <1>3, <4>1, DivMod
    <3> HIDE DEF x, y
    <3>3. x + y + 1 = x + (y + 1)
      BY <3>1, <3>2
    <3> QED BY <3>3 DEF x, y
  <2> QED BY <2>1, <2>2 DEF s, c, p
<1> QED BY <1>5, <1>7, <1>12, <1>13 DEF q

-----------------------------------------------------------------------------
(* Between a character of the reply and a cell: the row it wrapped to.     *)

\* Character x is in the k-th row of its line, and there at cell i.
Spot(C, R, rep, m, x, k, i) ==
    LET a == m.at[x.entry][x.line][k] IN
    /\ x \in Chars /\ IsChar(rep, x) /\ IsRow(rep, m, x.entry, x.line, k)
    /\ a \in Nat /\ x.at - a \in 1..Len(m.rows[x.entry][x.line][k])
    /\ i = RowNo(R, m, x.entry, x.line, k) * C + (x.at - a)

\* The lengths of a reply, of its entries and of its lines.
LEMMA ReplyLens ==
    ASSUME NEW g, NEW rep \in Seq(Entry(g))
    PROVE  /\ Len(rep) \in Nat
           /\ \A e \in 1..Len(rep) :
                /\ rep[e] \in Entry(g) /\ Len(rep[e].lines) \in Nat
                /\ rep[e].lines \in Seq(Seq(Written(g)))
                /\ \A l \in 1..Len(rep[e].lines) :
                     rep[e].lines[l] \in Seq(Written(g)) /\ Len(rep[e].lines[l]) \in Nat
<1>1. Len(rep) \in Nat /\ \A e \in 1..Len(rep) : rep[e] \in Entry(g)
  OBVIOUS
<1>2. ASSUME NEW e \in 1..Len(rep)
      PROVE  /\ Len(rep[e].lines) \in Nat /\ rep[e].lines \in Seq(Seq(Written(g)))
             /\ \A l \in 1..Len(rep[e].lines) :
                  rep[e].lines[l] \in Seq(Written(g)) /\ Len(rep[e].lines[l]) \in Nat
  <2>1. rep[e].lines \in Seq(Seq(Written(g)))
    BY <1>1 DEF Entry
  <2> DEFINE D == Seq(Written(g))
             u == rep[e].lines
  <2>2. \A v \in D : Len(v) \in Nat
    OBVIOUS
  <2> HIDE DEF D, u
  <2>3. u \in Seq(D)
    BY <2>1 DEF D, u
  <2>4. Len(u) \in Nat /\ \A l \in 1..Len(u) : u[l] \in D /\ Len(u[l]) \in Nat
    BY <2>2, <2>3
  <2> QED BY <2>3, <2>4 DEF D, u
<1> QED BY <1>1, <1>2

\* A row holds characters of its line.
Holds(C, rep, m, e, l, k, d) ==
    LET a == m.at[e][l][k]
    IN  /\ a \in Nat /\ d \in 1..C /\ a + d \in 1..Len(m.lines[e][l])
        /\ a + d \in 1..Len(rep[e].lines[l])
        /\ m.rows[e][l][k][d] = Clean(rep[e].lines[l][a + d])

\* What a row holds at a column.
LEMMA RowHolds ==
    ASSUME NEW C \in Nat, NEW R, NEW T, NEW rep, NEW m, Plan(C, R, T, rep, m), Len(rep) \in Nat,
           NEW e, NEW l, NEW k, IsRow(rep, m, e, l, k), NEW d \in 1..Len(m.rows[e][l][k]),
           Len(rep[e].lines) \in Nat
    PROVE  Holds(C, rep, m, e, l, k, d)
<1> DEFINE rows == m.rows[e]
           lines == m.lines[e]
           at == m.at[e]
           a == at[l][k]
           entry == rep[e]
<1>1. e \in 1..Len(rep) /\ l \in 1..Len(entry.lines) /\ k \in 1..Len(rows[l])
  BY DEF IsRow
<1>2. EntryPlan(C, C * R, T, entry, lines, rows, m.flat[e], m.base[e], at)
  BY <1>1, PlanAt
<1> HIDE DEF rows, lines, at, entry
<1>3. /\ CutOf(C, rows[l], at[l], lines[l])
      /\ \A c \in 1..Len(lines[l]) :
           c \in 1..Len(entry.lines[l]) /\ lines[l][c] = Clean(entry.lines[l][c])
      /\ lines \in Seq(Seq(T)) /\ Len(lines) = Len(entry.lines)
  BY <1>1, <1>2 DEF EntryPlan
<1>4. /\ at[l] \in Seq(Nat) /\ Len(at[l]) = Len(rows[l])
      /\ Len(rows[l][k]) \in 0..C /\ at[l][k] + Len(rows[l][k]) <= Len(lines[l])
      /\ \A c \in 1..Len(rows[l][k]) : rows[l][k][c] = lines[l][at[l][k] + c]
  BY <1>1, <1>3, Zenon DEF CutOf
<1>5. a \in Nat
  <2> DEFINE b == at[l]
  <2>1. b \in Seq(Nat) /\ k \in 1..Len(b)
    BY <1>1, <1>4
  <2> HIDE DEF b
  <2>2. b[k] \in Nat
    BY <2>1
  <2> QED BY <2>2 DEF b
<1>6. Len(lines[l]) \in Nat
  <2>1. lines[l] \in Seq(T)
    BY <1>1, <1>3
  <2> QED BY <2>1
<1>7. d \in 1..Len(rows[l][k])
  BY DEF rows
<1>8. d \in 1..C /\ a + d \in 1..Len(lines[l])
  <2> DEFINE w == Len(rows[l][k])
             n == Len(lines[l])
  <2>1. w \in 0..C /\ a + w <= n /\ n \in Nat /\ d \in 1..w
    BY <1>4, <1>6, <1>7
  <2> HIDE DEF w, n, a
  <2>2. d \in 1..C /\ a + d \in 1..n
    BY <1>5, <2>1
  <2> QED BY <2>2 DEF n
<1>9. rows[l][k][d] = lines[l][a + d]
  BY <1>4, <1>7
<1>10. a + d \in 1..Len(entry.lines[l]) /\ lines[l][a + d] = Clean(entry.lines[l][a + d])
  BY <1>3, <1>8
<1> QED BY <1>5, <1>8, <1>9, <1>10 DEF Holds, rows, lines, at, entry

\* What is shown at a column of a row.
LEMMA CellShows ==
    ASSUME NEW C, NEW R, NEW g, NEW rep, NEW m, NEW s, Screen(C, R, g, rep, m, s),
           NEW q \in Nat, q < Len(s) * R, NEW d \in 1..C
    PROVE  /\ CellIn(C, R, s, q * C + d) = Paint(Printed(m.all, q \div R + 1, (q % R) + 1, d))
           /\ q * C + d \in 1..(Len(s) * (C * R))
<1> DEFINE n == Len(s)
           i == q * C + d
           p == q \div R + 1
           r == (q % R) + 1
<1>1. /\ C \in Nat \ {0} /\ R \in Nat \ {0} /\ n \in 1..MaxPages /\ n \in Nat
      /\ \A h \in 1..n : \A j \in 1..R : \A c \in 1..C :
           s[h][(j - 1) * C + c] = Paint(Printed(m.all, h, j, c))
  BY DEF Screen
<1> HIDE DEF n
<1>2. q < n * R
  BY DEF n
<1>3. i \in 1..(n * (C * R)) /\ (i - 1) \div C = q /\ ((i - 1) % C) + 1 = d
  <2>1. CellJoined(C, R, n, q, d, q * C + d)
    BY <1>1, <1>2, CellAtRow
  <2> QED BY <2>1 DEF CellJoined
<1>4. q \div R \in Nat /\ q % R \in 0..(R - 1) /\ q = (q \div R) * R + (q % R)
  BY <1>1, DivMod
<1>5. q \div R < n
  <2> SUFFICES ASSUME ~(q \div R < n) PROVE FALSE
    OBVIOUS
  <2> DEFINE h == q \div R
             x == h * R
             y == n * R
             z == q % R
  <2>1. h \in Nat /\ n <= h
    BY <1>1, <1>4
  <2> HIDE DEF h
  <2>2. y <= x /\ x \in Nat /\ y \in Nat
    BY <1>1, <2>1, Times
  <2>3. q = x + z /\ q < y /\ z \in Nat
    BY <1>2, <1>4 DEF h
  <2> HIDE DEF x, y, z
  <2> QED BY <2>2, <2>3
<1>6. p \in 1..n /\ r \in 1..R /\ r - 1 = q % R
  BY <1>1, <1>4, <1>5
<1>7. CellIn(C, R, s, i) = s[p][(q % R) * C + d]
  <2>1. CellIn(C, R, s, i) = s[((i - 1) \div C) \div R + 1][(((i - 1) \div C) % R) * C + ((i - 1) % C) + 1]
    BY DEF CellIn
  <2> DEFINE h == (i - 1) % C
             y == (q % R) * C
  <2>2. h + 1 = d /\ h \in Nat
    <3>1. i - 1 \in Nat
      <4> DEFINE N == n * (C * R)
      <4>1. i \in 1..N
        BY <1>3
      <4> HIDE DEF N, i
      <4> QED BY <4>1
    <3> HIDE DEF i
    <3>2. h \in Nat
      <4>1. (i - 1) % C \in 0..(C - 1)
        BY <1>1, <3>1, DivMod
      <4> QED BY <1>1, <4>1
    <3> QED BY <1>3, <3>2 DEF i
  <2>3. y \in Nat
    BY <1>1, <1>4, Times
  <2>4. CellIn(C, R, s, i) = s[p][y + h + 1]
    BY <1>3, <2>1
  <2> HIDE DEF h, y, i
  <2>5. y + h + 1 = y + d
    BY <2>2, <2>3
  <2> QED BY <2>4, <2>5 DEF y
<1>8. s[p][(q % R) * C + d] = Paint(Printed(m.all, p, r, d))
  BY <1>1, <1>6
<1> QED BY <1>3, <1>7, <1>8 DEF n

\* The row and the column of a spot.
LEMMA SpotParts ==
    ASSUME NEW C, NEW R, NEW g, NEW rep, NEW m, NEW s, Screen(C, R, g, rep, m, s),
           NEW x, NEW k, NEW i, Spot(C, R, rep, m, x, k, i)
    PROVE  LET v == RowNo(R, m, x.entry, x.line, k)
               d == x.at - m.at[x.entry][x.line][k]
           IN  /\ v \in Nat /\ d \in 1..C /\ i = v * C + d /\ v * C \in Nat
               /\ (i - 1) \div C = v /\ ((i - 1) % C) + 1 = d
<1> DEFINE e == x.entry
           l == x.line
           a == m.at[e][l][k]
           d == x.at - a
           v == RowNo(R, m, e, l, k)
<1>1. /\ C \in Nat \ {0} /\ R \in Nat \ {0} /\ Plan(C, R, Ink(g), rep, m)
      /\ Len(rep) \in Nat /\ \A f \in 1..Len(rep) : Len(rep[f].lines) \in Nat
  BY ReplyLens DEF Screen
<1>2. IsRow(rep, m, e, l, k) /\ d \in 1..Len(m.rows[e][l][k]) /\ i = v * C + d
  BY DEF Spot
<1>3. Len(rep[e].lines) \in Nat
  BY <1>1, <1>2 DEF IsRow
<1>4. v \in Nat
  BY <1>1, <1>2, <1>3, RowOfEntry
<1>5. d \in 1..C
  <2> HIDE DEF d
  <2>1. C \in Nat
    BY <1>1
  <2>2. Holds(C, rep, m, e, l, k, d)
    BY <1>1, <1>2, <1>3, <2>1, RowHolds
  <2> QED BY <2>2 DEF Holds
<1> HIDE DEF v, d
<1> DEFINE n == v + 1
<1>6. n \in Nat /\ v < n * R
  <2>1. n * R = v * R + R /\ v * R \in Nat
    BY <1>1, <1>4, Times
  <2>2. v <= v * R
    <3>1. \A b \in Nat, c \in Nat \ {0} : b <= b * c
      OBVIOUS
    <3> QED BY <1>1, <1>4, <3>1
  <2> DEFINE y == v * R
             z == n * R
  <2>3. z = y + R /\ y \in Nat /\ v <= y
    BY <2>1, <2>2
  <2> HIDE DEF y, z, n
  <2>4. v < z
    BY <1>1, <1>4, <2>3
  <2> QED BY <1>4, <2>4 DEF z, n
<1> HIDE DEF n
<1>7. CellJoined(C, R, n, v, d, v * C + d)
  BY <1>1, <1>4, <1>5, <1>6, CellAtRow
<1>8. /\ v \in Nat /\ d \in 1..C /\ i = v * C + d /\ v * C \in Nat
      /\ (i - 1) \div C = v /\ ((i - 1) % C) + 1 = d
  BY <1>2, <1>4, <1>5, <1>7 DEF CellJoined
<1> QED BY <1>8 DEF v, d

\* A glyph is shown as it is, everything else as a blank.
LEMMA PaintClean ==
    ASSUME NEW g \in Nat, NEW c \in Written(g)
    PROVE  /\ c \in Int /\ (Paint(Clean(c)) > 0 <=> c > 0)
           /\ c > 0 => Paint(Clean(c)) = c /\ Clean(c) = c /\ c # Space /\ c # Odd
           /\ Paint(Space) = 0
BY DEF Paint, Clean, Visible, Written, Odd, Space

\* A character in a row that is kept is drawn there.
LEMMA SpotHasCell ==
    ASSUME NEW C, NEW R, NEW g, NEW rep, NEW m, NEW s, Screen(C, R, g, rep, m, s),
           NEW x, NEW k, NEW i, Spot(C, R, rep, m, x, k, i), Char(rep, x) > 0,
           RowNo(R, m, x.entry, x.line, k) < Len(s) * R
    PROVE  i \in 1..(Len(s) * (C * R)) /\ CellIn(C, R, s, i) = Char(rep, x)
<1> DEFINE e == x.entry
           l == x.line
           a == m.at[e][l][k]
           d == x.at - a
           v == RowNo(R, m, e, l, k)
           n == Len(s)
<1>1. /\ C \in Nat \ {0} /\ R \in Nat \ {0} /\ Plan(C, R, Ink(g), rep, m) /\ g \in Nat
      /\ rep \in Seq(Entry(g)) /\ n \in Nat
      /\ Len(rep) \in Nat /\ \A f \in 1..Len(rep) : Len(rep[f].lines) \in Nat
  BY ReplyLens DEF Screen
<1>2. /\ IsRow(rep, m, e, l, k) /\ d \in 1..Len(m.rows[e][l][k]) /\ a \in Nat
      /\ x \in Chars /\ IsChar(rep, x)
  BY DEF Spot
<1>3. Len(rep[e].lines) \in Nat
  BY <1>1, <1>2 DEF IsRow
<1>4. v \in Nat /\ d \in 1..C /\ i = v * C + d
  BY SpotParts
<1>5. PICK p, r : RowOnPage(R, m, e, l, k, p, r)
  BY <1>1, <1>2, <1>3, RowHasPage
<1>6. m.rows[e][l][k][d] = Clean(rep[e].lines[l][a + d])
  <2> HIDE DEF d
  <2>1. C \in Nat
    BY <1>1
  <2>2. Holds(C, rep, m, e, l, k, d)
    BY <1>1, <1>2, <1>3, <2>1, RowHolds
  <2> QED BY <2>2 DEF Holds
<1>7. a + d = x.at
  BY <1>2 DEF Chars
<1>8. Char(rep, x) \in Written(g)
  BY <1>1, <1>2, CharIs
<1>9. Paint(m.rows[e][l][k][d]) = Char(rep, x)
  <2>1. m.rows[e][l][k][d] = Clean(Char(rep, x))
    BY <1>6, <1>7 DEF Char
  <2> QED BY <1>1, <1>8, <2>1, PaintClean
<1>10. /\ p \in 1..Len(m.all) /\ r \in 1..R /\ r \in 1..Len(m.all[p])
       /\ m.all[p][r] = m.rows[e][l][k] /\ v = (p - 1) * R + r - 1
  BY <1>5 DEF RowOnPage
<1> HIDE DEF d, v
<1>11. v \div R + 1 = p /\ (v % R) + 1 = r
  <2> DEFINE b == p - 1
             c == r - 1
             y == b * R
  <2>1. b \in Nat /\ c \in 0..(R - 1) /\ p = b + 1 /\ r = c + 1
    BY <1>1, <1>10
  <2>2. y \in Nat
    BY <1>1, <2>1, Times
  <2>3. v = y + r - 1
    BY <1>10
  <2> HIDE DEF y, b, c
  <2>4. v = y + c
    BY <1>10, <2>1, <2>2, <2>3
  <2>5. v \div R = b /\ v % R = c
    BY <1>1, <2>1, <2>4, DivModUnique DEF y
  <2> QED BY <2>1, <2>5
<1>12. Printed(m.all, p, r, d) = m.rows[e][l][k][d]
  <2>1. d \in 1..Len(m.all[p][r])
    BY <1>2, <1>10 DEF d
  <2> QED BY <1>10, <2>1 DEF Printed
<1>13. v < n * R
  BY DEF v
<1>14. /\ CellIn(C, R, s, v * C + d) = Paint(Printed(m.all, v \div R + 1, (v % R) + 1, d))
       /\ v * C + d \in 1..(n * (C * R))
  BY <1>4, <1>13, CellShows DEF n
<1> QED BY <1>4, <1>9, <1>11, <1>12, <1>14

\* What is drawn is a character of the reply, in a row it wrapped to.
LEMMA CellHasSpot ==
    ASSUME NEW C, NEW R, NEW g, NEW rep, NEW m, NEW s, Screen(C, R, g, rep, m, s),
           NEW i \in 1..(Len(s) * (C * R)), CellIn(C, R, s, i) > 0
    PROVE  \E x, k : /\ Spot(C, R, rep, m, x, k, i) /\ Char(rep, x) = CellIn(C, R, s, i)
                     /\ RowNo(R, m, x.entry, x.line, k) < Len(s) * R
<1> DEFINE n == Len(s)
           q == (i - 1) \div C
           d == ((i - 1) % C) + 1
           p == q \div R + 1
           r == (q % R) + 1
<1>1. /\ C \in Nat \ {0} /\ R \in Nat \ {0} /\ Plan(C, R, Ink(g), rep, m) /\ g \in Nat
      /\ rep \in Seq(Entry(g)) /\ n \in Nat
      /\ Len(rep) \in Nat /\ \A f \in 1..Len(rep) : Len(rep[f].lines) \in Nat
  BY ReplyLens DEF Screen
<1>2. q \in Nat /\ d \in 1..C /\ i = q * C + d /\ q < n * R
  <2>1. CellSplit(C, R, n, i)
    BY <1>1, CellParts
  <2> QED BY <2>1 DEF CellSplit
<1> HIDE DEF q, d
<1>3. CellIn(C, R, s, i) = Paint(Printed(m.all, p, r, d))
  BY <1>2, CellShows
<1>4. Printed(m.all, p, r, d) # Space
  BY <1>3 DEF Paint, Space, Odd
<1> HIDE DEF p, r
<1>5. /\ p <= Len(m.all) /\ r <= Len(m.all[p]) /\ d <= Len(m.all[p][r])
      /\ Printed(m.all, p, r, d) = m.all[p][r][d]
  BY <1>4 DEF Printed
<1>6. p \in Nat /\ p >= 1 /\ r \in Nat /\ r >= 1 /\ q = (p - 1) * R + (r - 1)
  <2>1. q \div R \in Nat /\ q % R \in 0..(R - 1) /\ q = (q \div R) * R + (q % R)
    BY <1>1, <1>2, DivMod
  <2>2. p - 1 = q \div R /\ r - 1 = q % R /\ p \in Nat /\ p >= 1 /\ r \in Nat /\ r >= 1
    <3> DEFINE y == q \div R
               z == q % R
    <3>1. p = y + 1 /\ r = z + 1 /\ y \in Nat /\ z \in 0..(R - 1)
      BY <2>1 DEF p, r
    <3> HIDE DEF y, z
    <3>2. p - 1 = y /\ r - 1 = z /\ p \in Nat /\ p >= 1 /\ r \in Nat /\ r >= 1
      BY <1>1, <3>1
    <3> QED BY <3>2 DEF y, z
  <2> QED BY <2>1, <2>2
<1>7. p \in 1..Len(m.all) /\ r \in 1..Len(m.all[p])
  <2>1. m.all \in Seq(Seq(Seq(Ink(g))))
    BY <1>1 DEF Plan
  <2> DEFINE D == Seq(Ink(g))
             all == m.all
  <2>2. all \in Seq(Seq(D))
    BY <2>1
  <2> HIDE DEF D, all
  <2>3. p \in 1..Len(all)
    BY <1>5, <1>6, <2>2 DEF all
  <2>4. all[p] \in Seq(D)
    BY <2>2, <2>3
  <2>5. r \in 1..Len(all[p])
    BY <1>5, <1>6, <2>4 DEF all
  <2> QED BY <2>3, <2>5 DEF all
<1>8. PICK e, l, k : IsRow(rep, m, e, l, k) /\ RowOnPage(R, m, e, l, k, p, r)
  BY <1>1, <1>7, PageHasRow
<1>9. m.all[p][r] = m.rows[e][l][k] /\ RowNo(R, m, e, l, k) = (p - 1) * R + r - 1
  BY <1>8 DEF RowOnPage
<1>10. RowNo(R, m, e, l, k) = q
  <2> DEFINE y == (p - 1) * R
  <2>1. p - 1 \in Nat
    BY <1>6
  <2>2. y \in Nat
    BY <1>1, <2>1, Times
  <2>3. q = y + (r - 1) /\ RowNo(R, m, e, l, k) = y + r - 1
    BY <1>6, <1>9
  <2> HIDE DEF y
  <2> QED BY <1>6, <2>2, <2>3
<1>11. e \in 1..Len(rep) /\ l \in 1..Len(rep[e].lines) /\ Len(rep[e].lines) \in Nat
  BY <1>1, <1>8 DEF IsRow
<1>12. d \in 1..Len(m.rows[e][l][k])
  <2>1. m.rows[e][l][k] \in Seq(Ink(g))
    BY <1>1, <1>8, <1>11, RowInEntry
  <2> DEFINE w == Len(m.rows[e][l][k])
  <2>2. w \in Nat /\ d <= w
    BY <1>5, <1>9, <2>1
  <2> HIDE DEF w
  <2>3. d \in 1..w
    BY <1>2, <2>2
  <2> QED BY <2>3 DEF w
<1> DEFINE a == m.at[e][l][k]
           x == [entry |-> e, line |-> l, at |-> a + d]
<1>13. /\ a \in Nat /\ a + d \in 1..Len(rep[e].lines[l])
       /\ m.rows[e][l][k][d] = Clean(rep[e].lines[l][a + d])
  <2>1. C \in Nat
    BY <1>1
  <2>2. Holds(C, rep, m, e, l, k, d)
    BY <1>1, <1>8, <1>11, <1>12, <2>1, RowHolds
  <2> QED BY <2>2 DEF Holds
<1>14. x.entry = e /\ x.line = l /\ x.at = a + d /\ x.at - a = d
  BY <1>2, <1>13
<1>15. x \in Chars /\ IsChar(rep, x)
  <2>1. e \in Nat /\ l \in Nat /\ a + d \in Nat
    <3>1. e \in Nat
      BY <1>1, <1>11
    <3>2. l \in Nat
      BY <1>11
    <3> HIDE DEF a
    <3>3. a + d \in Nat
      BY <1>1, <1>2, <1>13
    <3> QED BY <3>1, <3>2, <3>3
  <2>2. x \in Chars
    BY <2>1 DEF Chars
  <2> HIDE DEF x, a
  <2> QED BY <1>11, <1>13, <1>14, <2>2 DEF IsChar, a
<1> HIDE DEF x, a
<1>16. Spot(C, R, rep, m, x, k, i)
  BY <1>2, <1>8, <1>10, <1>12, <1>13, <1>14, <1>15 DEF Spot, a
<1>17. Char(rep, x) \in Written(g) /\ m.rows[e][l][k][d] = Clean(Char(rep, x))
  <2>1. Char(rep, x) \in Written(g)
    BY <1>1, <1>15, CharIs
  <2> QED BY <1>13, <1>14, <2>1 DEF Char
<1>18. CellIn(C, R, s, i) = Paint(Clean(Char(rep, x)))
  BY <1>3, <1>5, <1>9, <1>17
<1>19. Char(rep, x) = CellIn(C, R, s, i)
  BY <1>1, <1>17, <1>18, PaintClean
<1>20. RowNo(R, m, x.entry, x.line, k) < n * R
  BY <1>2, <1>10, <1>14
<1> QED BY <1>16, <1>19, <1>20

\* Every character within the clamp of its line is in a row.
LEMMA CharHasSpot ==
    ASSUME NEW C, NEW R, NEW g, NEW rep, NEW m, NEW s, Screen(C, R, g, rep, m, s),
           NEW x \in Chars, IsChar(rep, x), Char(rep, x) > 0, x.at <= LimitOf(C * R, rep[x.entry])
    PROVE  \E k, i : Spot(C, R, rep, m, x, k, i)
<1> DEFINE e == x.entry
           l == x.line
           entry == rep[e]
           lines == m.lines[e]
           rows == m.rows[e]
           at == m.at[e]
<1>1. /\ C \in Nat \ {0} /\ R \in Nat \ {0} /\ Plan(C, R, Ink(g), rep, m) /\ g \in Nat
      /\ rep \in Seq(Entry(g)) /\ Len(rep) \in Nat
      /\ \A f \in 1..Len(rep) : Len(rep[f].lines) \in Nat
  BY ReplyLens DEF Screen
<1>2. e \in 1..Len(rep) /\ l \in 1..Len(entry.lines) /\ x.at \in 1..Len(entry.lines[l])
  BY DEF IsChar
<1>3. EntryPlan(C, C * R, Ink(g), entry, lines, rows, m.flat[e], m.base[e], at)
  BY <1>1, <1>2, PlanAt
<1> HIDE DEF lines, rows, at
<1>4. /\ LimitOf(C * R, entry) \in Nat
      /\ Len(lines[l]) = Least(LimitOf(C * R, entry), Len(entry.lines[l]))
      /\ \A c \in 1..Len(lines[l]) : lines[l][c] = Clean(entry.lines[l][c])
      /\ CutOf(C, rows[l], at[l], lines[l])
  BY <1>2, <1>3 DEF EntryPlan
<1>5. x.at \in 1..Len(lines[l])
  <2> DEFINE w == Len(entry.lines[l])
             b == LimitOf(C * R, entry)
  <2>1. w \in Nat
    BY <1>1, <1>2, ReplyLens
  <2>2. b \in Nat /\ Len(lines[l]) = Least(b, w) /\ x.at \in 1..w /\ x.at <= b
    BY <1>2, <1>4
  <2> HIDE DEF w, b
  <2> QED BY <2>1, <2>2 DEF Least
<1>6. lines[l][x.at] = Clean(Char(rep, x)) /\ Char(rep, x) \in Written(g)
  <2>1. Char(rep, x) \in Written(g)
    BY <1>1, CharIs
  <2> QED BY <1>4, <1>5, <2>1 DEF Char
<1>7. lines[l][x.at] # Space
  BY <1>1, <1>6, PaintClean
<1>8. PICK k \in 1..Len(rows[l]) : x.at \in (at[l][k] + 1)..(at[l][k] + Len(rows[l][k]))
  BY <1>4, <1>5, <1>7, Zenon DEF CutOf
<1>9. IsRow(rep, m, e, l, k)
  BY <1>2, <1>8 DEF IsRow, rows
<1> DEFINE a == at[l][k]
           w == Len(rows[l][k])
           d == x.at - a
<1>10. a \in Nat /\ w \in Nat
  <2>1. at[l] \in Seq(Nat) /\ Len(at[l]) = Len(rows[l]) /\ w \in 0..C
    BY <1>4, <1>8, Zenon DEF CutOf
  <2> DEFINE b == at[l]
  <2>2. b \in Seq(Nat) /\ k \in 1..Len(b)
    BY <1>8, <2>1
  <2> HIDE DEF b
  <2>3. b[k] \in Nat
    BY <2>2
  <2>4. w \in Nat
    BY <1>1, <2>1
  <2> QED BY <2>3, <2>4 DEF b
<1>11. d \in 1..w
  <2>1. x.at \in (a + 1)..(a + w)
    BY <1>8
  <2>2. x.at \in Nat
    BY DEF Chars
  <2> HIDE DEF a, w
  <2> QED BY <1>10, <2>1, <2>2
<1>12. Spot(C, R, rep, m, x, k, RowNo(R, m, e, l, k) * C + d)
  BY <1>9, <1>10, <1>11 DEF Spot, at, rows
<1> QED BY <1>12

-----------------------------------------------------------------------------
(* The order of the cells is that of the characters.                       *)

\* The rows of a line follow one another.
LEMMA CutOrder ==
    ASSUME NEW C \in Nat, NEW T, NEW rows \in Seq(Seq(T)), NEW at, NEW line, CutOf(C, rows, at, line),
           NEW r \in 1..Len(rows), NEW q \in 1..Len(rows), r < q
    PROVE  at[r] \in Nat /\ at[q] \in Nat /\ Len(rows[r]) \in Nat
           /\ at[r] + Len(rows[r]) <= at[r + 1] /\ at[r + 1] <= at[q]
<1> DEFINE n == Len(rows)
           S == {i \in Nat : r + 1 + i <= n => at[r + 1] <= at[r + 1 + i]}
<1>1. n \in Nat /\ \A i \in 1..n : at[i] \in Nat /\ Len(rows[i]) \in Nat
  <2>1. at \in Seq(Nat) /\ Len(at) = n
    BY DEF CutOf
  <2>2. \A i \in 1..n : Len(rows[i]) \in Nat
    OBVIOUS
  <2>3. n \in Nat
    OBVIOUS
  <2> HIDE DEF n
  <2>4. \A i \in 1..n : at[i] \in Nat
    BY <2>1, ElementIs
  <2> QED BY <2>2, <2>3, <2>4
<1>2. r \in 1..(n - 1) /\ r + 1 \in 1..n
  BY <1>1
<1>3. at[r] + Len(rows[r]) <= at[r + 1]
  BY <1>2 DEF CutOf
<1>4. 0 \in S
  <2>1. at[r + 1] <= at[r + 1]
    BY <1>1, <1>2
  <2> QED BY <2>1
<1>5. ASSUME NEW i \in Nat, i \in S PROVE i + 1 \in S
  <2> SUFFICES ASSUME r + 1 + (i + 1) <= n PROVE at[r + 1] <= at[r + 1 + (i + 1)]
    OBVIOUS
  <2> DEFINE k == r + 1 + i
  <2>1. k \in 1..(n - 1) /\ k \in 1..n /\ k + 1 \in 1..n /\ k + 1 = r + 1 + (i + 1)
    BY <1>1
  <2>2. at[r + 1] <= at[k]
    BY <1>5, <2>1
  <2> HIDE DEF k
  <2>3. at[k] + Len(rows[k]) <= at[k + 1]
    BY <2>1 DEF CutOf
  <2>4. at[k] \in Nat /\ at[k + 1] \in Nat /\ Len(rows[k]) \in Nat /\ at[r + 1] \in Nat
    BY <1>1, <1>2, <2>1
  <2>5. at[r + 1] <= at[k + 1]
    BY ONLY <2>2, <2>3, <2>4
  <2> QED BY <2>1, <2>5
<1> HIDE DEF S
<1>6. \A i \in Nat : i \in S
  BY <1>4, <1>5, NatSet
<1> DEFINE j == q - (r + 1)
<1>7. j \in S /\ j \in Nat /\ r + 1 + j = q /\ q <= n
  BY <1>1, <1>2, <1>6
<1> HIDE DEF j
<1>8. at[r + 1] <= at[q]
  BY <1>7 DEF S
<1> QED BY <1>1, <1>3, <1>8

\* The plan of a line.
LEMMA LinePlan ==
    ASSUME NEW C, NEW R, NEW T, NEW rep, NEW m, Plan(C, R, T, rep, m), Len(rep) \in Nat,
           NEW e \in 1..Len(rep), NEW l \in 1..Len(rep[e].lines)
    PROVE  /\ CutOf(C, m.rows[e][l], m.at[e][l], m.lines[e][l])
           /\ m.rows[e][l] \in Seq(Seq(T)) /\ m.lines[e][l] \in Seq(T)
           /\ LimitOf(C * R, rep[e]) \in Nat
           /\ Len(m.lines[e][l]) = Least(LimitOf(C * R, rep[e]), Len(rep[e].lines[l]))
           /\ \A c \in 1..Len(m.lines[e][l]) :
                c \in 1..Len(rep[e].lines[l]) /\ m.lines[e][l][c] = Clean(rep[e].lines[l][c])
<1> DEFINE rows == m.rows[e]
           lines == m.lines[e]
           at == m.at[e]
<1>1. EntryPlan(C, C * R, T, rep[e], lines, rows, m.flat[e], m.base[e], at)
  BY PlanAt
<1> HIDE DEF rows, lines, at
<1>2. /\ CutOf(C, rows[l], at[l], lines[l])
      /\ LimitOf(C * R, rep[e]) \in Nat
      /\ Len(lines[l]) = Least(LimitOf(C * R, rep[e]), Len(rep[e].lines[l]))
      /\ \A c \in 1..Len(lines[l]) :
           c \in 1..Len(rep[e].lines[l]) /\ lines[l][c] = Clean(rep[e].lines[l][c])
      /\ rows \in Seq(Seq(Seq(T))) /\ Len(rows) = Len(rep[e].lines)
      /\ lines \in Seq(Seq(T)) /\ Len(lines) = Len(rep[e].lines)
  BY <1>1, Zenon DEF EntryPlan
<1>3. rows[l] \in Seq(Seq(T))
  <2> DEFINE D == Seq(Seq(T))
  <2>1. rows \in Seq(D) /\ l \in 1..Len(rows)
    BY <1>2
  <2> HIDE DEF D
  <2>2. rows[l] \in D
    BY <2>1
  <2> QED BY <2>2 DEF D
<1>4. lines[l] \in Seq(T)
  <2> DEFINE D == Seq(T)
  <2>1. lines \in Seq(D) /\ l \in 1..Len(lines)
    BY <1>2
  <2> HIDE DEF D
  <2>2. lines[l] \in D
    BY <2>1
  <2> QED BY <2>2 DEF D
<1> QED BY <1>2, <1>3, <1>4 DEF rows, lines, at

\* Within a line: a character further on is in the same row or in a later one.
LEMMA SpotInLine ==
    ASSUME NEW C, NEW R, NEW g, NEW rep, NEW m, NEW s, Screen(C, R, g, rep, m, s),
           NEW x, NEW k, NEW i, Spot(C, R, rep, m, x, k, i),
           NEW y, NEW h, NEW j, Spot(C, R, rep, m, y, h, j),
           x.entry = y.entry, x.line = y.line, x.at <= y.at
    PROVE  /\ k \in Nat /\ h \in Nat /\ k <= h
           /\ k < h => m.at[x.entry][x.line][k] + Len(m.rows[x.entry][x.line][k])
                         <= m.at[x.entry][x.line][k + 1]
                       /\ m.at[x.entry][x.line][k + 1] <= m.at[x.entry][x.line][h]
<1> DEFINE e == x.entry
           l == x.line
           rows == m.rows[e][l]
           at == m.at[e][l]
           T == Ink(g)
<1>1. /\ C \in Nat /\ R \in Nat \ {0} /\ Plan(C, R, T, rep, m)
      /\ Len(rep) \in Nat
  BY ReplyLens DEF Screen
<1>2. /\ IsRow(rep, m, e, l, k) /\ IsRow(rep, m, e, l, h)
      /\ at[k] \in Nat /\ x.at - at[k] \in 1..Len(rows[k])
      /\ at[h] \in Nat /\ y.at - at[h] \in 1..Len(rows[h])
      /\ x.at \in Nat /\ y.at \in Nat
  BY DEF Spot, Chars
<1> HIDE DEF T
<1>3. e \in 1..Len(rep) /\ l \in 1..Len(rep[e].lines) /\ k \in 1..Len(rows) /\ h \in 1..Len(rows)
  BY <1>2 DEF IsRow
<1>4. CutOf(C, rows, at, m.lines[e][l]) /\ rows \in Seq(Seq(T))
  BY <1>1, <1>3, LinePlan
<1> HIDE DEF rows, at
<1>5. Len(rows) \in Nat /\ k \in Nat /\ h \in Nat
  BY <1>3, <1>4
<1>6. ASSUME h < k PROVE FALSE
  <2>1. at[h] \in Nat /\ at[k] \in Nat /\ Len(rows[h]) \in Nat
        /\ at[h] + Len(rows[h]) <= at[h + 1] /\ at[h + 1] <= at[k]
    BY <1>1, <1>3, <1>4, <1>6, CutOrder
  <2>2. at[h + 1] \in Nat
    <3>1. h + 1 \in 1..Len(rows)
      BY <1>3, <1>5, <1>6
    <3>2. at \in Seq(Nat) /\ Len(at) = Len(rows)
      BY <1>4, Zenon DEF CutOf
    <3> QED BY <3>1, <3>2
  <2> DEFINE a == at[h]
             b == at[k]
             c == at[h + 1]
             w == Len(rows[h])
             v == Len(rows[k])
  <2>3. a \in Nat /\ b \in Nat /\ c \in Nat /\ w \in Nat /\ a + w <= c /\ c <= b
        /\ x.at - b \in 1..v /\ y.at - a \in 1..w /\ x.at \in Nat /\ y.at \in Nat /\ x.at <= y.at
    BY <1>2, <2>1, <2>2
  <2> HIDE DEF a, b, c, w, v
  <2> QED BY ONLY <2>3
<1>7. k <= h
  BY <1>5, <1>6
<1>8. k < h => at[k] + Len(rows[k]) <= at[k + 1] /\ at[k + 1] <= at[h]
  BY <1>1, <1>3, <1>4, CutOrder
<1> QED BY <1>5, <1>7, <1>8 DEF rows, at

\* An earlier character has an earlier cell.
LEMMA SpotOrder ==
    ASSUME NEW C, NEW R, NEW g, NEW rep, NEW m, NEW s, Screen(C, R, g, rep, m, s),
           NEW x, NEW k, NEW i, Spot(C, R, rep, m, x, k, i),
           NEW y, NEW h, NEW j, Spot(C, R, rep, m, y, h, j),
           Earlier(x, y)
    PROVE  i < j /\ RowNo(R, m, x.entry, x.line, k) <= RowNo(R, m, y.entry, y.line, h)
<1> DEFINE v == RowNo(R, m, x.entry, x.line, k)
           w == RowNo(R, m, y.entry, y.line, h)
           b == x.at - m.at[x.entry][x.line][k]
           d == y.at - m.at[y.entry][y.line][h]
<1>1. /\ C \in Nat \ {0} /\ R \in Nat \ {0} /\ Plan(C, R, Ink(g), rep, m)
      /\ Len(rep) \in Nat /\ \A f \in 1..Len(rep) : Len(rep[f].lines) \in Nat
  BY ReplyLens DEF Screen
<1>2. v \in Nat /\ b \in 1..C /\ i = v * C + b /\ v * C \in Nat
  BY SpotParts
<1>3. w \in Nat /\ d \in 1..C /\ j = w * C + d /\ w * C \in Nat
  BY SpotParts
<1>4. /\ IsRow(rep, m, x.entry, x.line, k) /\ IsRow(rep, m, y.entry, y.line, h)
      /\ Len(rep[x.entry].lines) \in Nat /\ Len(rep[y.entry].lines) \in Nat
      /\ x \in Chars /\ y \in Chars
  BY <1>1 DEF Spot, IsRow
<1>5. /\ x.entry < y.entry => v < w
      /\ x.entry = y.entry /\ x.line < y.line => w - v >= y.line - x.line
      /\ x.entry = y.entry /\ x.line = y.line => w - v = h - k
  <2>1. RowsOrdered(R, m, x.entry, x.line, k, y.entry, y.line, h)
    BY <1>1, <1>4, RowOrder
  <2> QED BY <2>1 DEF RowsOrdered
<1>51. v \in Nat /\ w \in Nat
  BY <1>2, <1>3
<1>6. v < w \/ (v = w /\ b < d)
  <2>1. CASE x.entry < y.entry
    BY <1>5, <2>1
  <2>2. CASE x.entry = y.entry /\ x.line < y.line
    <3>1. w - v >= y.line - x.line /\ x.line \in Nat /\ y.line \in Nat
      BY <1>4, <1>5, <2>2 DEF Chars
    <3> HIDE DEF v, w
    <3> QED BY ONLY <1>51, <2>2, <3>1
  <2>3. CASE x.entry = y.entry /\ x.line = y.line /\ x.at < y.at
    <3>1. k \in Nat /\ h \in Nat /\ k <= h
      <4>1. x.at <= y.at
        BY <1>4, <2>3 DEF Chars
      <4> QED BY <2>3, <4>1, SpotInLine
    <3>2. w - v = h - k
      BY <1>5, <2>3
    <3>3. CASE k < h
      <4> HIDE DEF v, w
      <4> QED BY ONLY <1>51, <3>1, <3>2, <3>3
    <3>4. CASE k = h
      <4>1. v = w
        BY <2>3, <3>4
      <4>2. b < d
        <5> DEFINE a == m.at[x.entry][x.line][k]
        <5>1. b = x.at - a /\ d = y.at - a /\ x.at \in Nat /\ y.at \in Nat
          BY <1>4, <2>3, <3>4 DEF Chars
        <5>2. a \in Nat
          BY DEF Spot
        <5> HIDE DEF a, b, d
        <5> QED BY <2>3, <5>1, <5>2
      <4> QED BY <4>1, <4>2
    <3> QED BY <3>1, <3>3, <3>4
  <2> QED BY <2>1, <2>2, <2>3 DEF Earlier
<1> HIDE DEF v, w, b, d
<1>7. CASE v = w /\ b < d
  <2> DEFINE z == v * C
  <2>1. z \in Nat /\ i = z + b /\ j = z + d
    BY <1>2, <1>3, <1>7
  <2> HIDE DEF z
  <2>2. i < j
    BY <1>2, <1>3, <1>7, <2>1
  <2> QED BY <1>2, <1>7, <2>2 DEF v, w
<1>8. CASE v < w
  <2>1. (v + 1) * C <= w * C /\ (v + 1) * C = v * C + C
    <3>1. v + 1 \in Nat /\ v + 1 <= w
      BY <1>2, <1>3, <1>8
    <3> QED BY <1>1, <1>2, <1>3, <3>1, Times
  <2> DEFINE z == v * C
             y1 == w * C
             x1 == (v + 1) * C
  <2>2. z \in Nat /\ y1 \in Nat /\ x1 <= y1 /\ x1 = z + C /\ i = z + b /\ j = y1 + d
    BY <1>2, <1>3, <2>1
  <2> HIDE DEF z, y1, x1
  <2>3. i < j
    BY <1>1, <1>2, <1>3, <2>2
  <2>4. v <= w
    BY <1>2, <1>3, <1>8
  <2> QED BY <2>3, <2>4 DEF v, w
<1> QED BY <1>6, <1>7, <1>8

\* A character is in one row.
LEMMA SpotOnce ==
    ASSUME NEW C, NEW R, NEW g, NEW rep, NEW m, NEW s, Screen(C, R, g, rep, m, s),
           NEW x, NEW k, NEW i, Spot(C, R, rep, m, x, k, i),
           NEW h, NEW j, Spot(C, R, rep, m, x, h, j)
    PROVE  k = h /\ i = j
<1>1. x.at <= x.at
  <2>1. x.at \in Nat
    BY DEF Spot, Chars
  <2> QED BY <2>1
<1>2. k \in Nat /\ h \in Nat /\ k <= h
  BY <1>1, SpotInLine
<1>3. h <= k
  BY <1>1, SpotInLine
<1>4. k = h
  BY <1>2, <1>3
<1> QED BY <1>4 DEF Spot

\* No two characters have the same number.
LEMMA CharOrder ==
    ASSUME NEW rep, Numbered(rep), NEW x \in Chars, NEW y \in Chars, IsChar(rep, x), IsChar(rep, y),
           Char(rep, x) > 0, Char(rep, y) > 0, Char(rep, x) \in Int, Char(rep, y) \in Int
    PROVE  /\ Earlier(x, y) \/ Earlier(y, x) \/ x = y
           /\ Earlier(x, y) => Char(rep, x) < Char(rep, y)
           /\ Char(rep, x) = Char(rep, y) => x = y
<1>1. Earlier(x, y) \/ Earlier(y, x) \/ x = y
  BY DEF Earlier, Chars
<1>2. Earlier(x, y) => Char(rep, x) < Char(rep, y)
  BY DEF Numbered
<1>3. Earlier(y, x) => Char(rep, y) < Char(rep, x)
  BY DEF Numbered
<1> QED BY <1>1, <1>2, <1>3

-----------------------------------------------------------------------------
(* TextKept.                                                               *)

\* The cells of the state.
LEMMA CellsAre ==
    ASSUME TextInv, strs # <<>>, NEW m, Screen(Cols, Rows, glyphs, reply, m, strs)
    PROVE  /\ Len(strs) * PageChars = Len(strs) * (Cols * Rows)
           /\ \A i \in 1..(Len(strs) * PageChars) : Cell(i) = CellIn(Cols, Rows, strs, i)
BY CellDrawn DEF PageChars

\* A character that is shown: the row it is in.
LEMMA ShownSpot ==
    ASSUME TextInv, strs # <<>>, NEW m, Screen(Cols, Rows, glyphs, reply, m, strs),
           NEW i \in 1..(Len(strs) * PageChars), Cell(i) > 0
    PROVE  \E x, k : /\ Spot(Cols, Rows, reply, m, x, k, i) /\ Char(reply, x) = Cell(i)
                     /\ RowNo(Rows, m, x.entry, x.line, k) < Len(strs) * Rows
<1>1. /\ i \in 1..(Len(strs) * (Cols * Rows))
      /\ Cell(i) = CellIn(Cols, Rows, strs, i)
  BY CellsAre
<1>2. CellIn(Cols, Rows, strs, i) > 0
  BY <1>1
<1>3. \E x, k : /\ Spot(Cols, Rows, reply, m, x, k, i) /\ Char(reply, x) = CellIn(Cols, Rows, strs, i)
                /\ RowNo(Rows, m, x.entry, x.line, k) < Len(strs) * Rows
  BY <1>1, <1>2, CellHasSpot
<1> QED BY <1>1, <1>3

\* The characters of a reply have one place each, and numbers that are integers.
LEMMA SpotChars ==
    ASSUME NEW C, NEW R, NEW g, NEW rep, NEW m, NEW s, Screen(C, R, g, rep, m, s),
           NEW x, NEW k, NEW i, Spot(C, R, rep, m, x, k, i)
    PROVE  x \in Chars /\ IsChar(rep, x) /\ Char(rep, x) \in Int /\ Char(rep, x) <= g
<1>1. g \in Nat /\ rep \in Seq(Entry(g)) /\ x \in Chars /\ IsChar(rep, x)
  BY DEF Screen, Spot
<1>2. Char(rep, x) \in Written(g)
  BY <1>1, CharIs
<1> QED BY <1>1, <1>2 DEF Written, Odd

\* The glyphs on the screens are in the order in which they were written.
LEMMA TextInOrder ==
    ASSUME TextInv, strs # <<>>,
           NEW i \in 1..(Len(strs) * PageChars), NEW j \in 1..(Len(strs) * PageChars),
           i < j, Cell(i) > 0, Cell(j) > 0
    PROVE  Cell(i) < Cell(j)
<1>1. PICK m : Screen(Cols, Rows, glyphs, reply, m, strs)
  BY ScreenIs
<1>2. PICK x, k : Spot(Cols, Rows, reply, m, x, k, i) /\ Char(reply, x) = Cell(i)
  BY <1>1, ShownSpot
<1>3. PICK y, h : Spot(Cols, Rows, reply, m, y, h, j) /\ Char(reply, y) = Cell(j)
  BY <1>1, ShownSpot
<1>4. /\ x \in Chars /\ IsChar(reply, x) /\ Char(reply, x) \in Int
      /\ y \in Chars /\ IsChar(reply, y) /\ Char(reply, y) \in Int
      /\ Numbered(reply)
  BY <1>1, <1>2, <1>3, SpotChars DEF Screen
<1>5. /\ Earlier(x, y) \/ Earlier(y, x) \/ x = y
      /\ Earlier(x, y) => Char(reply, x) < Char(reply, y)
  BY <1>2, <1>3, <1>4, CharOrder
<1>6. i \in Int /\ j \in Int
  <2> DEFINE n == Len(strs) * PageChars
  <2>1. i \in 1..n /\ j \in 1..n
    OBVIOUS
  <2> HIDE DEF n
  <2> QED BY <2>1
<1>7. ~Earlier(y, x)
  <2> SUFFICES ASSUME Earlier(y, x) PROVE FALSE
    OBVIOUS
  <2>1. j < i
    BY <1>1, <1>2, <1>3, SpotOrder
  <2> QED BY ONLY <1>6, <2>1, i < j
<1>8. x # y
  <2> SUFFICES ASSUME x = y PROVE FALSE
    OBVIOUS
  <2>1. i = j
    BY <1>1, <1>2, <1>3, SpotOnce
  <2> QED BY ONLY <1>6, <2>1, i < j
<1> QED BY <1>2, <1>3, <1>5, <1>7, <1>8

\* A place of TextKept as a character.
PlaceChar(x) == [entry |-> x[1], line |-> x[2], at |-> x[3]]

\* A place is a character of the reply.
LEMMA PlaceIs ==
    ASSUME TextInv, NEW x \in Places
    PROVE  /\ PlaceChar(x) \in Chars /\ IsChar(reply, PlaceChar(x))
           /\ Char(reply, PlaceChar(x)) = GlyphAt(x) /\ GlyphAt(x) > 0 /\ GlyphAt(x) \in 1..glyphs
           /\ PlaceChar(x).entry = x[1] /\ PlaceChar(x).line = x[2] /\ PlaceChar(x).at = x[3]
<1>1. glyphs \in Nat /\ reply \in Seq(Entry(glyphs))
  BY LayoutAssumption DEF TextInv
<1>2. x \in (1..MaxSize) \X (1..MaxSize) \X (1..MaxSize)
      /\ x[1] <= Len(reply) /\ x[2] <= Len(reply[x[1]].lines)
      /\ x[3] <= Len(reply[x[1]].lines[x[2]]) /\ GlyphAt(x) > 0
  BY DEF Places
<1>3. x[1] \in 1..MaxSize /\ x[2] \in 1..MaxSize /\ x[3] \in 1..MaxSize /\ MaxSize \in Nat
  BY <1>2, LayoutAssumption
<1>4. Len(reply) \in Nat /\ x[1] \in 1..Len(reply)
  BY <1>1, <1>2, <1>3, ReplyLens
<1>5. Len(reply[x[1]].lines) \in Nat
  BY <1>1, <1>4, ReplyLens
<1>6. x[2] \in 1..Len(reply[x[1]].lines)
  BY <1>2, <1>3, <1>5
<1>7. Len(reply[x[1]].lines[x[2]]) \in Nat
  BY <1>1, <1>4, <1>6, ReplyLens
<1>8. x[3] \in 1..Len(reply[x[1]].lines[x[2]])
  BY <1>2, <1>3, <1>7
<1>9. PlaceChar(x).entry = x[1] /\ PlaceChar(x).line = x[2] /\ PlaceChar(x).at = x[3]
      /\ PlaceChar(x) \in Chars
  BY <1>3 DEF PlaceChar, Chars
<1>10. IsChar(reply, PlaceChar(x))
  BY <1>4, <1>6, <1>8, <1>9 DEF IsChar
<1>11. Char(reply, PlaceChar(x)) = GlyphAt(x)
  BY <1>9 DEF Char, GlyphAt
<1>12. Char(reply, PlaceChar(x)) \in Written(glyphs)
  BY <1>1, <1>9, <1>10, CharIs
<1>13. GlyphAt(x) \in 1..glyphs
  BY <1>1, <1>2, <1>11, <1>12 DEF Written, Odd
<1> QED BY <1>2, <1>9, <1>10, <1>11, <1>13

\* A glyph that is not on the screens is beyond the clamp of its line or beyond the last
\* page.
LEMMA TextComplete ==
    ASSUME TextInv, strs # <<>>, NEW x \in Places
    PROVE  \/ Shown(GlyphAt(x))
           \/ reply[x[1]].kind = "lines" /\ x[3] > PageChars
           \/ reply[x[1]].kind = "text" /\ x[3] > PageChars * MaxPages
           \/ Len(strs) = MaxPages /\ \A g \in GlyphAt(x)..glyphs : ~Shown(g)
<1> DEFINE y == PlaceChar(x)
           e == x[1]
           n == Len(strs)
<1>0. y.entry = x[1] /\ y.line = x[2] /\ y.at = x[3]
  BY PlaceIs
<1>1. PICK m : Screen(Cols, Rows, glyphs, reply, m, strs)
  BY ScreenIs
<1>2. /\ Cols \in Nat \ {0} /\ Rows \in Nat \ {0} /\ glyphs \in Nat /\ MaxPages \in Nat \ {0}
      /\ reply \in Seq(Entry(glyphs)) /\ Numbered(reply) /\ Plan(Cols, Rows, Ink(glyphs), reply, m)
      /\ n \in 1..MaxPages /\ (n < MaxPages => Len(m.all) <= n)
      /\ Len(reply) \in Nat /\ \A f \in 1..Len(reply) : Len(reply[f].lines) \in Nat
  BY <1>1, ReplyLens DEF Screen
<1>3. /\ y \in Chars /\ IsChar(reply, y) /\ Char(reply, y) = GlyphAt(x) /\ GlyphAt(x) > 0
      /\ GlyphAt(x) \in 1..glyphs
  BY PlaceIs
<1> HIDE DEF y
<1>4. reply[e] \in Entry(glyphs)
  BY <1>0, <1>2, <1>3 DEF IsChar
<1>5. CASE ~(y.at <= LimitOf(Cols * Rows, reply[e]))
  <2>1. Cols * Rows = PageChars /\ PageChars \in Nat /\ PageChars * MaxPages \in Nat /\ x[3] \in Nat
    <3>1. grid \in Grids
      BY DEF TextInv
    <3>2. PageChars \in Nat
      BY <3>1, GridSize
    <3>3. PageChars * MaxPages \in Nat
      BY <1>2, <3>2, Times
    <3>4. x[3] \in Nat
      BY <1>0, <1>3 DEF Chars
    <3> QED BY <3>2, <3>3, <3>4 DEF PageChars
  <2>2. reply[e].kind \in {"lines", "text"}
    BY <1>4 DEF Entry
  <2>3. CASE reply[e].kind = "lines"
    <3>1. ~(x[3] <= PageChars)
      BY <1>0, <1>5, <2>1, <2>3 DEF LimitOf
    <3>2. x[3] > PageChars
      BY <2>1, <3>1
    <3> QED BY <2>3, <3>2
  <2>4. CASE reply[e].kind = "text"
    <3>1. ~(x[3] <= PageChars * MaxPages)
      BY <1>0, <1>5, <2>1, <2>4 DEF LimitOf
    <3> DEFINE b == PageChars * MaxPages
    <3>2. b \in Nat /\ ~(x[3] <= b)
      BY <2>1, <3>1
    <3> HIDE DEF b
    <3>3. x[3] > b
      BY <2>1, <3>2
    <3> QED BY <2>4, <3>3 DEF b
  <2> QED BY <2>2, <2>3, <2>4
<1>6. CASE y.at <= LimitOf(Cols * Rows, reply[e])
  <2>1. PICK k, i : Spot(Cols, Rows, reply, m, y, k, i)
    <3>1. y.at <= LimitOf(Cols * Rows, reply[y.entry])
      BY <1>0, <1>6
    <3> QED BY <1>1, <1>3, <3>1, CharHasSpot
  <2> DEFINE v == RowNo(Rows, m, y.entry, y.line, k)
  <2>2. CASE v < n * Rows
    <3>1. i \in 1..(n * (Cols * Rows)) /\ CellIn(Cols, Rows, strs, i) = Char(reply, y)
      BY <1>1, <1>3, <2>1, <2>2, SpotHasCell
    <3>2. i \in 1..(n * PageChars) /\ Cell(i) = GlyphAt(x)
      BY <1>1, <1>3, <3>1, CellsAre
    <3>3. Shown(GlyphAt(x))
      BY <3>2 DEF Shown, CellsOf
    <3> QED BY <3>3
  <2>3. CASE ~(v < n * Rows)
    <3>1. v \in Nat /\ n * Rows \in Nat /\ n \in Nat
      <4>1. v \in Nat
        BY <1>1, <2>1, SpotParts
      <4>2. n \in Nat
        BY <1>2
      <4> QED BY <1>2, <4>1, <4>2, Times
    <3>2. n * Rows <= v
      <4> DEFINE z == n * Rows
      <4>1. z \in Nat /\ ~(v < z)
        BY <2>3, <3>1
      <4> HIDE DEF z, v
      <4>2. z <= v
        BY <3>1, <4>1
      <4> QED BY <4>2 DEF z, v
    <3>3. n = MaxPages
      <4>1. IsRow(reply, m, y.entry, y.line, k) /\ Len(reply[y.entry].lines) \in Nat
        BY <1>2, <2>1 DEF Spot, IsRow
      <4>2. PICK p, r : RowOnPage(Rows, m, y.entry, y.line, k, p, r)
        BY <1>2, <4>1, RowHasPage
      <4>3. p \in 1..Len(m.all) /\ r \in 1..Rows /\ v = (p - 1) * Rows + r - 1
        BY <4>2 DEF RowOnPage
      <4> HIDE DEF v
      <4>4. ~(p <= n)
        <5> SUFFICES ASSUME p <= n PROVE FALSE
          OBVIOUS
        <5>1. p \in Nat /\ p - 1 \in Nat /\ (p - 1) + 1 = p
          BY <4>3
        <5>2. p * Rows <= n * Rows /\ p * Rows = (p - 1) * Rows + Rows /\ (p - 1) * Rows \in Nat
              /\ p * Rows \in Nat
          BY <1>2, <3>1, <5>1, Times
        <5> DEFINE a == p * Rows
                   b == n * Rows
                   c == (p - 1) * Rows
        <5>3. a <= b /\ a = c + Rows /\ c \in Nat /\ b \in Nat /\ b <= v /\ v = c + r - 1 /\ r \in 1..Rows
              /\ Rows \in Nat
          BY <1>2, <3>1, <3>2, <4>3, <5>2
        <5> HIDE DEF a, b, c
        <5> QED BY ONLY <5>3
      <4>5. ~(Len(m.all) <= n)
        BY <3>1, <4>3, <4>4
      <4> QED BY <1>2, <4>5
    <3>4. ASSUME NEW g \in GlyphAt(x)..glyphs, Shown(g) PROVE FALSE
      <4>1. PICK j \in 1..(n * PageChars) : Cell(j) = g
        BY <3>4 DEF Shown, CellsOf
      <4>2. g \in Int /\ g >= GlyphAt(x) /\ g > 0
        BY <1>2, <1>3
      <4>3. PICK z, h : /\ Spot(Cols, Rows, reply, m, z, h, j) /\ Char(reply, z) = Cell(j)
                        /\ RowNo(Rows, m, z.entry, z.line, h) < n * Rows
        BY <1>1, <4>1, <4>2, ShownSpot
      <4> DEFINE w == RowNo(Rows, m, z.entry, z.line, h)
      <4>4. w \in Nat
        BY <1>1, <4>3, SpotParts
      <4>5. ~(v <= w)
        <5> DEFINE b == n * Rows
        <5>1. b \in Nat /\ b <= v /\ w < b
          BY <3>1, <3>2, <4>3
        <5> HIDE DEF b, v, w
        <5> QED BY <3>1, <4>4, <5>1
      <4>6. z \in Chars /\ IsChar(reply, z) /\ Char(reply, z) \in Int
        BY <1>1, <4>3, SpotChars
      <4>7. /\ Earlier(z, y) \/ Earlier(y, z) \/ z = y
            /\ Earlier(z, y) => Char(reply, z) < Char(reply, y)
        <5>1. Char(reply, y) \in Int /\ Char(reply, y) > 0 /\ Char(reply, z) > 0
          BY <1>3, <4>1, <4>2, <4>3
        <5> QED BY <1>2, <1>3, <4>6, <5>1, CharOrder
      <4>8. ~Earlier(y, z)
        BY <1>1, <2>1, <4>3, <4>5, SpotOrder
      <4>9. z # y
        <5> SUFFICES ASSUME z = y PROVE FALSE
          OBVIOUS
        <5>1. h = k
          BY <1>1, <2>1, <4>3, SpotOnce
        <5>2. v = w
          BY <5>1
        <5> HIDE DEF v, w
        <5> QED BY <3>1, <4>5, <5>2
      <4>10. Char(reply, z) < Char(reply, y)
        BY <4>7, <4>8, <4>9
      <4> QED BY <1>3, <4>1, <4>2, <4>3, <4>6, <4>10
    <3> QED BY <3>3, <3>4
  <2> QED BY <2>2, <2>3
<1> QED BY <1>5, <1>6

\* Every character of the reply that the calculator has is on the screens once, in the order
\* written; only what is beyond a clamp or beyond MaxPages pages is missing (layout_pages).
THEOREM TextAlwaysKept == Spec => []TextKept
<1>1. TextInv => TextKept
  <2> SUFFICES ASSUME TextInv, strs # <<>>
               PROVE  /\ \A i, j \in 1..(Len(strs) * PageChars) :
                           i < j /\ Cell(i) > 0 /\ Cell(j) > 0 => Cell(i) < Cell(j)
                      /\ \A x \in Places :
                           \/ Shown(GlyphAt(x))
                           \/ reply[x[1]].kind = "lines" /\ x[3] > PageChars
                           \/ reply[x[1]].kind = "text" /\ x[3] > PageChars * MaxPages
                           \/ Len(strs) = MaxPages /\ \A g \in GlyphAt(x)..glyphs : ~Shown(g)
    BY Zenon DEF TextKept
  <2>1. \A i, j \in 1..(Len(strs) * PageChars) :
          i < j /\ Cell(i) > 0 /\ Cell(j) > 0 => Cell(i) < Cell(j)
    BY TextInOrder
  <2>2. \A x \in Places :
          \/ Shown(GlyphAt(x))
          \/ reply[x[1]].kind = "lines" /\ x[3] > PageChars
          \/ reply[x[1]].kind = "text" /\ x[3] > PageChars * MaxPages
          \/ Len(strs) = MaxPages /\ \A g \in GlyphAt(x)..glyphs : ~Shown(g)
    BY TextComplete
  <2> QED BY <2>1, <2>2
<1> QED BY <1>1, TextInvariant, PTL

-----------------------------------------------------------------------------
(* LinesAsWritten.                                                         *)

\* A line of the reply, as it is cut into rows: its clamped text and the rows of it.
CutLine(C, rows, at, line, text) ==
    /\ CutOf(C, rows, at, line)
    /\ \A c \in 1..Len(line) : c \in 1..Len(text) /\ line[c] = Clean(text[c])

\* Between two rows of a line there are only spaces.
LEMMA GapIsSpace ==
    ASSUME NEW C \in Nat, NEW T, NEW rows \in Seq(Seq(T)), NEW at, NEW line \in Seq(T),
           CutOf(C, rows, at, line), NEW r \in 1..(Len(rows) - 1),
           at[r] + Len(rows[r]) < at[r + 1], at[r + 1] <= Len(line)
    PROVE  line[at[r + 1]] = Space
<1> DEFINE n == Len(rows)
           b == at[r + 1]
           z == at[r] + Len(rows[r])
<1>1. n \in Nat /\ r \in 1..n /\ r + 1 \in 1..n /\ Len(line) \in Nat
  BY DEF n
<1>2. \A i \in 1..n : at[i] \in Nat
  <2>1. Len(at) = n /\ at \in Seq(Nat)
    BY DEF CutOf
  <2> HIDE DEF n
  <2> QED BY <2>1
<1>2a. \A i \in 1..n : Len(rows[i]) \in Nat
  OBVIOUS
<1>3. at[r] \in Nat /\ at[r + 1] \in Nat /\ Len(rows[r]) \in Nat
  BY <1>1, <1>2, <1>2a
<1>4. b \in Nat /\ z \in Nat /\ z < b /\ b \in 1..Len(line)
  BY <1>1, <1>3
<1>5. SUFFICES ASSUME line[b] # Space PROVE FALSE
  BY DEF b
<1>6. PICK s \in 1..n : b \in (at[s] + 1)..(at[s] + Len(rows[s]))
  BY <1>4, <1>5 DEF CutOf
<1>7. at[s] \in Nat /\ Len(rows[s]) \in Nat
  BY <1>2, <1>2a, <1>6
<1> DEFINE d == at[s]
           h == Len(rows[s])
<1>8. d \in Nat /\ h \in Nat /\ d + 1 <= b /\ b <= d + h
  BY <1>4, <1>6, <1>7
<1>9. CASE s < r
  <2>1. d + h <= at[s + 1] /\ at[s + 1] <= at[r] /\ at[s + 1] \in Nat
    <3>1. s + 1 \in 1..n
      BY <1>1, <1>6, <1>9
    <3>2. at[s + 1] \in Nat
      BY <1>2, <3>1
    <3> QED BY <1>1, <1>6, <1>9, <3>2, CutOrder
  <2> DEFINE u == at[s + 1]
             a == at[r]
             len == Len(rows[r])
  <2>2. d + h <= u /\ u <= a /\ u \in Nat /\ a \in Nat /\ len \in Nat /\ z = a + len
    BY <1>3, <2>1
  <2> HIDE DEF d, h, b, z, u, a, len
  <2> QED BY <1>4, <1>8, <2>2
<1>10. CASE s = r
  <2>1. d + h = z
    BY <1>10
  <2> HIDE DEF d, h, b, z
  <2> QED BY <1>4, <1>8, <2>1
<1>11. CASE s = r + 1
  <2>1. d = b
    BY <1>11
  <2> HIDE DEF d, h, b, z
  <2> QED BY <1>4, <1>8, <2>1
<1>12. CASE s > r + 1
  <2>1. r + 1 < s
    BY <1>1, <1>6, <1>12
  <2>2. at[r + 1] + Len(rows[r + 1]) <= at[r + 1 + 1] /\ at[r + 1 + 1] <= at[s] /\ Len(rows[r + 1]) \in Nat
    BY <1>1, <1>6, <2>1, CutOrder
  <2>3. at[r + 1 + 1] \in Nat
    <3>1. r + 1 + 1 \in 1..n
      BY <1>1, <1>6, <2>1
    <3> QED BY <1>2, <3>1
  <2> DEFINE u == at[r + 1 + 1]
             len == Len(rows[r + 1])
  <2>4. b + len <= u /\ u <= d /\ len \in Nat /\ u \in Nat
    BY <2>2, <2>3
  <2> HIDE DEF d, h, b, z, u, len
  <2> QED BY <1>4, <1>8, <2>4
<1>13. s \in Int /\ r \in Int
  BY <1>1, <1>6
<1> QED BY <1>9, <1>10, <1>11, <1>12, <1>13

\* A run without spaces that holds a character of a word is within the word.
LEMMA RunInWord ==
    ASSUME NEW T, NEW line \in Seq(T), NEW text, Len(text) \in Nat,
           \A c \in 1..Len(line) : c \in 1..Len(text) /\ line[c] = Clean(text[c]),
           NEW w \in WordsOf(text), NEW p \in 1..Len(line), NEW q \in 1..Len(line),
           NoSpace(line, p, q), NEW j \in w[1]..w[2], j \in p..q
    PROVE  w[1] <= p /\ q <= w[2] /\ w[1] \in Nat /\ w[2] \in Nat
<1>1. /\ w \in (DOMAIN text) \X (DOMAIN text)
      /\ w[1] > 1 => ~Visible(text[w[1] - 1])
      /\ w[2] < Len(text) => ~Visible(text[w[2] + 1])
  BY DEF WordsOf
<1>2. w[1] \in Nat /\ w[2] \in Nat /\ w[1] \in 1..Len(text) /\ w[2] \in 1..Len(text)
  <2>1. DOMAIN text = 1..Len(text)
    OBVIOUS
  <2> QED BY <1>1, <2>1
<1>3. p \in Nat /\ q \in Nat /\ Len(line) \in Nat /\ j \in Nat /\ p <= j /\ j <= q /\ w[1] <= j /\ j <= w[2]
  BY <1>2
<1>4. w[1] <= p
  <2> SUFFICES ASSUME ~(w[1] <= p) PROVE FALSE
    OBVIOUS
  <2>1. w[1] - 1 \in p..q /\ w[1] > 1 /\ w[1] - 1 \in 1..Len(line)
    BY <1>2, <1>3
  <2>2. line[w[1] - 1] # Space
    BY <2>1 DEF NoSpace
  <2>3. line[w[1] - 1] = Clean(text[w[1] - 1])
    BY <2>1
  <2> QED BY <1>1, <2>1, <2>2, <2>3 DEF Clean
<1>5. q <= w[2]
  <2> SUFFICES ASSUME ~(q <= w[2]) PROVE FALSE
    OBVIOUS
  <2>1. w[2] + 1 \in p..q /\ w[2] + 1 \in 1..Len(line)
    BY <1>2, <1>3
  <2>2. line[w[2] + 1] # Space
    BY <2>1 DEF NoSpace
  <2>3. line[w[2] + 1] = Clean(text[w[2] + 1]) /\ w[2] + 1 \in 1..Len(text)
    BY <2>1
  <2>4. w[2] < Len(text)
    BY <1>2, <2>3
  <2> QED BY <1>1, <2>2, <2>3, <2>4 DEF Clean
<1> QED BY <1>2, <1>4, <1>5

\* The cut between rows r and r + 1 of a line, and two characters on its two sides.
CutBetween(rows, at, line, r, j, k) ==
    /\ r \in 1..(Len(rows) - 1)
    /\ at[r] \in Nat /\ at[r + 1] \in Nat
    /\ at[r] < j /\ j <= at[r] + Len(rows[r]) /\ at[r] + Len(rows[r]) <= at[r + 1]
    /\ at[r + 1] < k /\ k <= Len(line)

\* A word with a cut in it does not fit a row.
LEMMA CutWordIsLong ==
    ASSUME NEW C \in Nat, NEW T, NEW rows \in Seq(Seq(T)), NEW at, NEW line \in Seq(T), NEW text,
           Len(text) \in Nat, CutLine(C, rows, at, line, text), NEW w \in WordsOf(text),
           NEW j \in w[1]..w[2], NEW k \in w[1]..w[2], NEW r, CutBetween(rows, at, line, r, j, k)
    PROVE  ~(w[2] - w[1] < C)
<1> DEFINE a == at[r]
           b == at[r + 1]
           n == Len(rows[r])
<1>1. /\ CutOf(C, rows, at, line)
      /\ \A c \in 1..Len(line) : c \in 1..Len(text) /\ line[c] = Clean(text[c])
  BY DEF CutLine
<1>2. /\ r \in 1..(Len(rows) - 1) /\ a \in Nat /\ b \in Nat
      /\ a < j /\ j <= a + n /\ a + n <= b /\ b < k /\ k <= Len(line)
  BY DEF CutBetween
<1>3. BreakOf(C, line, a, n, b) /\ n \in Nat
  <2>1. r \in 1..Len(rows)
    BY <1>2
  <2> QED BY <1>1, <1>2, <2>1 DEF CutOf
<1>4. w[1] \in Nat /\ w[2] \in Nat /\ \A i \in w[1]..w[2] : Visible(text[i])
  <2>1. w \in (DOMAIN text) \X (DOMAIN text) /\ \A i \in w[1]..w[2] : Visible(text[i])
    BY DEF WordsOf
  <2>2. DOMAIN text = 1..Len(text)
    OBVIOUS
  <2> QED BY <2>1, <2>2
<1>5. j \in Nat /\ k \in Nat /\ w[1] <= j /\ j <= w[2] /\ w[1] <= k /\ k <= w[2] /\ Len(line) \in Nat
  BY <1>4
<1>6. b \in 1..Len(line) /\ b \in w[1]..w[2] /\ j <= b
  <2> DEFINE wl == w[1]
             wh == w[2]
             len == Len(line)
  <2>1. /\ a \in Nat /\ n \in Nat /\ b \in Nat /\ j \in Nat /\ k \in Nat /\ len \in Nat
        /\ a < j /\ j <= a + n /\ a + n <= b /\ b < k /\ k <= len
        /\ wl \in Nat /\ wh \in Nat /\ wl <= j /\ k <= wh
    BY <1>2, <1>3, <1>4, <1>5
  <2> HIDE DEF a, b, n, wl, wh, len
  <2>2. b \in 1..len /\ b \in wl..wh /\ j <= b
    BY ONLY <2>1
  <2> QED BY <2>2 DEF wl, wh, len
<1>7. line[b] # Space
  <2>1. line[b] = Clean(text[b]) /\ Visible(text[b])
    BY <1>1, <1>4, <1>6
  <2> QED BY <2>1 DEF Clean, Visible, Space, Odd
<1>8. b = a + n
  <2> SUFFICES ASSUME b # a + n PROVE FALSE
    OBVIOUS
  <2>1. a + n < b
    <3> HIDE DEF a, b, n
    <3>1. a + n \in Nat /\ b \in Nat /\ a + n <= b
      BY <1>2, <1>3
    <3> QED BY <3>1
  <2>2. b <= Len(line)
    BY <1>5, <1>6
  <2>3. line[b] = Space
    BY <1>1, <1>2, <2>1, <2>2, GapIsSpace
  <2> QED BY <1>7, <2>3
<1>9. PICK p \in 1..b, q \in (b + 1)..Len(line) : NoSpace(line, p, q) /\ q - p + 1 > C
  BY <1>3, <1>8 DEF BreakOf
<1> HIDE DEF a, b, n
<1>10. p \in 1..Len(line) /\ q \in 1..Len(line) /\ b \in p..q /\ p \in Int /\ q \in Int
  BY <1>5, <1>6, <1>9
<1>11. w[1] <= p /\ q <= w[2]
  BY <1>1, <1>6, <1>9, <1>10, RunInWord
<1>12. w[2] - w[1] >= q - p
  BY <1>4, <1>10, <1>11
<1>13. q - p >= C
  BY <1>9, <1>10
<1> QED BY <1>4, <1>10, <1>12, <1>13

\* A word that begins the row after the one another word ended did not fit there.
LEMMA CutIsGreedy ==
    ASSUME NEW C \in Nat, NEW T, NEW rows \in Seq(Seq(T)), NEW at, NEW line \in Seq(T), NEW text,
           Len(text) \in Nat, CutLine(C, rows, at, line, text), NEW w \in WordsOf(text),
           NEW j \in Nat, j < w[1], \A k \in (j + 1)..(w[1] - 1) : ~Visible(text[k]),
           NEW r, CutBetween(rows, at, line, r, j, w[1])
    PROVE  (j - at[r]) + (w[2] - j) > C
<1> DEFINE a == at[r]
           b == at[r + 1]
           n == Len(rows[r])
<1>1. /\ CutOf(C, rows, at, line)
      /\ \A c \in 1..Len(line) : c \in 1..Len(text) /\ line[c] = Clean(text[c])
  BY DEF CutLine
<1>2. /\ r \in 1..(Len(rows) - 1) /\ a \in Nat /\ b \in Nat
      /\ a < j /\ j <= a + n /\ a + n <= b /\ b < w[1] /\ w[1] <= Len(line)
  BY DEF CutBetween
<1>3. BreakOf(C, line, a, n, b) /\ n \in Nat
  <2>1. r \in 1..Len(rows)
    BY <1>2
  <2> QED BY <1>1, <1>2, <2>1 DEF CutOf
<1>4. w[1] \in Nat /\ w[2] \in Nat /\ w[1] <= w[2]
  <2>1. w \in (DOMAIN text) \X (DOMAIN text) /\ w[1] <= w[2]
    BY DEF WordsOf
  <2>2. DOMAIN text = 1..Len(text)
    OBVIOUS
  <2> QED BY <2>1, <2>2
<1>5. PICK t \in (b + 1)..Len(line) : NoSpace(line, b + 1, t) /\ t - a > C
  BY <1>3 DEF BreakOf
<1>6. Len(line) \in Nat
  OBVIOUS
<1> DEFINE len == Len(line)
           wl == w[1]
           wh == w[2]
<1>6a. /\ a \in Nat /\ n \in Nat /\ b \in Nat /\ len \in Nat /\ t \in (b + 1)..len /\ t - a > C
       /\ a < j /\ j <= a + n /\ a + n <= b /\ b < wl /\ wl <= len
       /\ wl \in Nat /\ wh \in Nat /\ wl <= wh
  BY <1>2, <1>3, <1>4, <1>5, <1>6
<1> HIDE DEF a, b, n, len, wl, wh
<1>7. /\ b + 1 \in 1..Len(line) /\ t \in 1..Len(line) /\ b + 1 \in (b + 1)..t /\ t \in Int
      /\ j < b + 1 /\ b + 1 <= w[1]
  <2>1. /\ b + 1 \in 1..len /\ t \in 1..len /\ b + 1 \in (b + 1)..t /\ t \in Int
        /\ j < b + 1 /\ b + 1 <= wl
    BY <1>6a
  <2> QED BY <2>1 DEF len, wl
<1>8. Visible(text[b + 1])
  <2>1. line[b + 1] # Space
    BY <1>5, <1>7 DEF NoSpace
  <2>2. line[b + 1] = Clean(text[b + 1])
    BY <1>1, <1>7
  <2> QED BY <2>1, <2>2 DEF Clean
<1>9. b + 1 = w[1]
  <2> SUFFICES ASSUME b + 1 # w[1] PROVE FALSE
    OBVIOUS
  <2>1. b + 1 \in (j + 1)..(w[1] - 1)
    <3>1. b + 1 # wl /\ j < b + 1 /\ b + 1 <= wl
      BY <1>7 DEF wl
    <3>2. b + 1 \in (j + 1)..(wl - 1)
      BY <1>6a, <3>1
    <3> QED BY <3>2 DEF wl
  <2> QED BY <1>8, <2>1
<1>10. w[1] \in w[1]..w[2] /\ w[1] \in (b + 1)..t
  BY <1>4, <1>7, <1>9
<1>11. t <= w[2]
  BY <1>1, <1>5, <1>7, <1>10, RunInWord
<1>12. b + 1 = wl /\ t <= wh
  BY <1>9, <1>11 DEF wl, wh
<1>13. (j - a) + (wh - j) > C
  BY <1>6a, <1>12
<1> QED BY <1>13 DEF a, wh

\* Where a character that is shown is: the cell, row, column and page of it.
ShowsAt(m, x, k) ==
    LET g == Char(reply, x)
        v == RowNo(Rows, m, x.entry, x.line, k)
    IN  /\ Spot(Cols, Rows, reply, m, x, k, CellOf(g))
        /\ RowOf(g) = v /\ ColOf(g) = x.at - m.at[x.entry][x.line][k]
        /\ PageOf(g) = v \div Rows

\* A character that is shown is at the spot that the plan gives it.
LEMMA ShownIs ==
    ASSUME TextInv, strs # <<>>, NEW m, Screen(Cols, Rows, glyphs, reply, m, strs),
           NEW x \in Chars, IsChar(reply, x), Char(reply, x) > 0, Char(reply, x) \in Int,
           Shown(Char(reply, x))
    PROVE  \E k : ShowsAt(m, x, k)
<1> DEFINE g == Char(reply, x)
           i == CellOf(g)
<1>1. i \in CellsOf(g)
  <2>1. \E c : c \in CellsOf(g)
    BY DEF Shown
  <2> HIDE DEF g
  <2>2. (CHOOSE c \in CellsOf(g) : TRUE) \in CellsOf(g)
    BY <2>1
  <2> QED BY Zenon, <2>2 DEF CellOf
<1>2. i \in 1..(Len(strs) * PageChars) /\ Cell(i) = g
  <2> HIDE DEF g, i
  <2> QED BY <1>1 DEF CellsOf
<1> HIDE DEF i
<1>3. PICK y, k : Spot(Cols, Rows, reply, m, y, k, i) /\ Char(reply, y) = Cell(i)
  BY <1>2, ShownSpot
<1>4. y \in Chars /\ IsChar(reply, y) /\ Char(reply, y) \in Int /\ Char(reply, y) = g
  BY <1>2, <1>3, SpotChars
<1>5. y = x
  <2>1. Numbered(reply)
    BY DEF TextInv
  <2>2. Char(reply, y) > 0 /\ Char(reply, y) = Char(reply, x)
    BY <1>4
  <2> QED BY <1>4, <2>1, <2>2, CharOrder
<1>6. Spot(Cols, Rows, reply, m, x, k, i)
  BY <1>3, <1>5
<1> DEFINE v == RowNo(Rows, m, x.entry, x.line, k)
           d == x.at - m.at[x.entry][x.line][k]
<1>7. (i - 1) \div Cols = v /\ ((i - 1) % Cols) + 1 = d
  BY <1>6, SpotParts
<1>8. (i - 1) \div PageChars = ((i - 1) \div Cols) \div Rows
  BY <1>2, CellDrawn
<1> HIDE DEF v, d
<1>9. (i - 1) \div PageChars = v \div Rows
  BY <1>7, <1>8
<1>10. RowOf(g) = v /\ ColOf(g) = d /\ PageOf(g) = v \div Rows
  BY <1>7, <1>9 DEF RowOf, ColOf, PageOf, i
<1>11. ShowsAt(m, x, k)
  BY <1>6, <1>10 DEF ShowsAt, i, v, d
<1> QED BY <1>11

\* Pages of their own, and rows of their own, for two places that are shown.
LEMMA PlacesApart ==
    ASSUME TextInv, strs # <<>>, NEW x \in Places, NEW y \in Places,
           Shown(GlyphAt(x)), Shown(GlyphAt(y))
    PROVE  /\ x[1] < y[1] => PageOf(GlyphAt(x)) < PageOf(GlyphAt(y))
           /\ x[1] = y[1] /\ x[2] < y[2] =>
                RowOf(GlyphAt(y)) - RowOf(GlyphAt(x)) >= y[2] - x[2]
<1> DEFINE a == PlaceChar(x)
           b == PlaceChar(y)
<1>1. PICK m : Screen(Cols, Rows, glyphs, reply, m, strs)
  BY ScreenIs
<1>2. /\ a \in Chars /\ IsChar(reply, a) /\ Char(reply, a) = GlyphAt(x) /\ GlyphAt(x) > 0
      /\ GlyphAt(x) \in 1..glyphs /\ a.entry = x[1] /\ a.line = x[2]
  BY PlaceIs
<1>3. /\ b \in Chars /\ IsChar(reply, b) /\ Char(reply, b) = GlyphAt(y) /\ GlyphAt(y) > 0
      /\ GlyphAt(y) \in 1..glyphs /\ b.entry = y[1] /\ b.line = y[2]
  BY PlaceIs
<1> HIDE DEF a, b
<1>4. /\ Cols \in Nat \ {0} /\ Rows \in Nat \ {0} /\ glyphs \in Nat
      /\ Plan(Cols, Rows, Ink(glyphs), reply, m)
      /\ Len(reply) \in Nat /\ \A f \in 1..Len(reply) : Len(reply[f].lines) \in Nat
  BY <1>1, ReplyLens DEF Screen
<1>5. Char(reply, a) \in Int /\ Char(reply, b) \in Int
  BY <1>2, <1>3, <1>4
<1>6. PICK k : ShowsAt(m, a, k)
  BY <1>1, <1>2, <1>5, ShownIs
<1>7. PICK h : ShowsAt(m, b, h)
  BY <1>1, <1>3, <1>5, ShownIs
<1> DEFINE v == RowNo(Rows, m, a.entry, a.line, k)
           w == RowNo(Rows, m, b.entry, b.line, h)
<1>8. /\ RowOf(GlyphAt(x)) = v /\ PageOf(GlyphAt(x)) = v \div Rows
      /\ RowOf(GlyphAt(y)) = w /\ PageOf(GlyphAt(y)) = w \div Rows
  BY <1>2, <1>3, <1>6, <1>7 DEF ShowsAt
<1>9. /\ IsRow(reply, m, a.entry, a.line, k) /\ IsRow(reply, m, b.entry, b.line, h)
      /\ Len(reply[a.entry].lines) \in Nat /\ Len(reply[b.entry].lines) \in Nat
  <2>1. IsRow(reply, m, a.entry, a.line, k) /\ IsRow(reply, m, b.entry, b.line, h)
    BY <1>6, <1>7 DEF ShowsAt, Spot
  <2> QED BY <1>4, <2>1 DEF IsRow
<1>10. RowsOrdered(Rows, m, a.entry, a.line, k, b.entry, b.line, h)
  BY <1>4, <1>9, RowOrder
<1>11. /\ a.entry < b.entry => v \div Rows < w \div Rows
       /\ a.entry = b.entry /\ a.line < b.line => w - v >= b.line - a.line
  BY <1>10 DEF RowsOrdered
<1> HIDE DEF v, w
<1> QED BY <1>2, <1>3, <1>8, <1>11

\* Two characters of a line, in one row or with a cut between them.
InLine(m, x, k, y, h) ==
    LET rows == m.rows[x.entry][x.line]
        at == m.at[x.entry][x.line]
        line == m.lines[x.entry][x.line]
    IN  /\ CutLine(Cols, rows, at, line, reply[x.entry].lines[x.line])
        /\ rows \in Seq(Seq(Ink(glyphs))) /\ line \in Seq(Ink(glyphs))
        /\ Len(reply[x.entry].lines[x.line]) \in Nat
        /\ k = h \/ CutBetween(rows, at, line, k, x.at, y.at)

\* The plan of a line cuts it into rows.
LEMMA LineIsCut ==
    ASSUME NEW C, NEW R, NEW T, NEW rep, NEW m, Plan(C, R, T, rep, m), Len(rep) \in Nat,
           NEW e \in 1..Len(rep), NEW l \in 1..Len(rep[e].lines)
    PROVE  /\ CutLine(C, m.rows[e][l], m.at[e][l], m.lines[e][l], rep[e].lines[l])
           /\ m.rows[e][l] \in Seq(Seq(T)) /\ m.lines[e][l] \in Seq(T)
<1>1. CutOf(C, m.rows[e][l], m.at[e][l], m.lines[e][l])
  BY LinePlan
<1>2. m.rows[e][l] \in Seq(Seq(T)) /\ m.lines[e][l] \in Seq(T)
  BY LinePlan
<1>3. \A c \in 1..Len(m.lines[e][l]) :
        c \in 1..Len(rep[e].lines[l]) /\ m.lines[e][l][c] = Clean(rep[e].lines[l][c])
  <2>1. EntryPlan(C, C * R, T, rep[e], m.lines[e], m.rows[e], m.flat[e], m.base[e], m.at[e])
    BY PlanAt
  <2> QED BY <2>1, Zenon DEF EntryPlan
<1> QED BY <1>1, <1>2, <1>3 DEF CutLine

\* Two characters of a line that are shown are in one row or have a cut between them.
LEMMA TwoInLine ==
    ASSUME TextInv, strs # <<>>, NEW m, Screen(Cols, Rows, glyphs, reply, m, strs),
           NEW x, NEW k, ShowsAt(m, x, k), NEW y, NEW h, ShowsAt(m, y, h),
           x.entry = y.entry, x.line = y.line, x.at <= y.at
    PROVE  InLine(m, x, k, y, h)
<1> DEFINE rows == m.rows[x.entry][x.line]
           at == m.at[x.entry][x.line]
           line == m.lines[x.entry][x.line]
           text == reply[x.entry].lines[x.line]
<1>1. PICK i : Spot(Cols, Rows, reply, m, x, k, i)
  BY DEF ShowsAt
<1>2. PICK j : Spot(Cols, Rows, reply, m, y, h, j)
  BY DEF ShowsAt
<1>3. /\ Cols \in Nat \ {0} /\ Plan(Cols, Rows, Ink(glyphs), reply, m)
      /\ Len(reply) \in Nat
      /\ \A e \in 1..Len(reply) : /\ Len(reply[e].lines) \in Nat
                                  /\ \A l \in 1..Len(reply[e].lines) : Len(reply[e].lines[l]) \in Nat
  BY <1>1, ReplyLens DEF Screen
<1>4. /\ x \in Chars /\ IsChar(reply, x) /\ IsRow(reply, m, x.entry, x.line, k)
      /\ at[k] \in Nat /\ x.at - at[k] \in 1..Len(rows[k])
  BY <1>1 DEF Spot
<1>5. /\ y \in Chars /\ IsRow(reply, m, x.entry, x.line, h)
      /\ at[h] \in Nat /\ y.at - at[h] \in 1..Len(rows[h])
  BY <1>2 DEF Spot
<1>6. x.entry \in 1..Len(reply) /\ x.line \in 1..Len(reply[x.entry].lines)
  BY <1>4 DEF IsChar
<1>7. /\ CutLine(Cols, rows, at, line, text)
      /\ rows \in Seq(Seq(Ink(glyphs))) /\ line \in Seq(Ink(glyphs))
  BY <1>3, <1>6, LineIsCut
<1>8. CutOf(Cols, rows, at, line) /\ Len(text) \in Nat
  BY <1>3, <1>6, <1>7 DEF CutLine
<1>9. ASSUME k # h PROVE CutBetween(rows, at, line, k, x.at, y.at)
  <2>1. /\ k \in Nat /\ h \in Nat /\ k <= h
        /\ k < h => at[k] + Len(rows[k]) <= at[k + 1] /\ at[k + 1] <= at[h]
    BY <1>1, <1>2, SpotInLine
  <2>2. k < h
    BY <1>9, <2>1
  <2>3. k \in 1..Len(rows) /\ h \in 1..Len(rows) /\ k \in 1..(Len(rows) - 1)
    <3>1. k \in 1..Len(rows) /\ h \in 1..Len(rows)
      BY <1>4, <1>5 DEF IsRow
    <3>2. Len(rows) \in Nat
      BY <1>7
    <3> HIDE DEF rows
    <3> QED BY <2>1, <2>2, <3>1, <3>2
  <2>4. at[k + 1] \in Nat
    <3>1. at \in Seq(Nat) /\ Len(at) = Len(rows)
      BY <1>8 DEF CutOf
    <3>2. k + 1 \in 1..Len(rows) /\ Len(rows) \in Nat
      BY <1>7, <2>3
    <3> HIDE DEF at, rows
    <3> QED BY <3>1, <3>2
  <2>5. at[h] + Len(rows[h]) <= Len(line) /\ Len(rows[h]) \in Nat /\ Len(rows[k]) \in Nat
    <3>1. Len(rows[h]) \in 0..Cols /\ at[h] + Len(rows[h]) <= Len(line)
      BY <1>8, <2>3 DEF CutOf
    <3>2. Len(rows[k]) \in 0..Cols
      BY <1>8, <2>3 DEF CutOf
    <3> QED BY <1>3, <3>1, <3>2
  <2>6. x.at \in Nat /\ y.at \in Nat /\ Len(line) \in Nat
    <3>1. x \in Chars /\ y \in Chars
      BY <1>4, <1>5
    <3>2. x.at \in Nat /\ y.at \in Nat
      BY <3>1 DEF Chars
    <3>3. line \in Seq(Ink(glyphs))
      BY <1>7
    <3> HIDE DEF line
    <3>4. Len(line) \in Nat
      BY <3>3
    <3> QED BY <3>2, <3>4
  <2> DEFINE a == at[k]
             n == Len(rows[k])
             b == at[k + 1]
             c == at[h]
             r == Len(rows[h])
             p == x.at
             q == y.at
             len == Len(line)
  <2>7. /\ a \in Nat /\ n \in Nat /\ b \in Nat /\ c \in Nat /\ r \in Nat /\ p \in Nat /\ q \in Nat
        /\ len \in Nat /\ p - a \in 1..n /\ q - c \in 1..r /\ a + n <= b /\ b <= c /\ c + r <= len
    BY <1>4, <1>5, <2>1, <2>2, <2>4, <2>5, <2>6
  <2> HIDE DEF a, n, b, c, r, p, q, len
  <2>8. a < p /\ p <= a + n /\ a + n <= b /\ b < q /\ q <= len
    BY ONLY <2>7
  <2>9. /\ at[k] < x.at /\ x.at <= at[k] + Len(rows[k]) /\ at[k] + Len(rows[k]) <= at[k + 1]
        /\ at[k + 1] < y.at /\ y.at <= Len(line)
    BY <2>8 DEF a, n, b, p, q, len
  <2> HIDE DEF rows, at, line
  <2> QED BY <1>4, <2>3, <2>4, <2>9 DEF CutBetween
<1> HIDE DEF rows, at, line, text
<1>10. k = h \/ CutBetween(rows, at, line, k, x.at, y.at)
  BY <1>9
<1> QED BY <1>7, <1>8, <1>10 DEF InLine, rows, at, line, text

\* A character of a line of the reply, when it is shown.
LEMMA LineChar ==
    ASSUME TextInv, strs # <<>>, NEW m, Screen(Cols, Rows, glyphs, reply, m, strs),
           NEW e \in DOMAIN reply, NEW l \in DOMAIN reply[e].lines, NEW j \in Nat,
           j \in 1..Len(reply[e].lines[l]), reply[e].lines[l][j] > 0, Shown(reply[e].lines[l][j])
    PROVE  \E k : ShowsAt(m, [entry |-> e, line |-> l, at |-> j], k)
<1> DEFINE x == [entry |-> e, line |-> l, at |-> j]
<1>1. /\ glyphs \in Nat /\ reply \in Seq(Entry(glyphs)) /\ Len(reply) \in Nat
      /\ \A f \in 1..Len(reply) : Len(reply[f].lines) \in Nat /\ reply[f].lines \in Seq(Seq(Written(glyphs)))
  BY ReplyLens DEF Screen
<1>2. e \in 1..Len(reply) /\ l \in 1..Len(reply[e].lines)
  BY <1>1
<1>3. x \in Chars /\ x.entry = e /\ x.line = l /\ x.at = j
  BY <1>1, <1>2 DEF Chars
<1> HIDE DEF x
<1>4. IsChar(reply, x) /\ Char(reply, x) = reply[e].lines[l][j]
  BY <1>2, <1>3 DEF IsChar, Char
<1>5. Char(reply, x) \in Int
  <2>1. Char(reply, x) \in Written(glyphs)
    BY <1>1, <1>3, <1>4, CharIs
  <2> QED BY <1>1, <2>1 DEF Written, Odd
<1>6. \E k : ShowsAt(m, x, k)
  BY <1>3, <1>4, <1>5, ShownIs
<1> QED BY <1>6 DEF x

\* Two characters of a line, one after the other, that are shown in different rows.
RowsApart(m, e, l, j, k, r) ==
    LET rows == m.rows[e][l]
        at == m.at[e][l]
        line == m.lines[e][l]
        text == reply[e].lines[l]
    IN  /\ CutLine(Cols, rows, at, line, text) /\ CutBetween(rows, at, line, r, j, k)
        /\ rows \in Seq(Seq(Ink(glyphs))) /\ line \in Seq(Ink(glyphs)) /\ Len(text) \in Nat
        /\ ColOf(text[j]) = j - at[r]

\* Two characters of a line in different rows of the screen have a cut between them.
LEMMA ApartIsCut ==
    ASSUME TextInv, strs # <<>>, NEW m, Screen(Cols, Rows, glyphs, reply, m, strs),
           NEW e \in DOMAIN reply, NEW l \in DOMAIN reply[e].lines,
           NEW j \in Nat, j \in 1..Len(reply[e].lines[l]),
           NEW k \in Nat, k \in 1..Len(reply[e].lines[l]), j <= k,
           reply[e].lines[l][j] > 0, Shown(reply[e].lines[l][j]),
           reply[e].lines[l][k] > 0, Shown(reply[e].lines[l][k]),
           RowOf(reply[e].lines[l][j]) # RowOf(reply[e].lines[l][k])
    PROVE  \E r : RowsApart(m, e, l, j, k, r)
<1> DEFINE x == [entry |-> e, line |-> l, at |-> j]
           y == [entry |-> e, line |-> l, at |-> k]
           text == reply[e].lines[l]
<1>1. PICK r : ShowsAt(m, x, r)
  BY LineChar
<1>2. PICK q : ShowsAt(m, y, q)
  BY LineChar
<1>3. /\ x.entry = e /\ x.line = l /\ x.at = j
      /\ y.entry = e /\ y.line = l /\ y.at = k
  OBVIOUS
<1> HIDE DEF x, y
<1>4. InLine(m, x, r, y, q)
  BY <1>1, <1>2, <1>3, TwoInLine
<1>5. Char(reply, x) = text[j] /\ Char(reply, y) = text[k]
  BY <1>3 DEF Char
<1>6. /\ RowOf(text[j]) = RowNo(Rows, m, e, l, r) /\ RowOf(text[k]) = RowNo(Rows, m, e, l, q)
      /\ ColOf(text[j]) = j - m.at[e][l][r]
  BY <1>1, <1>2, <1>3, <1>5 DEF ShowsAt
<1>7. r # q
  BY <1>6
<1>8. RowsApart(m, e, l, j, k, r)
  BY <1>3, <1>4, <1>6, <1>7 DEF InLine, RowsApart
<1> QED BY <1>8

\* A word is within its line.
LEMMA WordInLine ==
    ASSUME NEW text, NEW w \in WordsOf(text), Len(text) \in Nat, DOMAIN text = 1..Len(text)
    PROVE  /\ w[1] \in Nat /\ w[2] \in Nat /\ w[1] <= w[2]
           /\ \A j \in w[1]..w[2] : j \in Nat /\ j \in 1..Len(text)
<1>1. w \in (1..Len(text)) \X (1..Len(text)) /\ w[1] <= w[2]
  BY DEF WordsOf
<1> DEFINE a == w[1]
           b == w[2]
           n == Len(text)
<1>2. a \in 1..n /\ b \in 1..n /\ a <= b /\ n \in Nat
  BY <1>1
<1> HIDE DEF a, b, n
<1>3. a \in Nat /\ b \in Nat /\ \A j \in a..b : j \in Nat /\ j \in 1..n
  BY <1>2
<1> QED BY <1>2, <1>3 DEF a, b, n

\* A line of the reply.
LEMMA LineOfReply ==
    ASSUME TextInv, NEW e \in DOMAIN reply, NEW l \in DOMAIN reply[e].lines
    PROVE  Len(reply[e].lines[l]) \in Nat /\ DOMAIN reply[e].lines[l] = 1..Len(reply[e].lines[l])
<1>1. reply \in Seq(Entry(glyphs))
  BY DEF TextInv
<1>2. reply[e] \in Entry(glyphs)
  BY <1>1
<1>3. reply[e].lines \in Seq(Seq(Written(glyphs)))
  BY <1>2 DEF Entry
<1> DEFINE D == Seq(Written(glyphs))
           lines == reply[e].lines
<1>4. lines \in Seq(D)
  BY <1>3
<1> HIDE DEF D, lines
<1>5. lines[l] \in D
  BY <1>4 DEF lines
<1>6. reply[e].lines[l] \in Seq(Written(glyphs))
  BY <1>5 DEF D, lines
<1> QED BY <1>6

\* A word that fits a row is in one row.
LEMMA WordsAreWhole ==
    ASSUME TextInv, strs # <<>>, NEW e \in DOMAIN reply, NEW l \in DOMAIN reply[e].lines
    PROVE  WordsWhole(reply[e].lines[l])
<1> DEFINE text == reply[e].lines[l]
<1>1. PICK m : Screen(Cols, Rows, glyphs, reply, m, strs)
  BY ScreenIs
<1>2. Cols \in Nat /\ Len(text) \in Nat /\ DOMAIN text = 1..Len(text)
  BY <1>1, LineOfReply DEF Screen
<1>3. ASSUME NEW w \in WordsOf(text), w[2] - w[1] < Cols,
             NEW j \in w[1]..w[2], NEW k \in w[1]..w[2], j <= k,
             Shown(text[j]), Shown(text[k]), text[j] > 0, text[k] > 0
      PROVE  RowOf(text[j]) = RowOf(text[k])
  <2> SUFFICES ASSUME RowOf(text[j]) # RowOf(text[k]) PROVE FALSE
    OBVIOUS
  <2>1. j \in Nat /\ k \in Nat /\ j \in 1..Len(text) /\ k \in 1..Len(text)
    BY <1>2, <1>3, WordInLine
  <2>2. PICK r : RowsApart(m, e, l, j, k, r)
    BY <1>1, <1>3, <2>1, ApartIsCut
  <2>3. /\ CutLine(Cols, m.rows[e][l], m.at[e][l], m.lines[e][l], text)
        /\ CutBetween(m.rows[e][l], m.at[e][l], m.lines[e][l], r, j, k)
        /\ m.rows[e][l] \in Seq(Seq(Ink(glyphs))) /\ m.lines[e][l] \in Seq(Ink(glyphs))
    BY <2>2 DEF RowsApart
  <2> HIDE DEF text
  <2> QED BY <1>2, <1>3, <2>3, CutWordIsLong
<1> SUFFICES ASSUME NEW w \in WordsOf(text), w[2] - w[1] < Cols,
                    NEW j \in w[1]..w[2], NEW k \in w[1]..w[2],
                    Shown(text[j]), Shown(text[k]), text[j] > 0, text[k] > 0
             PROVE  RowOf(text[j]) = RowOf(text[k])
  BY DEF WordsWhole
<1>4. j \in Nat /\ k \in Nat
  BY <1>2, WordInLine
<1>5. CASE j <= k
  BY <1>3, <1>5
<1>6. CASE k <= j
  <2>1. RowOf(text[k]) = RowOf(text[j])
    BY <1>3, <1>6
  <2> QED BY <2>1
<1> QED BY <1>4, <1>5, <1>6

\* A word that begins a row without a line break would not have fitted the row before.
LEMMA RowsAreFilled ==
    ASSUME TextInv, strs # <<>>, NEW e \in DOMAIN reply, NEW l \in DOMAIN reply[e].lines
    PROVE  RowsFilled(reply[e].lines[l])
<1> DEFINE text == reply[e].lines[l]
<1>1. PICK m : Screen(Cols, Rows, glyphs, reply, m, strs)
  BY ScreenIs
<1>2. Cols \in Nat /\ Len(text) \in Nat /\ DOMAIN text = 1..Len(text)
  BY <1>1, LineOfReply DEF Screen
<1> SUFFICES ASSUME NEW v \in WordsOf(text), NEW w \in WordsOf(text),
                    v[2] < w[1],
                    \A k \in (v[2] + 1)..(w[1] - 1) : ~Visible(text[k]) /\ text[k] # Newline,
                    text[v[2]] > 0, text[w[1]] > 0, Shown(text[v[2]]), Shown(text[w[1]]),
                    RowOf(text[v[2]]) # RowOf(text[w[1]])
             PROVE  ColOf(text[v[2]]) + (w[2] - v[2]) > Cols
  BY DEF RowsFilled
<1> DEFINE j == v[2]
           k == w[1]
<1>3. j \in Nat /\ k \in Nat /\ j \in 1..Len(text) /\ k \in 1..Len(text) /\ j < k
  <2>1. v[1] \in Nat /\ v[2] \in Nat /\ v[1] <= v[2] /\ w[1] \in Nat /\ w[2] \in Nat /\ w[1] <= w[2]
    BY <1>2, WordInLine
  <2>2. j \in v[1]..v[2] /\ k \in w[1]..w[2]
    BY <2>1
  <2>3. j \in 1..Len(text)
    BY <1>2, <2>2, WordInLine
  <2>4. k \in 1..Len(text)
    BY <1>2, <2>2, WordInLine
  <2> QED BY <2>1, <2>3, <2>4
<1>4. /\ \A i \in (j + 1)..(k - 1) : ~Visible(text[i])
      /\ text[j] > 0 /\ text[k] > 0 /\ Shown(text[j]) /\ Shown(text[k])
      /\ RowOf(text[j]) # RowOf(text[k]) /\ k = w[1]
  OBVIOUS
<1> HIDE DEF j, k
<1>5. PICK r : RowsApart(m, e, l, j, k, r)
  <2>1. j <= k
    BY <1>3
  <2> QED BY <1>1, <1>3, <1>4, <2>1, ApartIsCut
<1>6. /\ CutLine(Cols, m.rows[e][l], m.at[e][l], m.lines[e][l], text)
      /\ CutBetween(m.rows[e][l], m.at[e][l], m.lines[e][l], r, j, k)
      /\ m.rows[e][l] \in Seq(Seq(Ink(glyphs))) /\ m.lines[e][l] \in Seq(Ink(glyphs))
      /\ ColOf(text[j]) = j - m.at[e][l][r]
  BY <1>5 DEF RowsApart
<1> HIDE DEF text
<1>7. (j - m.at[e][l][r]) + (w[2] - j) > Cols
  BY <1>2, <1>3, <1>4, <1>6, CutIsGreedy
<1> QED BY <1>6, <1>7 DEF j, text

\* Words that fit a row are never cut, rows are filled greedily, and entries have pages and
\* lines rows of their own (wrap_text, layout_pages).
THEOREM LinesAlwaysAsWritten == Spec => []LinesAsWritten
<1>1. TextInv => LinesAsWritten
  <2> SUFFICES ASSUME TextInv, strs # <<>>
               PROVE  /\ \A e \in DOMAIN reply : \A l \in DOMAIN reply[e].lines :
                           WordsWhole(reply[e].lines[l]) /\ RowsFilled(reply[e].lines[l])
                      /\ \A x, y \in Places :
                           Shown(GlyphAt(x)) /\ Shown(GlyphAt(y)) =>
                             /\ x[1] < y[1] => PageOf(GlyphAt(x)) < PageOf(GlyphAt(y))
                             /\ x[1] = y[1] /\ x[2] < y[2] =>
                                  RowOf(GlyphAt(y)) - RowOf(GlyphAt(x)) >= y[2] - x[2]
    BY Zenon DEF LinesAsWritten
  <2>1. \A e \in DOMAIN reply : \A l \in DOMAIN reply[e].lines :
          WordsWhole(reply[e].lines[l]) /\ RowsFilled(reply[e].lines[l])
    BY WordsAreWhole, RowsAreFilled
  <2>2. \A x, y \in Places :
          Shown(GlyphAt(x)) /\ Shown(GlyphAt(y)) =>
            /\ x[1] < y[1] => PageOf(GlyphAt(x)) < PageOf(GlyphAt(y))
            /\ x[1] = y[1] /\ x[2] < y[2] =>
                 RowOf(GlyphAt(y)) - RowOf(GlyphAt(x)) >= y[2] - x[2]
    BY PlacesApart
  <2> QED BY <2>1, <2>2
<1> QED BY <1>1, TextInvariant, PTL

=============================================================================

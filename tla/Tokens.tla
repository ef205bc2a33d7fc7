------------------------------- MODULE Tokens -------------------------------
(***************************************************************************)
(* The token translation of a calculator string (src/tokens.py): how       *)
(* tokens_to_ascii reads the bytes of Str1 (text) and Str2 (math), with    *)
(* the "*" it puts between juxtaposed values.                              *)
(*                                                                         *)
(* A byte is named for the token it is, one for each kind the code tells   *)
(* apart; a decoded string is the sequence of its pieces, named likewise,  *)
(* with "*" among them.                                                    *)
(***************************************************************************)
EXTENDS Integers, Sequences, SequencesExt

\* "low" and "mid" are bytes that index the tables of two-byte tokens (0..5 and
\* 6..9) and are no tokens themselves.  "numbered" is the lead byte of L1, Pic1,
\* GDB1 or Str1; "extended" one whose second byte has no table.
LeadBytes == {"list", "numbered", "matrix", "extended"}
Singles == {"letter", "digit", "pi", "function", "(", ")", "power", "+"}
Bytes == LeadBytes \cup Singles \cup {"low", "mid"}

\* _TWO_BYTE_TO_ASCII
Table(prefix) ==
    CASE prefix = "list" -> {"low"}
      [] prefix \in {"numbered", "matrix"} -> {"low", "mid"}
      [] OTHER -> {}

TwoBytePiece(prefix, sub) == IF sub \in Table(prefix) THEN prefix ELSE "?"
OneBytePiece(b) == IF b \in Singles THEN b ELSE "?"

-----------------------------------------------------------------------------
(* The first and the last character of a piece.                            *)

StartsAlnum == {"letter", "digit", "pi", "function", "list", "numbered"}
EndsInDigit == {"digit", "power", "list", "numbered"}
EndsAlnum == EndsInDigit \cup {"letter", "pi"}

IsProducer(mode, piece) ==
    piece \in (IF mode = "math" THEN EndsAlnum \cup {")", "matrix"} ELSE EndsInDigit)

IsValueStarter(piece) == piece \in StartsAlnum \cup {"(", "matrix"}

Starred(mode, last, piece) ==
    /\ IsProducer(mode, last) /\ IsValueStarter(piece)
    /\ ~(last \in EndsInDigit /\ piece = "digit")

Emit(mode, acc, piece) ==
    [out |-> acc.out \o (IF Starred(mode, acc.last, piece) THEN <<"*">> ELSE <<>>) \o <<piece>>,
     last |-> piece, lead |-> "none"]

\* Mutant of Read: an unknown second byte is read again as a token.
ReadAgain(mode, acc, b) ==
    IF acc.lead = "none"
    THEN IF b \in LeadBytes THEN [acc EXCEPT !.lead = b] ELSE Emit(mode, acc, OneBytePiece(b))
    ELSE LET done == Emit(mode, acc, TwoBytePiece(acc.lead, b))
         IN IF b \in Table(acc.lead) THEN done ELSE Emit(mode, done, OneBytePiece(b))

\* One byte: a prefix waits for the next, which it consumes whatever it is.
Read(mode, acc, b) ==
    IF acc.lead # "none" THEN Emit(mode, acc, TwoBytePiece(acc.lead, b))
    ELSE IF b \in LeadBytes THEN [acc EXCEPT !.lead = b]
    ELSE Emit(mode, acc, OneBytePiece(b))

TokensToAscii(mode, bytes) ==
    LET end == FoldLeft(LAMBDA acc, b : Read(mode, acc, b),
                        [out |-> <<>>, last |-> "none", lead |-> "none"], bytes)
    IN  IF end.lead = "none" THEN end.out ELSE Emit(mode, end, "?").out

-----------------------------------------------------------------------------
(* The reference: where the tokens of a string begin, and what they are.   *)

\* A byte begins a token when an even number of prefixes stands just before it.
Starts(bytes) ==
    {i \in DOMAIN bytes : \E k \in 0..(i - 1) :
        /\ k % 2 = 0 /\ \A j \in (i - k)..(i - 1) : bytes[j] \in LeadBytes
        /\ i - k > 1 => bytes[i - k - 1] \notin LeadBytes}

TokenAt(bytes, i) ==
    IF bytes[i] \notin LeadBytes THEN OneBytePiece(bytes[i])
    ELSE IF i < Len(bytes) THEN TwoBytePiece(bytes[i], bytes[i + 1]) ELSE "?"

\* Values of TI-BASIC, as a token may end and begin one.
ClosesValue == {"letter", "digit", "pi", "list", "numbered", "matrix", ")", "power"}
OpensValue == {"letter", "digit", "pi", "list", "numbered", "matrix", "(", "function"}

\* In math mode "*" stands between juxtaposed values, in text mode only after a
\* digit; the digits of one number stay together.
Juxtaposed(mode, a, b) ==
    /\ b \in OpensValue /\ ~(a = "digit" /\ b = "digit")
    /\ a \in (IF mode = "math" THEN ClosesValue ELSE EndsInDigit)

\* Where a digit follows a token of another kind that ends in one, as in X^2 before 3
\* or L1 before 2: the code puts no "*" there, its comments ask for one.
TokenBefore(bytes, i) == TokenAt(bytes, IF i - 1 \in Starts(bytes) THEN i - 1 ELSE i - 2)
Disputed(bytes) ==
    {i \in Starts(bytes) : /\ i > 1 /\ TokenAt(bytes, i) = "digit"
                           /\ TokenBefore(bytes, i) \in EndsInDigit \ {"digit"}}

\* What the byte at i shows: its token, after "*" or not, if a token begins there;
\* "bare" are places without a "*" though values are juxtaposed.
Shows(mode, bytes, i, bare) ==
    IF i \notin Starts(bytes) THEN <<>>
    ELSE IF i > 1 /\ i \notin bare /\ Juxtaposed(mode, TokenBefore(bytes, i), TokenAt(bytes, i))
         THEN <<"*", TokenAt(bytes, i)>>
         ELSE <<TokenAt(bytes, i)>>

=============================================================================

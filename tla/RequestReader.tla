---------------------------- MODULE RequestReader ---------------------------
(***************************************************************************)
(* read_request_line() of the daemon: one record of at most Limit bytes at *)
(* a time out of a stream that arrives in pieces of any size. A record     *)
(* that is longer is read to its newline and refused, and the record after *)
(* it read.                                                                *)
(*                                                                         *)
(* A byte is what the reader tells apart: "n" a newline, "r" a carriage    *)
(* return, "z" one that is not UTF-8, "x" any other.                       *)
(***************************************************************************)
EXTENDS Integers, Sequences, SequencesExt, FiniteSetsExt

CONSTANTS
  Limit,     \* MAX_REQUEST_LINE_BYTES
  MaxStream  \* bound: bytes on stdin

ASSUME ReaderAssumption == Limit \in Nat /\ MaxStream \in Nat

Bytes == {"n", "r", "z", "x"}

VARIABLES
  stream,     \* everything the editor writes before it closes stdin
  taken,      \* bytes of it consumed
  kept,       \* `bytes`: the record so far
  tooLong,    \* `too_long`
  records,    \* the records returned
  inputEnded  \* None was returned

readerVars == <<stream, taken, kept, tooLong, records, inputEnded>>

Record(line) == [line |-> line]
TooLongError == [error |-> "too long"]
NotTextError == [error |-> "not UTF-8"]

\* finish_request_line()
Finished(bytes, over) ==
  LET line == IF bytes # << >> /\ Last(bytes) = "r" THEN Front(bytes) ELSE bytes
  IN  IF over \/ Len(line) > Limit THEN TooLongError
      ELSE IF "z" \in Range(line) THEN NotTextError ELSE Record(line)

\* A plausible slip: no room is kept for the carriage return.
OverflowsAtLimit(bytes, more) == Len(bytes) + Len(more) > Limit

\* Whether a record with this much more is longer than any that could be returned:
\* one byte is kept beyond the limit, for the carriage return.
Overflows(bytes, more) == Len(bytes) + Len(more) > Limit + 1

\* A piece of the stream is there; what it holds of the record is taken, to the
\* newline and over it when there is one.
Fill(size) ==
  LET piece == SubSeq(stream, taken + 1, taken + size)
      stops == {i \in DOMAIN piece : piece[i] = "n"}
      more  == IF stops = {} THEN piece ELSE SubSeq(piece, 1, Min(stops) - 1)
      over  == tooLong \/ Overflows(kept, more)
      all   == IF over THEN << >> ELSE kept \o more
  IN  /\ ~inputEnded /\ size \in 1..(Len(stream) - taken)
      /\ UNCHANGED <<stream, inputEnded>>
      /\ \/ /\ stops = {}
            /\ taken' = taken + size
            /\ kept' = all /\ tooLong' = over
            /\ UNCHANGED records
         \/ /\ stops # {}
            /\ taken' = taken + Min(stops)
            /\ records' = Append(records, Finished(all, over))
            /\ kept' = << >> /\ tooLong' = FALSE

\* Stdin is closed: what is there of a record is one.
EndOfStream ==
  /\ ~inputEnded /\ taken = Len(stream)
  /\ IF kept = << >> /\ ~tooLong
     THEN /\ inputEnded' = TRUE
          /\ UNCHANGED <<kept, tooLong, records>>
     ELSE /\ records' = Append(records, Finished(kept, tooLong))
          /\ kept' = << >> /\ tooLong' = FALSE
          /\ UNCHANGED inputEnded
  /\ UNCHANGED <<stream, taken>>

ReaderInit ==
  /\ stream \in UNION {[1..n -> Bytes] : n \in 0..MaxStream}
  /\ taken = 0 /\ kept = << >> /\ tooLong = FALSE /\ records = << >> /\ inputEnded = FALSE

ReaderNext == EndOfStream \/ \E size \in 1..MaxStream : Fill(size)

ReaderSpec == ReaderInit /\ [][ReaderNext]_readerVars

-----------------------------------------------------------------------------
(* Properties.                                                             *)

\* The lines of a whole text, the way an editor that writes them means them.
Newlines(s) == {i \in DOMAIN s : s[i] = "n"}
LineBefore(s, stop) ==
  LET start == 1 + Max({0} \union {i \in Newlines(s) : i < stop})
  IN  SubSeq(s, start, stop - 1)
Unterminated(s) == LineBefore(s, Len(s) + 1)

Meant(line) ==
  LET text == IF line # << >> /\ Last(line) = "r" THEN Front(line) ELSE line
  IN  IF Len(text) > Limit THEN TooLongError
      ELSE IF "z" \in Range(text) THEN NotTextError ELSE Record(text)

Lines(s) ==
  [i \in 1..Cardinality(Newlines(s)) |->
     Meant(LineBefore(s, CHOOSE n \in Newlines(s) :
                           Cardinality({m \in Newlines(s) : m <= n}) = i))]

\* However the bytes come, the records are the lines of the stream: none is split at
\* a piece's edge, merged with the next or lost after one that was too long, a
\* record of exactly the limit is taken with either line ending, and what is kept in
\* memory is never more than a byte over the limit (read_request_line()).
RecordsAreLines ==
  /\ Len(kept) <= Limit + 1
  /\ inputEnded \/ taken = Len(stream) \/ IsPrefix(records, Lines(stream))
  /\ inputEnded => records = Lines(stream)
                 \o (IF Unterminated(stream) = << >> THEN << >>
                     ELSE << Meant(Unterminated(stream)) >>)
=============================================================================

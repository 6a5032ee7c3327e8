---------------------------- MODULE TraceReader ----------------------------
(***************************************************************************)
(* The streaming trace parser (class TraceReader in include/trace.hpp and    *)
(* src/trace.cpp).  A file is a sequence of kinds of bytes:                  *)
(*                                                                         *)
(*   "op"  one of R W L N     "0" "x" "digit"   what operands are made of    *)
(*   "nl"  end of line        "blank"           space or tab                 *)
(*   "#"   starts a comment   "cr" "other"      return; any other byte       *)
(*                                                                         *)
(* A record is the radix and the number of digits of its operand, which is    *)
(* enough to tell an operand that was cut short.  window is the part of       *)
(* buffer_ from pos_ to end_: what has been read and not yet parsed.          *)
(*                                                                         *)
(* The specification has a name of its own, ReaderSpec, so that the theorems   *)
(* about it can stand beside those about the configuration.                  *)
(***************************************************************************)
EXTENDS Integers, FiniteSets, SequencesExt

CONSTANTS Files,            \* the trace files
          MaxRecordBytes,   \* kMaxRecordBytes
          BufferSize,       \* kBufferSize
          ShortReads        \* whether a read may return less than there is

ASSUME ReaderAssumption ==
  /\ MaxRecordBytes \in Nat \ {0}
  /\ BufferSize \in Nat /\ BufferSize >= MaxRecordBytes
  /\ ShortReads \in BOOLEAN

VARIABLES file,        \* the whole file, never changed
          rest,        \* what fread has not returned yet
          window,      \* what is in the buffer
          exhausted,   \* exhausted_
          line,        \* line_
          records,     \* history: the records returned so far
          phase        \* "next" in next(), "comment" in skip_comment(), then
                       \* "end" (next returned false) or "failed" (it threw)

readerVars == <<file, rest, window, exhausted, line, records, phase>>

Digits   == {"0", "digit"}
Leading  == {"nl", "blank", "cr"}
Bytes    == Leading \union Digits \union {"op", "x", "#", "other"}

ASSUME FilesAssumption == Files \subseteq Seq(Bytes)

Drop(s, n) == SubSeq(s, n + 1, Len(s))

\* The length of the longest prefix made of these kinds of bytes.
Span(s, kinds) ==
  CHOOSE n \in 0 .. Len(s) : /\ \A i \in 1 .. n : s[i] \in kinds
                             /\ n < Len(s) => s[n + 1] \notin kinds

Newlines(s) == Cardinality({i \in DOMAIN s : s[i] = "nl"})

ReaderInit == /\ file \in Files
              /\ rest = file
              /\ window = <<>>
              /\ exhausted = FALSE
              /\ line = 1
              /\ records = <<>>
              /\ phase = "next"

-----------------------------------------------------------------------------
(* What a record looks like, where it begins.                               *)

\* What follows the type and the blanks after it.
Operand(s) == LET tail == Tail(s) IN Drop(tail, Span(tail, {"blank"}))

IsHex(s) == LET p == Operand(s) IN Len(p) >= 2 /\ p[1] = "0" /\ p[2] = "x"

DigitCount(s) ==
  Span(IF IsHex(s) THEN Drop(Operand(s), 2) ELSE Operand(s), Digits)

RecordAt(s) == [hex |-> IsHex(s), digits |-> DigitCount(s)]

WellFormed(s) == s[1] = "op" /\ DigitCount(s) > 0

-----------------------------------------------------------------------------
(* The buffer.                                                              *)

\* Mutant: a single read is made, a short one taken for all there is.
ReadsOnce(wanted) ==
  IF Len(window) >= wanted \/ exhausted THEN {0}
  ELSE {got \in 0 .. Len(rest) : got <= BufferSize - Len(window)
                                 /\ (rest # <<>> => got > 0)}

\* What ensure(wanted) may read.  Each read asks for all the room that is left,
\* and they go on until enough is there or one of them returns nothing.
Reads(wanted) ==
  IF Len(window) >= wanted \/ exhausted THEN {0}
  ELSE LET room == BufferSize - Len(window)
       IN  {got \in 0 .. Len(rest) :
              /\ got <= room
              /\ got = Len(rest) \/ Len(window) + got >= wanted
              /\ ShortReads \/ got = Len(rest) \/ got = room}

\* The unparsed bytes are moved to the front and the new ones follow them.
Refilled(got) == window \o SubSeq(rest, 1, got)

Consume(got, wanted) ==
  /\ rest' = Drop(rest, got)
  /\ exhausted' = (exhausted \/ Len(window) + got < wanted)
  /\ UNCHANGED file

-----------------------------------------------------------------------------
(* One turn of the loop of next(), with w buffered.                         *)

EndOfFile(w) == /\ w = <<>>
                /\ phase' = "end"
                /\ UNCHANGED <<window, line, records>>

\* The text after the blanks w starts with, and the lines these end.
Body(w)    == Drop(w, Span(w, Leading))
Skipped(w) == Newlines(SubSeq(w, 1, Span(w, Leading)))

\* Mutant: the position is not moved when there was nothing but blanks.
OnlyBlanksAgain(w) == /\ w # <<>> /\ Body(w) = <<>>
                      /\ window' = w
                      /\ UNCHANGED <<line, records, phase>>

OnlyBlanks(w) == /\ w # <<>> /\ Body(w) = <<>>
                 /\ window' = <<>>
                 /\ line' = line + Skipped(w)
                 /\ UNCHANGED <<records, phase>>

StartComment(w) == /\ Body(w) # <<>> /\ Body(w)[1] = "#"
                   /\ window' = Body(w)
                   /\ line' = line + Skipped(w)
                   /\ phase' = "comment"
                   /\ UNCHANGED records

\* Past the end of the line, or of what is buffered.
AfterLine(s) == Drop(s, Span(s, Bytes \ {"nl"}) + 1)

ReturnRecord(w) == /\ Body(w) # <<>> /\ WellFormed(Body(w))
                   /\ records' = Append(records, RecordAt(Body(w)))
                   /\ window' = AfterLine(Body(w))
                   /\ line' = line + Skipped(w)
                              + (IF "nl" \in ToSet(Body(w)) THEN 1 ELSE 0)
                   /\ UNCHANGED phase

Reject(w) == /\ Body(w) # <<>> /\ Body(w)[1] # "#" /\ ~WellFormed(Body(w))
             /\ window' = Body(w)
             /\ line' = line + Skipped(w)
             /\ phase' = "failed"
             /\ UNCHANGED records

NextTurn == /\ phase = "next"
            /\ \E got \in Reads(MaxRecordBytes) :
                 LET w == Refilled(got)
                 IN  /\ Consume(got, MaxRecordBytes)
                     /\ \/ EndOfFile(w) \/ OnlyBlanks(w) \/ StartComment(w)
                        \/ ReturnRecord(w) \/ Reject(w)

\* One turn of the loop of skip_comment(): to the end of the line, if it is
\* buffered, and else to the end of what is.
CommentTurn == /\ phase = "comment"
               /\ \E got \in Reads(1) :
                    LET w == Refilled(got)
                    IN  /\ Consume(got, 1)
                        /\ window' = AfterLine(w)
                        /\ IF "nl" \in ToSet(w)
                           THEN line' = line + 1 /\ phase' = "next"
                           ELSE /\ UNCHANGED line
                                /\ phase' = IF w = <<>> THEN "next" ELSE "comment"
               /\ UNCHANGED records

ReaderNext == NextTurn \/ CommentTurn

ReaderSpec == ReaderInit /\ [][ReaderNext]_readerVars /\ WF_readerVars(ReaderNext)

-----------------------------------------------------------------------------
(* The meaning of a file, line by line and without a buffer.                *)

\* A line is known by the place of its first byte.
LineStarts(f) == {p \in 1 .. Len(f) + 1 : p > 1 => f[p - 1] = "nl"}

Line(f, p) == LET tail == Drop(f, p - 1) IN SubSeq(tail, 1, Span(tail, Bytes \ {"nl"}))

LineNumber(f, p) == Cardinality({q \in LineStarts(f) : q <= p})

Meaningful(text) == Body(text) # <<>> /\ Body(text)[1] # "#"
Malformed(text)  == Meaningful(text) /\ ~WellFormed(Body(text))

\* No line before this one is malformed.
FineBefore(f, p) == \A q \in LineStarts(f) : q < p => ~Malformed(Line(f, q))

\* The lines that hold the records, and the number of the record in one of them.
RecordLines(f) ==
  {p \in LineStarts(f) : FineBefore(f, p + 1) /\ Meaningful(Line(f, p))}

RecordNumber(f, p) == Cardinality({q \in RecordLines(f) : q <= p})

\* Every line that means something, with the blanks and the empty lines before it,
\* fits the look-ahead of next().
FitsLookAhead(f) ==
  \A p \in LineStarts(f) :
    LET tail   == Drop(f, p - 1)
        blanks == Span(tail, Leading)
        text   == Drop(tail, blanks)
    IN  text # <<>> /\ text[1] # "#"
        => blanks + Span(text, Bytes \ {"nl"}) + 1 <= MaxRecordBytes

-----------------------------------------------------------------------------
(* Properties.                                                              *)

\* Wherever the buffer boundaries fall and however short the reads are, the
\* records returned are those of the lines of the file, in order, and what is
\* rejected is a malformed line, the first one, reported by its number.
FaithfulParse ==
  /\ Len(records) <= Cardinality(RecordLines(file))
  /\ \A p \in RecordLines(file) :
       RecordNumber(file, p) <= Len(records)
       => records[RecordNumber(file, p)] = RecordAt(Body(Line(file, p)))
  /\ phase \in {"end", "failed"} => Len(records) = Cardinality(RecordLines(file))
  /\ phase = "end" => FineBefore(file, Len(file) + 2)
  /\ phase = "failed" =>
       \E p \in LineStarts(file) :
         /\ Malformed(Line(file, p)) /\ FineBefore(file, p)
         /\ line = LineNumber(file, p)

\* "Buffering this much means a whole record is present unless the file really has
\* ended there" (the comment of next()): what is rejected because its operand is
\* missing has none in the file either.
WholeRecordPresent ==
  phase = "failed" /\ window[1] = "op"
  => \E p \in LineStarts(file) : LineNumber(file, p) = line /\ Malformed(Line(file, p))

\* The simulator's loop ends: every file is read to its end or rejected, even
\* when it ends inside a comment, in blanks, or without a newline.
Terminates == <>(phase \in {"end", "failed"})
=============================================================================

----------------------------- MODULE FileFormat -----------------------------
(***************************************************************************)
(* The readers and writers of file_operations.hpp, on one file: binary, or *)
(* hexadecimal as proofs are.  A stream reaches the disk in chunks, and is *)
(* read in chunks, while the next writer may truncate the file already;    *)
(* a writer may die.                                                       *)
(*                                                                         *)
(* A file is a sequence of symbols: bytes, or digits and the "x" of "0x".  *)
(* HexUnpadded, OpenInPlace, WholeFile and DeliverPadded are mistaken      *)
(* versions of the definitions they precede.                               *)
(***************************************************************************)
EXTENDS Integers, Sequences

CONSTANTS
    Base,       \* of the digits: 16
    Vector,     \* the byte vectors that are written
    Absent, None, \* no such file; no vector (std::nullopt, or an exception)
    MaxWrites, MaxReads

Byte == 0..(Base * Base - 1)
Digit == 0..(Base - 1)
X == Base

ASSUME FileFormatAssumption ==
    /\ Base \in Nat \ {0, 1}
    /\ Vector \subseteq Seq(Byte)
    /\ Absent \notin Seq(Nat) /\ None \notin Seq(Nat)
    /\ MaxWrites \in Nat /\ MaxReads \in Nat

VARIABLES
    hex,      \* the format of the file
    file,
    writer,   \* "none", "writing", "done" or "killed"
    data,     \* the vector of the last writer
    reader,   \* "idle", "reading" or "read"
    size,     \* the file's size when it was opened, if it is binary
    got,      \* the symbols read so far
    result,   \* what the last reader returned
    writes, reads, \* counters, for the bounds
    calm,     \* history: nobody wrote while the last reader read
    written   \* history: the vectors of all writers

vars == <<hex, file, writer, data, reader, size, got, result, writes, reads, calm, written>>
writing == <<writer, data, writes, written>>
reading == <<reader, size, got, result, reads>>

-----------------------------------------------------------------------------
HexUnpadded(v) ==
    LET digits(b) == IF b < Base THEN <<b>> ELSE <<b \div Base, b % Base>>
        text[n \in 0..Len(v)] == IF n = 0 THEN <<0, X>> ELSE text[n - 1] \o digits(v[n])
    IN text[Len(v)]

(* "0x", and two digits for every byte.                                    *)
Hex(v) ==
    <<0, X>> \o [k \in 1..2 * Len(v) |-> LET b == v[(k + 1) \div 2]
                                         IN IF k % 2 = 1 THEN b \div Base ELSE b % Base]

Encoded(v) == IF hex THEN Hex(v) ELSE v

(* One line, or none at all; the last digit may be alone.                  *)
FromHex(t) ==
    IF t = <<>> THEN <<>>
    ELSE IF Len(t) >= 3 /\ t[1] = 0 /\ t[2] = X
    THEN [n \in 1..(Len(t) - 1) \div 2 |->
             IF 2 * n + 2 <= Len(t) THEN t[2 * n + 1] * Base + t[2 * n + 2] ELSE t[2 * n + 1]]
    ELSE None

-----------------------------------------------------------------------------
Init ==
    /\ hex \in BOOLEAN
    /\ file = Absent
    /\ writer = "none" /\ data = <<>>
    /\ reader = "idle" /\ size = 0 /\ got = <<>> /\ result = None
    /\ writes = 0 /\ reads = 0
    /\ calm = FALSE
    /\ written = {}

OpenInPlace(v) ==
    /\ writer # "writing"
    /\ writes < MaxWrites
    /\ writes' = writes + 1
    /\ file' = IF file = Absent THEN <<>> ELSE file
    /\ writer' = "writing" /\ data' = v /\ written' = written \cup {v}
    /\ calm' = FALSE
    /\ UNCHANGED <<hex, reading>>

OpenToWrite(v) ==
    /\ writer # "writing"
    /\ writes < MaxWrites
    /\ writes' = writes + 1
    /\ file' = <<>>
    /\ writer' = "writing" /\ data' = v /\ written' = written \cup {v}
    /\ calm' = FALSE
    /\ UNCHANGED <<hex, reading>>

(* A part of the stream's buffer goes to the disk; at the end all of it.   *)
Flush ==
    /\ writer = "writing"
    /\ \E n \in Len(file)..Len(Encoded(data)) :
          /\ file' = SubSeq(Encoded(data), 1, n)
          /\ writer' = IF n = Len(Encoded(data)) THEN "done" ELSE "writing"
    /\ calm' = FALSE
    /\ UNCHANGED <<hex, data, writes, written, reading>>

Kill ==
    /\ writer = "writing"
    /\ writer' = "killed"
    /\ UNCHANGED <<hex, file, data, writes, written, calm, reading>>

(* A binary file is measured, then read from the start.                    *)
OpenToRead ==
    /\ reader # "reading"
    /\ reads < MaxReads
    /\ reads' = reads + 1
    /\ got' = <<>>
    /\ IF file = Absent
       THEN reader' = "read" /\ result' = None /\ size' = 0
       ELSE reader' = "reading" /\ UNCHANGED result /\ size' = IF hex THEN 0 ELSE Len(file)
    /\ calm' = (writer # "writing")
    /\ UNCHANGED <<hex, file, writing>>

WholeFile == Len(file)

End == IF hex \/ Len(file) < size THEN Len(file) ELSE size

ReadChunk ==
    /\ reader = "reading"
    /\ \E n \in Len(got) + 1..End : got' = got \o SubSeq(file, Len(got) + 1, n)
    /\ UNCHANGED <<hex, file, reader, size, result, reads, calm, writing>>

DeliverPadded ==
    /\ reader = "reading"
    /\ Len(got) >= End
    /\ reader' = "read"
    /\ result' = IF hex THEN FromHex(got)
                 ELSE [k \in 1..size |-> IF k <= Len(got) THEN got[k] ELSE 0]
    /\ UNCHANGED <<hex, file, size, got, reads, calm, writing>>

(* The end of the file: stream.fail() after less than the size measured.   *)
Deliver ==
    /\ reader = "reading"
    /\ Len(got) >= End
    /\ reader' = "read"
    /\ result' = IF hex THEN FromHex(got) ELSE IF Len(got) < size THEN None ELSE got
    /\ UNCHANGED <<hex, file, size, got, reads, calm, writing>>

Next ==
    \/ \E v \in Vector : OpenToWrite(v)
    \/ Flush \/ Kill \/ OpenToRead \/ ReadChunk \/ Deliver

Spec == Init /\ [][Next]_vars

-----------------------------------------------------------------------------
(* A file has symbols of its format, a reader has read no more than there  *)
(* was, and what it returns are bytes.                                     *)
TypeOK ==
    /\ file \in {Absent} \cup Seq(IF hex THEN Digit \cup {X} ELSE Byte)
    /\ writer \in {"none", "writing", "done", "killed"}
    /\ reader \in {"idle", "reading", "read"}
    /\ ~hex => Len(got) <= size
    /\ result = None \/ result \in Seq(Byte)
    /\ writer # "none" => data \in written

(* A complete file is read back as it was written, if nobody writes to it  *)
(* meanwhile.  The exception is the hex file of the empty vector, which is *)
(* written without complaint and refused by the reader.                    *)
ReadBack ==
    reader = "read" /\ calm /\ writer = "done" =>
        result = IF hex /\ data = <<>> THEN None ELSE data

(* Of the data of a writer that died, a binary reader sees a prefix.  A    *)
(* hex reader may see one byte more, namely the first digit of the next:   *)
(* it takes that for the whole byte, and if this was the last one the      *)
(* result is as long as the data and, unless the byte was 0, wrong.        *)
TornIsPrefix ==
    reader = "read" /\ calm /\ writer = "killed" /\ result # None =>
        /\ Len(result) <= Len(data)
        /\ \A k \in 1..Len(result) :
              \/ result[k] = data[k]
              \/ hex /\ k = Len(result) /\ result[k] = data[k] \div Base
        /\ hex /\ result = data =>
              \/ data = <<>> \/ file = Encoded(data)
              \/ data[Len(data)] = 0 /\ Len(file) = Len(Encoded(data)) - 1

(* Whatever writers do during the read, every byte that is returned, or    *)
(* each of its two digits, was written at its place by one of them.        *)
NothingInvented ==
    reader = "read" /\ result # None =>
        \A k \in 1..Len(result) :
            LET there == {v \in written : Len(v) >= k}
            IN IF hex
               THEN \/ \E v, w \in there : result[k] = (v[k] \div Base) * Base + (w[k] % Base)
                    \/ k = Len(result) /\ \E v \in there : result[k] = v[k] \div Base
               ELSE \E v \in there : result[k] = v[k]
=============================================================================

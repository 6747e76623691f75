--------------------------- MODULE FileFormatProofs ---------------------------
(***************************************************************************)
(* Proofs about FileFormat, for any base, any vectors and any number of    *)
(* writers and readers: what a file holds is a prefix of what its last     *)
(* writer writes, and what a reader has is there, or was once.             *)
(***************************************************************************)
EXTENDS FileFormat, TLAPS

-----------------------------------------------------------------------------
(* The inductive invariant.  Symbols of s are those of t, as far as it     *)
(* goes.                                                                   *)
Starts(s, t) == Len(s) <= Len(t) /\ \A k \in 1..Len(s) : s[k] = t[k]

Symbol == IF hex THEN Digit \cup {X} ELSE Byte

Decoded(t) == IF hex THEN FromHex(t) ELSE t

(* The file is a prefix of what the last writer writes.                    *)
FileFits ==
    /\ file \in {Absent} \cup Seq(Symbol)
    /\ writer \in {"none", "writing", "done", "killed"}
    /\ written \subseteq Vector
    /\ writer = "none" <=> file = Absent
    /\ writer # "none" => data \in written /\ Starts(file, Encoded(data))
    /\ writer = "done" => file = Encoded(data)

(* Every symbol that has been read was written at its place by someone.    *)
GotWritten ==
    /\ got \in Seq(Symbol)
    /\ \A k \in 1..Len(got) : \E v \in written : k <= Len(Encoded(v)) /\ got[k] = Encoded(v)[k]
    /\ size \in Nat
    /\ ~hex => Len(got) <= size
    /\ reader = "reading" => writer # "none"

(* A reader nobody disturbs has what the file has.                         *)
CalmReader ==
    calm =>
        /\ writer # "writing"
        /\ reader = "reading" => /\ file # Absent /\ Starts(got, file)
                                 /\ ~hex => size = Len(file)
        /\ reader = "read" => result = IF file = Absent THEN None ELSE Decoded(file)

Delivered ==
    /\ result = None \/ result \in Seq(Byte)
    /\ reader = "read" => result = None \/ result = Decoded(got)

FInv ==
    /\ hex \in BOOLEAN /\ calm \in BOOLEAN
    /\ reader \in {"idle", "reading", "read"}
    /\ FileFits /\ GotWritten /\ CalmReader /\ Delivered

-----------------------------------------------------------------------------
(* Two digits make a byte, and a byte two digits.                          *)
LEMMA Base2 == Base \in Nat /\ Base >= 2 /\ Base * Base \in Nat /\ Base * Base >= Base
<1>1. Base \in Nat /\ Base >= 2 BY FileFormatAssumption DEF FileFormatAssumption
<1> QED BY <1>1, SMT

LEMMA Digits ==
    ASSUME NEW b \in Byte
    PROVE  /\ b \div Base \in Digit /\ b % Base \in Digit
           /\ (b \div Base) * Base + (b % Base) = b
<1>1. b \in Nat /\ b < Base * Base BY Base2 DEF Byte
<1>2. b \div Base \in Int /\ b % Base \in 0..(Base - 1) BY <1>1, Base2
<1>3. b = Base * (b \div Base) + (b % Base) BY <1>1, Base2
<1>4. b \div Base >= 0
    BY <1>1, <1>2, <1>3, Base2
<1>5. b \div Base < Base
    BY <1>1, <1>2, <1>3, Base2
<1> QED BY <1>2, <1>3, <1>4, <1>5, Base2 DEF Digit

LEMMA TwoDigits ==
    ASSUME NEW d \in Digit, NEW e \in Digit
    PROVE  d * Base + e \in Byte /\ d \in Byte
<1>1. d \in Nat /\ e \in Nat /\ d <= Base - 1 /\ e <= Base - 1 BY Base2 DEF Digit
<1>2. d * Base \in Nat /\ d * Base <= (Base - 1) * Base BY <1>1, Base2
<1>3. (Base - 1) * Base = Base * Base - Base BY Base2
<1> QED BY <1>1, <1>2, <1>3, Base2 DEF Byte

(* Only of zero the first digit is the whole byte.                         *)
LEMMA LoneDigit ==
    ASSUME NEW b \in Byte, b \div Base = b
    PROVE  b = 0
<1>1. b \in Nat /\ b % Base \in Nat BY Digits, Base2 DEF Byte, Digit
<1>2. b * Base + (b % Base) = b BY Digits
<1>3. b * Base >= b * 2 BY <1>1, Base2
<1>4. b * Base \in Nat BY <1>1, Base2
<1> QED BY <1>1, <1>2, <1>3, <1>4

-----------------------------------------------------------------------------
(* The hexadecimal text of a vector, and what is read of a prefix of it.   *)
LEMMA HexText ==
    ASSUME NEW v \in Seq(Byte)
    PROVE  /\ Len(Hex(v)) = 2 + 2 * Len(v) /\ Hex(v) \in Seq(Digit \cup {X})
           /\ Hex(v)[1] = 0 /\ Hex(v)[2] = X
           /\ \A n \in 1..Len(v) : /\ Hex(v)[2 * n + 1] = v[n] \div Base
                                   /\ Hex(v)[2 * n + 2] = v[n] % Base
<1> DEFINE c(k) == LET b == v[(k + 1) \div 2] IN IF k % 2 = 1 THEN b \div Base ELSE b % Base
           body == [k \in 1..2 * Len(v) |-> c(k)]
<1>1. Len(v) \in Nat /\ \A n \in 1..Len(v) : v[n] \in Byte OBVIOUS
<1>2. \A k \in 1..2 * Len(v) : (k + 1) \div 2 \in 1..Len(v) BY <1>1
<1>3. ASSUME NEW k \in 1..2 * Len(v) PROVE c(k) \in Digit
  <2>1. v[(k + 1) \div 2] \in Byte BY <1>1, <1>2
  <2> QED BY <2>1, Digits
<1> HIDE DEF c
<1>4. body \in Seq(Digit) /\ Len(body) = 2 * Len(v) BY <1>1, <1>3
<1>5. \A k \in 1..2 * Len(v) : body[k] = c(k) OBVIOUS
<1> HIDE DEF body
<1>6. Hex(v) = <<0, X>> \o body BY DEF Hex, body, c
<1>7. 0 \in Digit /\ <<0, X>> \in Seq(Digit \cup {X}) /\ body \in Seq(Digit \cup {X})
  <2>1. 0 \in Digit BY Base2 DEF Digit
  <2>2. body \in Seq(Digit \cup {X}) BY <1>4
  <2> QED BY <2>1, <2>2
<1>8. Hex(v) \in Seq(Digit \cup {X}) /\ Len(Hex(v)) = 2 + 2 * Len(v)
    BY <1>1, <1>4, <1>6, <1>7
<1>9. Hex(v)[1] = 0 /\ Hex(v)[2] = X BY <1>6, <1>7
<1>10. \A k \in 1..2 * Len(v) : Hex(v)[k + 2] = c(k)
    BY <1>1, <1>4, <1>5, <1>6, <1>7
<1>11. ASSUME NEW n \in 1..Len(v)
       PROVE  Hex(v)[2 * n + 1] = v[n] \div Base /\ Hex(v)[2 * n + 2] = v[n] % Base
  <2>1. 2 * n - 1 \in 1..2 * Len(v) /\ 2 * n \in 1..2 * Len(v) BY <1>1
  <2>2. Hex(v)[2 * n + 1] = c(2 * n - 1) BY <1>10, <2>1
  <2>3. Hex(v)[2 * n + 2] = c(2 * n) BY <1>10, <2>1
  <2>4. (2 * n - 1) % 2 = 1 /\ (2 * n - 1 + 1) \div 2 = n /\ (2 * n) % 2 = 0
        /\ (2 * n + 1) \div 2 = n
      OBVIOUS
  <2> QED BY <2>2, <2>3, <2>4 DEF c
<1> QED BY <1>8, <1>9, <1>11

(* What is read as hexadecimal.                                            *)
LEMMA HexRead ==
    ASSUME NEW t \in Seq(Digit \cup {X}), Len(t) >= 3, t[1] = 0, t[2] = X
    PROVE  LET r == FromHex(t)
           IN /\ Len(r) = (Len(t) - 1) \div 2 /\ DOMAIN r = 1..(Len(t) - 1) \div 2
              /\ r = [n \in DOMAIN r |-> r[n]]
              /\ \A n \in 1..Len(r) :
                    /\ 2 * n + 1 <= Len(t)
                    /\ IF 2 * n + 2 <= Len(t)
                       THEN r[n] = t[2 * n + 1] * Base + t[2 * n + 2]
                       ELSE n = Len(r) /\ r[n] = t[2 * n + 1]
<1> DEFINE m == (Len(t) - 1) \div 2
           b(n) == IF 2 * n + 2 <= Len(t) THEN t[2 * n + 1] * Base + t[2 * n + 2]
                   ELSE t[2 * n + 1]
           r == [n \in 1..m |-> b(n)]
<1>1. Len(t) \in Nat /\ m \in Nat OBVIOUS
<1>2. FromHex(t) = r
  <2>1. t # <<>> OBVIOUS
  <2> QED BY <2>1 DEF FromHex
<1>3. \A n \in 1..m : 2 * n + 1 <= Len(t) /\ (2 * n + 2 <= Len(t) \/ n = m) BY <1>1
<1> HIDE DEF m
<1>4. DOMAIN r = 1..m /\ Len(r) = m /\ r = [n \in DOMAIN r |-> r[n]] BY <1>1
<1>5. \A n \in 1..m : r[n] = b(n) OBVIOUS
<1> QED BY <1>1, <1>2, <1>3, <1>4, <1>5 DEF m

(* The symbols of a text that starts as the texts of vectors do, each at   *)
(* the place it has in one of them.                                        *)
Ours(t, V) ==
    \A k \in 1..Len(t) : \E v \in V : k <= Len(Hex(v)) /\ t[k] = Hex(v)[k]

(* What is read of such a text, byte by byte.                              *)
LEMMA OurBytes ==
    ASSUME NEW V \in SUBSET Seq(Byte), NEW t \in Seq(Digit \cup {X}), Ours(t, V),
           FromHex(t) # None
    PROVE  /\ FromHex(t) \in Seq(Byte)
           /\ t # <<>> => Len(t) >= 3 /\ t[1] = 0 /\ t[2] = X
           /\ \A n \in 1..Len(FromHex(t)) :
                 LET there == {v \in V : Len(v) >= n}
                 IN \/ \E v, w \in there :
                          FromHex(t)[n] = (v[n] \div Base) * Base + (w[n] % Base)
                    \/ n = Len(FromHex(t)) /\ \E v \in there : FromHex(t)[n] = v[n] \div Base
<1>1. CASE t = <<>> BY <1>1 DEF FromHex
<1>2. CASE t # <<>>
  <2>1. Len(t) >= 3 /\ t[1] = 0 /\ t[2] = X BY <1>2, Zenon DEF FromHex
  <2> DEFINE r == FromHex(t)
             there(n) == {v \in V : Len(v) >= n}
  <2>2. /\ Len(r) = (Len(t) - 1) \div 2 /\ DOMAIN r = 1..(Len(t) - 1) \div 2
        /\ r = [n \in DOMAIN r |-> r[n]]
        /\ \A n \in 1..Len(r) :
              /\ 2 * n + 1 <= Len(t)
              /\ IF 2 * n + 2 <= Len(t) THEN r[n] = t[2 * n + 1] * Base + t[2 * n + 2]
                 ELSE n = Len(r) /\ r[n] = t[2 * n + 1]
      BY <2>1, HexRead
  <2> HIDE DEF r
  <2>3. Len(r) \in Nat /\ Len(t) \in Nat BY <2>2
  <2>4. ASSUME NEW n \in 1..Len(r)
        PROVE  /\ r[n] \in Byte
               /\ \/ \E v, w \in there(n) : r[n] = (v[n] \div Base) * Base + (w[n] % Base)
                  \/ n = Len(r) /\ \E v \in there(n) : r[n] = v[n] \div Base
    <3>1. PICK v \in V : 2 * n + 1 <= Len(Hex(v)) /\ t[2 * n + 1] = Hex(v)[2 * n + 1]
      <4>1. 2 * n + 1 \in 1..Len(t) BY <2>2, <2>3
      <4> QED BY <4>1 DEF Ours
    <3>2. v \in there(n) /\ t[2 * n + 1] = v[n] \div Base /\ v[n] \in Byte
      <4>1. v \in Seq(Byte) /\ Len(v) \in Nat /\ n \in Nat BY <2>3
      <4>2. 2 * n + 1 <= 2 + 2 * Len(v) BY <3>1, <4>1, HexText
      <4>3. n <= Len(v) BY <4>1, <4>2
      <4>4. n \in 1..Len(v) BY <4>1, <4>3
      <4>5. Hex(v)[2 * n + 1] = v[n] \div Base BY <4>1, <4>4, HexText
      <4> QED BY <3>1, <4>1, <4>4, <4>5
    <3>3. v[n] \div Base \in Digit BY <3>2, Digits
    <3>4. CASE 2 * n + 2 <= Len(t)
      <4>1. PICK w \in V : 2 * n + 2 <= Len(Hex(w)) /\ t[2 * n + 2] = Hex(w)[2 * n + 2]
        <5>1. 2 * n + 2 \in 1..Len(t) BY <2>3, <3>4
        <5> QED BY <5>1 DEF Ours
      <4>2. w \in there(n) /\ t[2 * n + 2] = w[n] % Base /\ w[n] \in Byte
        <5>1. w \in Seq(Byte) /\ Len(w) \in Nat /\ n \in Nat BY <2>3
        <5>2. 2 * n + 2 <= 2 + 2 * Len(w) BY <4>1, <5>1, HexText
        <5>3. n <= Len(w) BY <5>1, <5>2
        <5>4. n \in 1..Len(w) BY <5>1, <5>3
        <5>5. Hex(w)[2 * n + 2] = w[n] % Base BY <5>1, <5>4, HexText
        <5> QED BY <4>1, <5>1, <5>4, <5>5
      <4>3. w[n] % Base \in Digit BY <4>2, Digits
      <4>4. r[n] = (v[n] \div Base) * Base + (w[n] % Base) BY <2>2, <3>2, <3>4, <4>2
      <4>5. r[n] \in Byte BY <3>3, <4>3, <4>4, TwoDigits
      <4> QED BY <3>2, <4>2, <4>4, <4>5
    <3>5. CASE ~(2 * n + 2 <= Len(t))
      <4>1. n = Len(r) /\ r[n] = v[n] \div Base BY <2>2, <3>2, <3>5
      <4>2. r[n] \in Byte
        <5>1. 0 \in Digit BY Base2 DEF Digit
        <5> QED BY <3>3, <4>1, <5>1, TwoDigits
      <4> QED BY <3>2, <4>1, <4>2
    <3> QED BY <3>4, <3>5
  <2>5. r \in Seq(Byte)
    <3>1. DOMAIN r = 1..Len(r) BY <2>2
    <3>2. [n \in 1..Len(r) |-> r[n]] \in Seq(Byte) BY <2>3, <2>4
    <3> QED BY <2>2, <3>1, <3>2
  <2> QED BY <2>1, <2>4, <2>5 DEF r
<1> QED BY <1>1, <1>2

(* A text written whole is read back.                                      *)
LEMMA WholeText ==
    ASSUME NEW v \in Seq(Byte), v # <<>>
    PROVE  FromHex(Hex(v)) = v
<1>1. Len(v) \in Nat /\ Len(v) >= 1 /\ v = [n \in 1..Len(v) |-> v[n]] OBVIOUS
<1> DEFINE t == Hex(v)
           r == FromHex(t)
<1>2. /\ Len(t) = 2 + 2 * Len(v) /\ t \in Seq(Digit \cup {X}) /\ t[1] = 0 /\ t[2] = X
      /\ \A n \in 1..Len(v) : t[2 * n + 1] = v[n] \div Base /\ t[2 * n + 2] = v[n] % Base
    BY HexText
<1> HIDE DEF t
<1>3. Len(t) >= 3 /\ (Len(t) - 1) \div 2 = Len(v)
  <2>1. \A n \in Nat : (2 + 2 * n - 1) \div 2 = n OBVIOUS
  <2>2. Len(v) \in Nat /\ Len(v) >= 1 BY <1>1
  <2>3. Len(t) = 2 + 2 * Len(v) BY <1>2
  <2> QED BY <2>1, <2>2, <2>3
<1>4. /\ DOMAIN r = 1..Len(v) /\ Len(r) = Len(v) /\ r = [n \in DOMAIN r |-> r[n]]
      /\ \A n \in 1..Len(r) : 2 * n + 2 <= Len(t) => r[n] = t[2 * n + 1] * Base + t[2 * n + 2]
    BY <1>2, <1>3, HexRead
<1> HIDE DEF r
<1>5. ASSUME NEW n \in 1..Len(v) PROVE r[n] = v[n]
  <2>1. 2 * n + 2 <= Len(t) BY <1>1, <1>2
  <2>2. r[n] = (v[n] \div Base) * Base + (v[n] % Base) BY <1>2, <1>4, <2>1
  <2>3. v[n] \in Byte OBVIOUS
  <2> QED BY <2>2, <2>3, Digits
<1>6. r = v BY <1>1, <1>4, <1>5
<1> QED BY <1>6 DEF r, t

LEMMA Encodings ==
    ASSUME hex \in BOOLEAN, NEW v \in Vector
    PROVE  Encoded(v) \in Seq(Symbol) /\ Len(Encoded(v)) \in Nat /\ v \in Seq(Byte)
<1>1. v \in Seq(Byte) BY FileFormatAssumption DEF FileFormatAssumption
<1>2. Encoded(v) \in Seq(Symbol) BY <1>1, HexText DEF Encoded, Symbol
<1> QED BY <1>1, <1>2

(* What a reader delivers when it has read symbols of the vectors written. *)
LEMMA DecodedType ==
    ASSUME FInv
    PROVE  Decoded(got) = None \/ Decoded(got) \in Seq(Byte)
<1>1. written \in SUBSET Seq(Byte)
    BY FileFormatAssumption DEF FileFormatAssumption, FInv, FileFits
<1>2. CASE hex
  <2>1. got \in Seq(Digit \cup {X}) /\ Ours(got, written)
      BY <1>2 DEF FInv, GotWritten, Symbol, Ours, Encoded
  <2> QED BY <1>1, <1>2, <2>1, OurBytes DEF Decoded
<1>3. CASE ~hex BY <1>3 DEF FInv, GotWritten, Symbol, Decoded
<1> QED BY <1>2, <1>3

-----------------------------------------------------------------------------
(* The writers.                                                            *)
LEMMA NoSequence == Absent \notin Seq(Symbol) /\ None \notin Seq(Symbol) /\ None \notin Seq(Byte)
<1>1. Byte \subseteq Nat /\ Digit \cup {X} \subseteq Nat BY Base2 DEF Byte, Digit, X
<1>2. Symbol \subseteq Nat BY <1>1 DEF Symbol
<1>3. ASSUME NEW S \in SUBSET Nat, NEW s \in Seq(S) PROVE s \in Seq(Nat)
  <2>1. Len(s) \in Nat /\ s = [n \in 1..Len(s) |-> s[n]] /\ \A n \in 1..Len(s) : s[n] \in Nat
      OBVIOUS
  <2> QED BY <2>1
<1> QED BY <1>1, <1>2, <1>3, FileFormatAssumption DEF FileFormatAssumption

(* Who reads while the file changes keeps what it has, and is disturbed.   *)
LEMMA WriterFrame ==
    ASSUME FInv, UNCHANGED <<hex, reading>>, calm' = FALSE, FileFits', written \subseteq written',
           writer' # "none"
    PROVE  FInv'
<1> USE DEF FInv, reading
<1>1. GotWritten'
  <2>1. \A v : Encoded(v)' = Encoded(v) BY DEF Encoded, Hex
  <2>2. Symbol' = Symbol BY DEF Symbol
  <2> QED BY <2>1, <2>2 DEF GotWritten
<1>2. CalmReader' BY DEF CalmReader
<1>3. Delivered' BY DEF Delivered, Decoded
<1> QED BY <1>1, <1>2, <1>3

LEMMA OpenToWriteInv ==
    ASSUME FInv, NEW v \in Vector, OpenToWrite(v)
    PROVE  FInv'
<1>1. /\ hex' = hex /\ file' = <<>> /\ writer' = "writing" /\ data' = v
      /\ written' = written \cup {v} /\ calm' = FALSE /\ UNCHANGED reading
    BY DEF OpenToWrite
<1>2. FileFits'
  <2>1. written' \subseteq Vector BY <1>1 DEF FInv, FileFits
  <2>2. file' # Absent /\ file' \in Seq(Symbol)'
    <3>1. <<>> \in Seq(Symbol) /\ <<>> \in Seq(Symbol') OBVIOUS
    <3> QED BY <1>1, <3>1, NoSequence
  <2>3. Starts(file', Encoded(data)') BY <1>1, Encodings DEF Starts, FInv, Encoded
  <2> QED BY <1>1, <2>1, <2>2, <2>3 DEF FileFits
<1> QED BY <1>1, <1>2, WriterFrame

LEMMA FlushInv ==
    ASSUME FInv, Flush
    PROVE  FInv'
<1> DEFINE t == Encoded(data)
<1>1. writer = "writing" /\ UNCHANGED <<hex, data, writes, written, reading>> /\ calm' = FALSE
    BY DEF Flush
<1>2. PICK n \in Len(file)..Len(t) :
         file' = SubSeq(t, 1, n) /\ writer' = IF n = Len(t) THEN "done" ELSE "writing"
    BY DEF Flush
<1>3. data \in written /\ data \in Vector /\ t \in Seq(Symbol) /\ Len(t) \in Nat /\ Len(file) \in Nat
    BY <1>1, Encodings DEF FInv, FileFits
<1>4. t' = t /\ Symbol' = Symbol BY <1>1 DEF Encoded, Hex, Symbol
<1> HIDE DEF t
<1>5. file' \in Seq(Symbol) /\ Len(file') = n /\ \A k \in 1..n : file'[k] = t[k] BY <1>2, <1>3
<1>6. FileFits'
  <2>1. file' # Absent BY <1>5, NoSequence
  <2>2. Starts(file', t') BY <1>2, <1>3, <1>4, <1>5 DEF Starts
  <2>3. n = Len(t) => file' = t' BY <1>2, <1>3, <1>4
  <2> QED BY <1>1, <1>2, <1>3, <1>4, <1>5, <2>1, <2>2, <2>3 DEF FileFits, t, FInv
<1>7. writer' # "none" BY <1>2
<1> QED BY <1>1, <1>6, <1>7, WriterFrame

LEMMA KillInv ==
    ASSUME FInv, Kill
    PROVE  FInv'
<1>1. writer = "writing" /\ writer' = "killed"
      /\ UNCHANGED <<hex, file, data, writes, written, calm, reading>>
    BY DEF Kill
<1>2. \A v : Encoded(v)' = Encoded(v) BY <1>1 DEF Encoded, Hex
<1>3. Symbol' = Symbol BY <1>1 DEF Symbol
<1>4. FileFits' BY <1>1, <1>2, <1>3 DEF FInv, FileFits
<1>5. GotWritten' BY <1>1, <1>2, <1>3 DEF FInv, GotWritten, reading
<1>6. CalmReader' BY <1>1 DEF FInv, CalmReader
<1>7. Delivered' BY <1>1 DEF FInv, Delivered, Decoded, reading
<1> QED BY <1>1, <1>4, <1>5, <1>6, <1>7 DEF FInv, reading

-----------------------------------------------------------------------------
(* The readers.                                                            *)
LEMMA ReaderFrame ==
    ASSUME FInv, UNCHANGED <<hex, file, writing>>
    PROVE  /\ FileFits' /\ Symbol' = Symbol /\ \A v : Encoded(v)' = Encoded(v)
           /\ written' = written
<1>1. UNCHANGED <<writer, data, written>> BY DEF writing
<1>2. \A v : Encoded(v)' = Encoded(v) BY DEF Encoded, Hex
<1>3. Symbol' = Symbol BY DEF Symbol
<1>4. FileFits' BY <1>1, <1>2, <1>3 DEF FInv, FileFits
<1> QED BY <1>1, <1>2, <1>3, <1>4

LEMMA OpenToReadInv ==
    ASSUME FInv, OpenToRead
    PROVE  FInv'
<1>1. UNCHANGED <<hex, file, writing>> /\ got' = <<>> /\ calm' = (writer # "writing")
    BY DEF OpenToRead
<1>2. writer' = writer BY <1>1 DEF writing
<1>3. \/ file = Absent /\ reader' = "read" /\ result' = None /\ size' = 0
      \/ file # Absent /\ reader' = "reading" /\ result' = result
         /\ size' = IF hex THEN 0 ELSE Len(file)
    BY DEF OpenToRead
<1>4. size' \in Nat
  <2>1. file # Absent => Len(file) \in Nat BY DEF FInv, FileFits
  <2> QED BY <1>3, <2>1
<1>5. Len(got') = 0 /\ got' \in Seq(Symbol) BY <1>1
<1>6. GotWritten'
  <2>1. \A k \in 1..Len(got') : FALSE BY <1>5
  <2>2. reader' = "reading" => writer' # "none" BY <1>2, <1>3 DEF FInv, FileFits
  <2> QED BY <1>1, <1>4, <1>5, <2>1, <2>2, ReaderFrame DEF GotWritten
<1>7. CalmReader'
  <2>1. CASE file = Absent BY <1>1, <1>2, <1>3, <2>1 DEF CalmReader
  <2>2. CASE file # Absent
    <3>1. Len(file) \in Nat BY <2>2 DEF FInv, FileFits
    <3>2. Starts(got', file) BY <1>5, <3>1 DEF Starts
    <3>3. reader' = "reading" /\ (~hex => size' = Len(file)) BY <1>3, <2>2
    <3> QED BY <1>1, <1>2, <2>2, <3>2, <3>3 DEF CalmReader, Starts
  <2> QED BY <2>1, <2>2
<1>8. Delivered' BY <1>3 DEF FInv, Delivered
<1>9. calm' \in BOOLEAN /\ reader' \in {"idle", "reading", "read"} BY <1>1, <1>3
<1> QED BY <1>1, <1>6, <1>7, <1>8, <1>9, ReaderFrame DEF FInv

LEMMA ReadChunkInv ==
    ASSUME FInv, ReadChunk
    PROVE  FInv'
<1>1. reader = "reading" /\ UNCHANGED <<hex, file, reader, size, result, reads, calm, writing>>
    BY DEF ReadChunk
<1>2. writer' = writer BY <1>1 DEF writing
<1>3. PICK n \in Len(got) + 1..End : got' = got \o SubSeq(file, Len(got) + 1, n)
    BY DEF ReadChunk
<1>4. file # Absent BY <1>1 DEF FInv, FileFits, GotWritten
<1>5. file \in Seq(Symbol) /\ Len(file) \in Nat BY <1>4 DEF FInv, FileFits
<1>6. got \in Seq(Symbol) /\ Len(got) \in Nat /\ size \in Nat BY DEF FInv, GotWritten
<1>7. n \in Nat /\ Len(got) + 1 <= n /\ n <= Len(file) /\ (~hex => n <= size)
    BY <1>3, <1>5, <1>6 DEF End
<1> DEFINE chunk == SubSeq(file, Len(got) + 1, n)
<1>8. /\ chunk \in Seq(Symbol) /\ Len(chunk) = n - Len(got)
      /\ \A k \in 1..(n - Len(got)) : chunk[k] = file[Len(got) + k]
    BY <1>5, <1>6, <1>7
<1>9. got' = got \o chunk BY <1>3
<1> HIDE DEF chunk
<1>10. /\ got' \in Seq(Symbol) /\ Len(got') = n
       /\ \A k \in 1..Len(got) : got'[k] = got[k]
       /\ \A k \in (Len(got) + 1)..n : got'[k] = file[k]
  <2>1. got' \in Seq(Symbol) /\ Len(got') = n
    <3>1. \A S : \A s, t \in Seq(S) : s \o t \in Seq(S) /\ Len(s \o t) = Len(s) + Len(t)
        OBVIOUS
    <3>2. got' \in Seq(Symbol) /\ Len(got') = Len(got) + Len(chunk)
        BY <1>6, <1>8, <1>9, <3>1
    <3> QED BY <1>6, <1>7, <1>8, <3>2
  <2>2. \A k \in 1..Len(got) : got'[k] = got[k] BY <1>6, <1>7, <1>8, <1>9
  <2>3. ASSUME NEW k \in (Len(got) + 1)..n PROVE got'[k] = file[k]
    <3>1. k - Len(got) \in 1..(n - Len(got)) /\ Len(got) + (k - Len(got)) = k BY <1>6, <1>7
    <3>2. got'[k] = chunk[k - Len(got)] BY <1>6, <1>7, <1>8, <1>9
    <3> QED BY <1>8, <3>1, <3>2
  <2> QED BY <2>1, <2>2, <2>3
<1>11. GotWritten'
  <2>1. writer # "none" /\ data \in written /\ Starts(file, Encoded(data))
      BY <1>4 DEF FInv, FileFits
  <2>2. data \in Vector /\ Len(Encoded(data)) \in Nat
      BY <2>1, Encodings DEF FInv, FileFits
  <2>3. ASSUME NEW k \in 1..Len(got')
        PROVE  \E v \in written : k <= Len(Encoded(v)) /\ got'[k] = Encoded(v)[k]
    <3>1. CASE k \in 1..Len(got) BY <1>10, <3>1 DEF FInv, GotWritten
    <3>2. CASE k \in (Len(got) + 1)..n
      <4>1. k \in 1..Len(file) BY <1>5, <1>6, <1>7, <3>2
      <4>2. k <= Len(Encoded(data)) /\ file[k] = Encoded(data)[k]
          BY <1>5, <2>1, <2>2, <4>1 DEF Starts
      <4> QED BY <1>10, <2>1, <3>2, <4>2
    <3> QED BY <1>6, <1>7, <1>10, <3>1, <3>2
  <2>4. written' = written /\ Symbol' = Symbol /\ \A v : Encoded(v)' = Encoded(v)
      BY <1>1, ReaderFrame
  <2>5. \A k \in 1..Len(got') : \E v \in written' :
            k <= Len(Encoded(v)') /\ got'[k] = Encoded(v)'[k]
      BY <2>3, <2>4
  <2>6. writer' # "none" BY <1>2, <2>1
  <2> QED BY <1>1, <1>6, <1>7, <1>10, <2>4, <2>5, <2>6 DEF GotWritten
<1>12. CalmReader'
  <2>1. calm => Starts(got', file)
    <3>1. calm => Starts(got, file) BY <1>1 DEF FInv, CalmReader
    <3> QED BY <1>5, <1>6, <1>7, <1>10, <3>1 DEF Starts
  <2> QED BY <1>1, <1>2, <2>1 DEF FInv, CalmReader, Starts
<1>13. Delivered' BY <1>1 DEF FInv, Delivered
<1> QED BY <1>1, <1>11, <1>12, <1>13, ReaderFrame DEF FInv

LEMMA DeliverInv ==
    ASSUME FInv, Deliver
    PROVE  FInv'
<1>1. /\ reader = "reading" /\ Len(got) >= End /\ reader' = "read"
      /\ result' = IF hex THEN FromHex(got) ELSE IF Len(got) < size THEN None ELSE got
      /\ UNCHANGED <<hex, file, size, got, reads, calm, writing>>
    BY DEF Deliver
<1>2. writer' = writer BY <1>1 DEF writing
<1>3. file # Absent BY <1>1 DEF FInv, FileFits, GotWritten
<1>4. file \in Seq(Symbol) /\ Len(file) \in Nat BY <1>3 DEF FInv, FileFits
<1>5. got \in Seq(Symbol) /\ Len(got) \in Nat /\ size \in Nat BY DEF FInv, GotWritten
<1>6. result' = None \/ result' = Decoded(got) BY <1>1 DEF Decoded
<1>7. GotWritten' BY <1>1, ReaderFrame DEF FInv, GotWritten
<1>8. Delivered'
  <2>1. result' = None \/ result' \in Seq(Byte) BY <1>6, DecodedType
  <2> QED BY <1>1, <1>6, <2>1 DEF Delivered, Decoded
<1>9. CalmReader'
  <2> SUFFICES ASSUME calm PROVE writer # "writing" /\ result' = Decoded(file)
      BY <1>1, <1>2, <1>3 DEF CalmReader, Decoded
  <2>1. writer # "writing" /\ Starts(got, file) /\ (~hex => size = Len(file))
      BY <1>1 DEF FInv, CalmReader
  <2>2. End = Len(file) BY <1>4, <1>5, <2>1 DEF End
  <2>3. Len(got) = Len(file) BY <1>1, <1>4, <1>5, <2>1, <2>2 DEF Starts
  <2>4. got = file BY <1>4, <1>5, <2>1, <2>3 DEF Starts
  <2>5. ~hex => ~(Len(got) < size) BY <1>5, <2>1, <2>3
  <2> QED BY <1>1, <2>1, <2>4, <2>5 DEF Decoded
<1> QED BY <1>1, <1>7, <1>8, <1>9, ReaderFrame DEF FInv

-----------------------------------------------------------------------------
LEMMA FInvInit == Init => FInv
<1> SUFFICES ASSUME Init PROVE FInv OBVIOUS
<1>1. FileFits BY DEF Init, FileFits
<1>2. GotWritten
  <2>1. got = <<>> /\ <<>> \in Seq(Symbol) /\ Len(<<>>) = 0 BY DEF Init
  <2> QED BY <2>1 DEF Init, GotWritten
<1>3. CalmReader /\ Delivered BY DEF Init, CalmReader, Delivered
<1> QED BY <1>1, <1>2, <1>3 DEF Init, FInv

LEMMA FInvStep == FInv /\ [Next]_vars => FInv'
<1> SUFFICES ASSUME FInv, [Next]_vars PROVE FInv' OBVIOUS
<1>1. ASSUME NEW v \in Vector, OpenToWrite(v) PROVE FInv' BY <1>1, OpenToWriteInv
<1>2. CASE Flush BY <1>2, FlushInv
<1>3. CASE Kill BY <1>3, KillInv
<1>4. CASE OpenToRead BY <1>4, OpenToReadInv
<1>5. CASE ReadChunk BY <1>5, ReadChunkInv
<1>6. CASE Deliver BY <1>6, DeliverInv
<1>7. CASE UNCHANGED vars
  <2>1. UNCHANGED <<hex, file, writer, data, reader, size, got, result, calm, written>>
      BY <1>7 DEF vars
  <2>2. FileFits' /\ Symbol' = Symbol /\ \A v : Encoded(v)' = Encoded(v)
      BY <1>7, ReaderFrame DEF vars, writing
  <2>3. GotWritten' BY <2>1, <2>2 DEF FInv, GotWritten
  <2>4. CalmReader' /\ Delivered' BY <2>1 DEF FInv, CalmReader, Delivered, Decoded
  <2> QED BY <2>1, <2>2, <2>3, <2>4 DEF FInv
<1> QED BY <1>1, <1>2, <1>3, <1>4, <1>5, <1>6, <1>7 DEF Next

LEMMA FInvCorrect == Spec => []FInv
<1> QED BY FInvInit, FInvStep, PTL DEF Spec

(* Every variable has its type, and a binary reader has no more than the   *)
(* size it measured (file_operations.hpp:109-113).                         *)
THEOREM TypeCorrect == Spec => []TypeOK
<1>1. FInv => TypeOK
  <2> SUFFICES ASSUME FInv PROVE TypeOK OBVIOUS
  <2>1. file \in {Absent} \cup Seq(IF hex THEN Digit \cup {X} ELSE Byte)
      BY DEF FInv, FileFits, Symbol
  <2> QED BY <2>1 DEF TypeOK, FInv, FileFits, GotWritten, Delivered
<1> QED BY <1>1, FInvCorrect, PTL

(* Whatever the vector, a complete file is read back as it was written,    *)
(* except the hexadecimal file of the empty one (file_operations.hpp:149   *)
(* and 173).                                                               *)
THEOREM WholeFilesReadBack == Spec => []ReadBack
<1>1. FInv => ReadBack
  <2> SUFFICES ASSUME FInv, reader = "read", calm, writer = "done"
               PROVE  result = IF hex /\ data = <<>> THEN None ELSE data
      BY DEF ReadBack
  <2>1. file = Encoded(data) /\ file # Absent /\ data \in Vector BY DEF FInv, FileFits
  <2>2. result = Decoded(Encoded(data)) BY <2>1 DEF FInv, CalmReader
  <2>3. data \in Seq(Byte) BY <2>1, Encodings DEF FInv
  <2>4. CASE ~hex BY <2>2, <2>4 DEF Decoded, Encoded
  <2>5. CASE hex /\ data # <<>> BY <2>2, <2>3, <2>5, WholeText DEF Decoded, Encoded
  <2>6. CASE hex /\ data = <<>>
    <3>1. Len(Hex(data)) = 2 + 2 * Len(data) /\ Hex(data) \in Seq(Digit \cup {X})
        BY <2>3, HexText
    <3>2. Len(Hex(data)) = 2 BY <2>6, <3>1
    <3>3. Hex(data) # <<>> /\ ~(Len(Hex(data)) >= 3)
      <4>1. \A t : Len(t) = 2 => t # <<>> /\ ~(Len(t) >= 3) OBVIOUS
      <4> QED BY <3>2, <4>1
    <3>4. FromHex(Hex(data)) = None BY <3>3 DEF FromHex
    <3> QED BY <2>2, <2>6, <3>4 DEF Decoded, Encoded
  <2> QED BY <2>4, <2>5, <2>6
<1> QED BY <1>1, FInvCorrect, PTL

(* What can be read of a torn hexadecimal file.                            *)
LEMMA TornText ==
    ASSUME NEW v \in Seq(Byte), NEW t \in Seq(Digit \cup {X}), Starts(t, Hex(v)),
           FromHex(t) # None
    PROVE  LET r == FromHex(t)
           IN /\ Len(r) <= Len(v)
              /\ \A k \in 1..Len(r) : \/ r[k] = v[k]
                                      \/ k = Len(r) /\ r[k] = v[k] \div Base
              /\ r = v => \/ v = <<>> \/ t = Hex(v)
                          \/ v[Len(v)] = 0 /\ Len(t) = Len(Hex(v)) - 1
<1> DEFINE r == FromHex(t)
<1>1. Len(v) \in Nat /\ Len(t) \in Nat /\ \A k \in 1..Len(v) : v[k] \in Byte OBVIOUS
<1>2. Ours(t, {v}) BY <1>1 DEF Starts, Ours
<1>3. /\ r \in Seq(Byte)
      /\ t # <<>> => Len(t) >= 3 /\ t[1] = 0 /\ t[2] = X
      /\ \A n \in 1..Len(r) :
            LET there == {w \in {v} : Len(w) >= n}
            IN \/ \E w, x \in there : r[n] = (w[n] \div Base) * Base + (x[n] % Base)
               \/ n = Len(r) /\ \E w \in there : r[n] = w[n] \div Base
    BY <1>2, OurBytes
<1>4. t = <<>> => r = <<>> BY DEF FromHex
<1> HIDE DEF r
<1>5. Len(r) \in Nat BY <1>3
<1>6. ASSUME NEW k \in 1..Len(r)
      PROVE  k <= Len(v) /\ (r[k] = v[k] \/ (k = Len(r) /\ r[k] = v[k] \div Base))
  <2>1. CASE k <= Len(v) /\ r[k] = (v[k] \div Base) * Base + (v[k] % Base)
    <3>1. k \in 1..Len(v) BY <1>1, <1>5, <2>1
    <3> QED BY <1>1, <2>1, <3>1, Digits
  <2>2. CASE k <= Len(v) /\ k = Len(r) /\ r[k] = v[k] \div Base BY <2>2
  <2> QED BY <1>1, <1>3, <2>1, <2>2
<1>7. Len(r) <= Len(v)
  <2>1. CASE Len(r) = 0 BY <1>1, <2>1
  <2>2. CASE Len(r) # 0
    <3>1. Len(r) \in 1..Len(r) BY <1>5, <2>2
    <3> QED BY <1>6, <3>1
  <2> QED BY <2>1, <2>2
<1>8. ASSUME r = v, v # <<>>, t # Hex(v)
      PROVE  v[Len(v)] = 0 /\ Len(t) = Len(Hex(v)) - 1
  <2>1. t # <<>> /\ Len(v) >= 1 BY <1>1, <1>4, <1>8
  <2>2. Len(t) >= 3 /\ t[1] = 0 /\ t[2] = X BY <1>3, <2>1
  <2>3. /\ Len(v) = (Len(t) - 1) \div 2
        /\ \A n \in 1..Len(v) :
              ~(2 * n + 2 <= Len(t)) => n = Len(v) /\ v[n] = t[2 * n + 1]
        /\ \A n \in 1..Len(v) : 2 * n + 1 <= Len(t)
      BY <1>8, <2>2, HexRead DEF r
  <2>4. /\ Len(Hex(v)) = 2 + 2 * Len(v) /\ Hex(v) \in Seq(Digit \cup {X})
        /\ \A n \in 1..Len(v) : Hex(v)[2 * n + 1] = v[n] \div Base
      BY HexText
  <2>5. Len(t) # Len(Hex(v))
    <3>1. \A k \in 1..Len(t) : t[k] = Hex(v)[k] BY DEF Starts
    <3> QED BY <1>8, <2>4, <3>1
  <2>6. Len(t) <= 2 + 2 * Len(v) BY <2>4 DEF Starts
  <2>7. Len(t) = 2 * Len(v) + 1
    <3>1. Len(v) \in 1..Len(v) BY <1>1, <2>1
    <3>2. 2 * Len(v) + 1 <= Len(t) BY <2>3, <3>1
    <3> QED BY <1>1, <2>4, <2>5, <2>6, <3>2
  <2>8. v[Len(v)] = v[Len(v)] \div Base
    <3>1. Len(v) \in 1..Len(v) /\ ~(2 * Len(v) + 2 <= Len(t)) BY <1>1, <2>1, <2>7
    <3>2. v[Len(v)] = t[2 * Len(v) + 1] BY <2>3, <3>1
    <3>3. 2 * Len(v) + 1 \in 1..Len(t) BY <1>1, <2>7
    <3>4. t[2 * Len(v) + 1] = Hex(v)[2 * Len(v) + 1] BY <3>3 DEF Starts
    <3> QED BY <2>4, <3>1, <3>2, <3>4
  <2>9. v[Len(v)] \in Byte BY <1>1, <2>1
  <2>10. v[Len(v)] = 0 BY <2>8, <2>9, LoneDigit
  <2> QED BY <1>1, <2>4, <2>7, <2>10
<1> QED BY <1>6, <1>7, <1>8 DEF r

(* Of the data of a writer that died, an undisturbed reader sees a prefix; *)
(* the hexadecimal one perhaps with half a byte more, which it takes for a *)
(* whole one (file_operations.hpp:156-160).                                *)
THEOREM TornFilesArePrefixes == Spec => []TornIsPrefix
<1>1. FInv => TornIsPrefix
  <2> SUFFICES ASSUME FInv, reader = "read", calm, writer = "killed", result # None
               PROVE  /\ Len(result) <= Len(data)
                      /\ \A k \in 1..Len(result) :
                            \/ result[k] = data[k]
                            \/ hex /\ k = Len(result) /\ result[k] = data[k] \div Base
                      /\ hex /\ result = data =>
                            \/ data = <<>> \/ file = Encoded(data)
                            \/ /\ data[Len(data)] = 0
                               /\ Len(file) = Len(Encoded(data)) - 1
      BY DEF TornIsPrefix
  <2>1. file \in Seq(Symbol) /\ Starts(file, Encoded(data)) /\ data \in Vector
      BY DEF FInv, FileFits
  <2>2. result = Decoded(file) BY <2>1, NoSequence DEF FInv, CalmReader
  <2>3. data \in Seq(Byte) BY <2>1, Encodings DEF FInv
  <2>4. CASE ~hex BY <2>1, <2>2, <2>4 DEF Decoded, Encoded, Starts
  <2>5. CASE hex
    <3>1. file \in Seq(Digit \cup {X}) /\ Encoded(data) = Hex(data) /\ result = FromHex(file)
        BY <2>1, <2>2, <2>5 DEF Symbol, Encoded, Decoded
    <3> QED BY <2>1, <2>3, <2>5, <3>1, TornText
  <2> QED BY <2>4, <2>5
<1> QED BY <1>1, FInvCorrect, PTL

(* Whatever writers do during the read, no byte is returned of which not   *)
(* every digit was written at its place (file_operations.hpp:101-121,      *)
(* 149-164).                                                               *)
THEOREM NothingIsInvented == Spec => []NothingInvented
<1>1. FInv => NothingInvented
  <2> SUFFICES ASSUME FInv, reader = "read", result # None PROVE NothingInvented
      BY DEF NothingInvented
  <2>1. result = Decoded(got) /\ got \in Seq(Symbol) BY DEF FInv, Delivered, GotWritten
  <2>2. written \in SUBSET Seq(Byte)
      BY FileFormatAssumption DEF FileFormatAssumption, FInv, FileFits
  <2>3. CASE ~hex
    <3>1. \A k \in 1..Len(got) : \E v \in written : k <= Len(v) /\ got[k] = v[k]
        BY <2>3 DEF FInv, GotWritten, Encoded
    <3>2. \A v \in written : Len(v) \in Nat BY <2>2
    <3>3. \A k \in 1..Len(got) : \E v \in {w \in written : Len(w) >= k} : got[k] = v[k]
        BY <3>1, <3>2
    <3> QED BY <2>1, <2>3, <3>3 DEF Decoded, NothingInvented
  <2>4. CASE hex
    <3>1. got \in Seq(Digit \cup {X}) /\ Ours(got, written) /\ result = FromHex(got)
        BY <2>1, <2>4 DEF FInv, GotWritten, Symbol, Ours, Encoded, Decoded
    <3>2. \A n \in 1..Len(result) :
             LET there == {v \in written : Len(v) >= n}
             IN \/ \E v, w \in there : result[n] = (v[n] \div Base) * Base + (w[n] % Base)
                \/ n = Len(result) /\ \E v \in there : result[n] = v[n] \div Base
        BY <2>2, <3>1, OurBytes
    <3> QED BY <2>4, <3>2 DEF NothingInvented
  <2> QED BY <2>3, <2>4
<1> QED BY <1>1, FInvCorrect, PTL
=============================================================================

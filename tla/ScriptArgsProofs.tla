--------------------------- MODULE ScriptArgsProofs ---------------------------
(***************************************************************************)
(* Proofs about ScriptArgs, for any command lines.  The script consumes    *)
(* the words from the left, and the invariant says of the words behind it  *)
(* what EveryWordInPlace says of all of them.                              *)
(***************************************************************************)
EXTENDS ScriptArgs, WellFoundedInduction, TLAPS

-----------------------------------------------------------------------------
(* The number of words that have been shifted away.                        *)
Shifted == Len(line) - Len(rest)

(* What the first m words say, if none of them is the separator.           *)
GivenUpTo(o, m) == {n \in IsValue : n <= m /\ line[n - 1] = ValueOption[o]}
TargetsUpTo(m) == {n \in 1..m \ IsValue : line[n] \notin ValueOptions \cup Switches}
SwitchedUpTo(o, m) == \E n \in 1..m : n \notin IsValue /\ line[n] = Switch[o]

Greatest(n, S) == n \in S /\ \A m \in S : m <= n

(* v is the last value of o among the first m words.                       *)
OptionIs(o, v, m) ==
    IF GivenUpTo(o, m) = {} THEN v = Initially[o]
    ELSE \E n \in GivenUpTo(o, m) : Greatest(n, GivenUpTo(o, m)) /\ v = line[n]

(* The first m words have gone into these options and targets.             *)
Sorted(opts, words, m) ==
    /\ \A n \in 1..m : n \notin Separators
    /\ IsSequenceOf(words, TargetsUpTo(m))
    /\ \A o \in DOMAIN ValueOption : OptionIs(o, opts[o], m)
    /\ \A o \in DOMAIN Switch : opts[o] = SwitchedUpTo(o, m)

(* Word m is not an option that waits for its value.                       *)
Complete(m) == m >= 1 /\ line[m] \in ValueOptions => m \in IsValue

Shape ==
    /\ line \in CommandLine /\ rest \in Seq(STRING) /\ Len(rest) <= Len(line)
    /\ \A j \in 1..Len(rest) : rest[j] = line[Shifted + j]
    /\ DOMAIN options = DOMAIN Initially
    /\ targets \in Seq(STRING) /\ args_to_forward \in Seq(STRING)
    /\ status \in {"parsing", "forwarding", "parsed"}

(* With an option as its last word the script goes round and round.        *)
Stuck == Len(rest) = 1 /\ rest[1] \in ValueOptions

Sorting ==
    status = "parsing" =>
        Stuck \/ (args_to_forward = <<>> /\ Complete(Shifted)
                  /\ Sorted(options, targets, Shifted))

Forwarding ==
    status = "forwarding" =>
        \E s \in Separators :
            /\ s <= Shifted /\ First = s
            /\ args_to_forward = SubSeq(line, s + 1, Shifted)
            /\ Sorted(options, targets, s - 1)

SInv == Shape /\ Sorting /\ Forwarding /\ EveryWordInPlace

-----------------------------------------------------------------------------
(* Induction over numbers, from the well-foundedness of their order.       *)
LEMMA LeastMember ==
    ASSUME NEW T, T \subseteq Nat, T # {}
    PROVE  \E x \in T : \A y \in T : x <= y
<1> DEFINE R == OpToRel(<, Nat)
<1>1. IsWellFoundedOn(R, Nat) BY NatLessThanWellFounded, Zenon
<1>2. \A x, y \in Nat : x < y => <<x, y>> \in R BY DEF OpToRel
<1> HIDE DEF R
<1>3. \E x \in T : \A y \in T : ~(<<y, x>> \in R) BY <1>1, WFMin, Zenon
<1>4. \A x, y \in Nat : ~(y < x) => x <= y OBVIOUS
<1> QED BY <1>2, <1>3, <1>4

LEMMA SetInduction ==
    ASSUME NEW S, 0 \in S, \A n \in Nat : n \in S => n + 1 \in S
    PROVE  Nat \subseteq S
<1> SUFFICES ASSUME Nat \ S # {} PROVE FALSE OBVIOUS
<1>1. PICK x \in Nat \ S : \A y \in Nat \ S : x <= y BY LeastMember
<1>2. x # 0 /\ x - 1 \in Nat /\ x - 1 + 1 = x /\ ~(x <= x - 1) BY <1>1
<1>3. x - 1 \in S BY <1>1, <1>2
<1> QED BY <1>1, <1>2, <1>3

(* A word is a value if the word before it is an option that is not one.   *)
LEMMA Values ==
    ASSUME Len(line) \in Nat
    PROVE  /\ IsValue \subseteq 1..Len(line)
           /\ \A n \in 1..Len(line) :
                 n \in IsValue <=> n > 1 /\ line[n - 1] \in ValueOptions /\ n - 1 \notin IsValue
<1> DEFINE N == Len(line)
           Is(g, m) == g = [n \in 0..m |-> n > 1 /\ line[n - 1] \in ValueOptions /\ ~g[n - 1]]
           S == {m \in Nat : \E g : Is(g, m)}
           value == CHOOSE g : Is(g, N)
<1>1. 0 \in S
  <2> DEFINE g == [n \in 0..0 |-> FALSE]
  <2>1. \A n \in 0..0 : ~(n > 1) OBVIOUS
  <2>2. Is(g, 0) BY <2>1
  <2> QED BY <2>2
<1>2. ASSUME NEW m \in Nat, m \in S PROVE m + 1 \in S
  <2>1. PICK g : Is(g, m) BY <1>2
  <2> DEFINE h == [n \in 0..m + 1 |-> n > 1 /\ line[n - 1] \in ValueOptions /\ ~g[n - 1]]
  <2>2. ASSUME NEW n \in 0..m PROVE h[n] = g[n]
    <3>1. n \in 0..m + 1 OBVIOUS
    <3> QED BY <2>1, <3>1
  <2>3. \A n \in 0..m + 1 : n > 1 => n - 1 \in 0..m OBVIOUS
  <2>4. h = [n \in 0..m + 1 |-> n > 1 /\ line[n - 1] \in ValueOptions /\ ~h[n - 1]]
      BY <2>2, <2>3
  <2>5. Is(h, m + 1) BY <2>4
  <2> HIDE DEF h
  <2>6. \E f : Is(f, m + 1) BY <2>5
  <2>7. m + 1 \in Nat OBVIOUS
  <2> QED BY <2>6, <2>7, Zenon
<1>3. N \in S
  <2> HIDE DEF S
  <2> QED BY <1>1, <1>2, SetInduction
<1>4. Is(value, N) BY <1>3
<1>5. IsValue = {n \in 1..N : value[n]} BY Zenon DEF IsValue
<1> HIDE DEF value
<1>6. \A n \in 1..N : value[n] <=> n > 1 /\ line[n - 1] \in ValueOptions /\ ~value[n - 1]
  <2>1. \A n \in 1..N : n \in 0..N OBVIOUS
  <2> QED BY <1>4, <2>1
<1>7. \A n \in 1..N : n > 1 => n - 1 \in 1..N OBVIOUS
<1> QED BY <1>5, <1>6, <1>7

LEMMA Words ==
    /\ ValueOptions = {"--base-dir", "--output-dir"}
    /\ Switches = {"--multithreaded", "--use-nix"}
    /\ DOMAIN ValueOption = {"base_dir", "output_dir"}
    /\ DOMAIN Switch = {"use_multithreaded", "use_nix"}
    /\ ValueOption["base_dir"] = "--base-dir" /\ ValueOption["output_dir"] = "--output-dir"
    /\ Switch["use_multithreaded"] = "--multithreaded" /\ Switch["use_nix"] = "--use-nix"
<1>1. DOMAIN ValueOption = {"base_dir", "output_dir"} BY DEF ValueOption
<1>2. DOMAIN Switch = {"use_multithreaded", "use_nix"} BY DEF Switch
<1>3. ValueOption["base_dir"] = "--base-dir" /\ ValueOption["output_dir"] = "--output-dir"
    BY DEF ValueOption
<1>4. Switch["use_multithreaded"] = "--multithreaded" /\ Switch["use_nix"] = "--use-nix"
    BY DEF Switch
<1> QED BY <1>1, <1>2, <1>3, <1>4 DEF ValueOptions, Switches

-----------------------------------------------------------------------------
(* What one more word changes.                                             *)
LEMMA OneWord ==
    ASSUME Len(line) \in Nat, NEW m \in Nat, m + 1 <= Len(line), Complete(m)
    PROVE  /\ m + 1 \notin IsValue
           /\ \A o : GivenUpTo(o, m + 1) = GivenUpTo(o, m)
           /\ TargetsUpTo(m + 1) = IF line[m + 1] \in ValueOptions \cup Switches
                                   THEN TargetsUpTo(m) ELSE TargetsUpTo(m) \cup {m + 1}
           /\ \A o : SwitchedUpTo(o, m + 1) <=> SwitchedUpTo(o, m) \/ line[m + 1] = Switch[o]
           /\ line[m + 1] \notin ValueOptions => Complete(m + 1)
<1>1. m + 1 \in 1..Len(line) /\ m + 1 - 1 = m OBVIOUS
<1>2. m + 1 \notin IsValue BY <1>1, Values DEF Complete
<1>3. IsValue \subseteq Nat BY Values
<1>4. \A n \in IsValue : n <= m + 1 <=> n <= m
  <2>1. \A n \in Nat : n <= m + 1 <=> n <= m \/ n = m + 1 OBVIOUS
  <2> QED BY <1>2, <1>3, <2>1
<1>5. \A o : GivenUpTo(o, m + 1) = GivenUpTo(o, m) BY <1>4 DEF GivenUpTo
<1>6. 1..m + 1 = (1..m) \cup {m + 1} OBVIOUS
<1>7. TargetsUpTo(m + 1) = IF line[m + 1] \in ValueOptions \cup Switches
                           THEN TargetsUpTo(m) ELSE TargetsUpTo(m) \cup {m + 1}
    BY <1>2, <1>6 DEF TargetsUpTo
<1>8. \A o : SwitchedUpTo(o, m + 1) <=> SwitchedUpTo(o, m) \/ line[m + 1] = Switch[o]
    BY <1>2, <1>6 DEF SwitchedUpTo
<1> QED BY <1>2, <1>5, <1>7, <1>8 DEF Complete

LEMMA OptionAndValue ==
    ASSUME Len(line) \in Nat, NEW m \in Nat, m + 2 <= Len(line), Complete(m),
           line[m + 1] \in ValueOptions
    PROVE  /\ m + 1 \notin IsValue /\ m + 2 \in IsValue
           /\ \A o : GivenUpTo(o, m + 2) = IF line[m + 1] = ValueOption[o]
                                           THEN GivenUpTo(o, m) \cup {m + 2} ELSE GivenUpTo(o, m)
           /\ TargetsUpTo(m + 2) = TargetsUpTo(m)
           /\ \A o \in DOMAIN Switch : SwitchedUpTo(o, m + 2) <=> SwitchedUpTo(o, m)
           /\ Complete(m + 2)
<1>1. /\ m + 1 \notin IsValue
      /\ \A o : GivenUpTo(o, m + 1) = GivenUpTo(o, m)
      /\ TargetsUpTo(m + 1) = TargetsUpTo(m)
      /\ \A o : SwitchedUpTo(o, m + 1) <=> SwitchedUpTo(o, m) \/ line[m + 1] = Switch[o]
  <2>1. m + 1 <= Len(line) OBVIOUS
  <2> QED BY <2>1, OneWord
<1>2. m + 2 \in 1..Len(line) /\ m + 2 > 1 /\ m + 2 - 1 = m + 1 OBVIOUS
<1>3. m + 2 \in IsValue BY <1>1, <1>2, Values
<1>4. IsValue \subseteq Nat BY Values
<1>5. \A n \in Nat : n <= m + 2 <=> n <= m + 1 \/ n = m + 2 OBVIOUS
<1>6. ASSUME NEW o
      PROVE  GivenUpTo(o, m + 2) = IF line[m + 1] = ValueOption[o]
                                   THEN GivenUpTo(o, m + 1) \cup {m + 2}
                                   ELSE GivenUpTo(o, m + 1)
  <2>1. m + 2 \in GivenUpTo(o, m + 2) <=> line[m + 1] = ValueOption[o]
      BY <1>2, <1>3 DEF GivenUpTo
  <2>2. \A n \in IsValue : n # m + 2 =>
            (n \in GivenUpTo(o, m + 2) <=> n \in GivenUpTo(o, m + 1))
      BY <1>4, <1>5 DEF GivenUpTo
  <2>3. m + 2 \notin GivenUpTo(o, m + 1) BY DEF GivenUpTo
  <2>4. /\ GivenUpTo(o, m + 2) \subseteq IsValue /\ GivenUpTo(o, m + 1) \subseteq IsValue
      BY DEF GivenUpTo
  <2>5. CASE line[m + 1] = ValueOption[o]
    <3>1. \A n : n \in GivenUpTo(o, m + 2) <=> n \in GivenUpTo(o, m + 1) \cup {m + 2}
        BY <2>1, <2>2, <2>4, <2>5, Zenon
    <3>2. GivenUpTo(o, m + 2) = GivenUpTo(o, m + 1) \cup {m + 2} BY <3>1, Zenon
    <3> QED BY <2>5, <3>2, Zenon
  <2>6. CASE line[m + 1] # ValueOption[o]
    <3>1. \A n : n \in GivenUpTo(o, m + 2) <=> n \in GivenUpTo(o, m + 1)
        BY <2>1, <2>2, <2>3, <2>4, <2>6, Zenon
    <3>2. GivenUpTo(o, m + 2) = GivenUpTo(o, m + 1) BY <3>1, Zenon
    <3> QED BY <2>6, <3>2, Zenon
  <2> QED BY <2>5, <2>6, Zenon
<1>7. 1..m + 2 = (1..m + 1) \cup {m + 2} OBVIOUS
<1>8. TargetsUpTo(m + 2) = TargetsUpTo(m + 1) BY <1>3, <1>7 DEF TargetsUpTo
<1>9. \A o : SwitchedUpTo(o, m + 2) <=> SwitchedUpTo(o, m + 1) BY <1>3, <1>7 DEF SwitchedUpTo
<1>10. \A o \in DOMAIN Switch : line[m + 1] # Switch[o] BY Words
<1> QED BY <1>1, <1>3, <1>6, <1>8, <1>9, <1>10 DEF Complete

(* A word that is added to the words at some positions.                    *)
LEMMA AppendWord ==
    ASSUME NEW words, words \in Seq(STRING), NEW m \in Nat, NEW P, P \subseteq 1..m,
           IsSequenceOf(words, P)
    PROVE  IsSequenceOf(Append(words, line[m + 1]), P \cup {m + 1})
<1> DEFINE L == Len(words)
           new == Append(words, line[m + 1])
           Q == P \cup {m + 1}
<1>1. PICK at \in [1..L -> P] :
          /\ \A i, j \in 1..L : i < j => at[i] < at[j]
          /\ \A n \in P : \E i \in 1..L : at[i] = n
          /\ \A i \in 1..L : words[i] = line[at[i]]
    BY DEF IsSequenceOf
<1>2. L \in Nat /\ Len(new) = L + 1 /\ new[L + 1] = line[m + 1]
      /\ \A i \in 1..L : new[i] = words[i]
    OBVIOUS
<1>3. \A i \in 1..L + 1 : i \in 1..L \/ i = L + 1 BY <1>2
<1> DEFINE bt == [i \in 1..L + 1 |-> IF i = L + 1 THEN m + 1 ELSE at[i]]
<1>4. bt[L + 1] = m + 1 /\ \A i \in 1..L : bt[i] = at[i] /\ i \in 1..L + 1 BY <1>2
<1>5. bt \in [1..L + 1 -> Q] BY <1>1, <1>3
<1> HIDE DEF bt, new
<1>6. ASSUME NEW i \in 1..L + 1, NEW j \in 1..L + 1, i < j PROVE bt[i] < bt[j]
  <2>1. i \in 1..L BY <1>2, <1>6
  <2>2. at[i] \in 1..m BY <1>1, <2>1
  <2>3. CASE j \in 1..L BY <1>1, <1>4, <1>6, <2>1, <2>3
  <2>4. CASE j = L + 1
    <3>1. bt[i] = at[i] /\ bt[j] = m + 1 BY <1>4, <2>1, <2>4
    <3> QED BY <2>2, <3>1
  <2> QED BY <1>3, <2>3, <2>4
<1>7. L + 1 \in 1..L + 1 BY <1>2
<1>8. \A n \in Q : \E i \in 1..L + 1 : bt[i] = n BY <1>1, <1>4, <1>7
<1>9. \A i \in 1..L + 1 : new[i] = line[bt[i]] BY <1>1, <1>2, <1>3, <1>4
<1>10. \E K : K = 1..L + 1 /\ K = 1..Len(new) BY <1>2
<1>11. PICK K : K = 1..L + 1 /\ K = 1..Len(new) BY <1>10
<1>12. bt \in [K -> Q] BY <1>5, <1>11, Zenon
<1>13. \A i, j \in K : i < j => bt[i] < bt[j] BY <1>6, <1>11, Zenon
<1>14. \A n \in Q : \E i \in K : bt[i] = n BY <1>8, <1>11, Zenon
<1>15. \A i \in K : new[i] = line[bt[i]] BY <1>9, <1>11, Zenon
<1>16. IsSequenceOf(new, Q)
  <2> HIDE DEF Q, L
  <2> QED BY <1>11, <1>12, <1>13, <1>14, <1>15, Zenon DEF IsSequenceOf
<1> QED BY <1>16 DEF new

-----------------------------------------------------------------------------
(* Where the script is.                                                    *)
LEMMA Position ==
    ASSUME Shape
    PROVE  /\ Len(line) \in Nat /\ Len(rest) \in Nat /\ Shifted \in Nat
           /\ Shifted + Len(rest) = Len(line)
           /\ rest = <<>> <=> Shifted = Len(line)
           /\ rest # <<>> => Shifted + 1 <= Len(line) /\ rest[1] = line[Shifted + 1]
<1>1. /\ line \in Seq(STRING) /\ rest \in Seq(STRING) /\ Len(rest) <= Len(line)
      /\ \A j \in 1..Len(rest) : rest[j] = line[Shifted + j]
    BY ScriptArgsAssumption DEF Shape, ScriptArgsAssumption
<1>2. Len(line) \in Nat /\ Len(rest) \in Nat /\ Shifted \in Nat BY <1>1 DEF Shifted
<1>3. Shifted + Len(rest) = Len(line) BY <1>2 DEF Shifted
<1>4. rest = <<>> <=> Len(rest) = 0 BY <1>1
<1>5. Len(rest) # 0 => 1 \in 1..Len(rest) BY <1>2
<1>6. Len(rest) # 0 => rest[1] = line[Shifted + 1] BY <1>1, <1>5
<1> QED BY <1>2, <1>3, <1>4, <1>6

LEMMA OneOrMore ==
    \A n \in Nat : /\ n >= 2 => n # 1
                  /\ n # 0 /\ ~(n >= 2) => n = 1
OBVIOUS

LEMMA Appended == \A S : \A s \in Seq(S) : \A x \in S : Append(s, x) \in Seq(S)
OBVIOUS

(* shift                                                                   *)
LEMMA ShiftOne ==
    ASSUME Shape, rest # <<>>, rest' = Tail(rest), line' = line
    PROVE  /\ Shifted' = Shifted + 1
           /\ rest' \in Seq(STRING) /\ Len(rest') <= Len(line')
           /\ \A j \in 1..Len(rest') : rest'[j] = line'[(Shifted + j)']
<1>1. /\ Len(line) \in Nat /\ Len(rest) \in Nat /\ Shifted + Len(rest) = Len(line)
      /\ Shifted \in Nat
    BY Position
<1>2. rest \in Seq(STRING) /\ \A j \in 1..Len(rest) : rest[j] = line[Shifted + j]
    BY DEF Shape
<1>3. /\ Tail(rest) \in Seq(STRING) /\ Len(Tail(rest)) = Len(rest) - 1
      /\ \A j \in 1..Len(rest) - 1 : Tail(rest)[j] = rest[j + 1]
    BY <1>2
<1>4. Shifted' = Shifted + 1 BY <1>1, <1>3 DEF Shifted
<1>5. ASSUME NEW j \in 1..Len(rest') PROVE rest'[j] = line[Shifted + 1 + j]
  <2>1. j \in 1..Len(rest) - 1 BY <1>3
  <2>2. j + 1 \in 1..Len(rest) /\ Shifted + (j + 1) = Shifted + 1 + j BY <1>1, <2>1
  <2> QED BY <1>2, <1>3, <2>1, <2>2
<1> QED BY <1>1, <1>3, <1>4, <1>5

LEMMA ShiftBoth ==
    ASSUME Shape, Len(rest) >= 2, rest' = Tail(Tail(rest)), line' = line
    PROVE  /\ Shifted' = Shifted + 2 /\ Shifted + 2 <= Len(line)
           /\ rest[2] = line[Shifted + 2]
           /\ rest' \in Seq(STRING) /\ Len(rest') <= Len(line')
           /\ \A j \in 1..Len(rest') : rest'[j] = line'[(Shifted + j)']
<1>1. /\ Len(line) \in Nat /\ Len(rest) \in Nat /\ Shifted + Len(rest) = Len(line)
      /\ Shifted \in Nat
    BY Position
<1>2. rest \in Seq(STRING) /\ \A j \in 1..Len(rest) : rest[j] = line[Shifted + j]
    BY DEF Shape
<1>3. PICK t : t = Tail(rest) OBVIOUS
<1>4. /\ t \in Seq(STRING) /\ Len(t) = Len(rest) - 1
      /\ \A j \in 1..Len(rest) - 1 : t[j] = rest[j + 1]
    BY <1>2, <1>3
<1>5. /\ Tail(t) \in Seq(STRING) /\ Len(Tail(t)) = Len(rest) - 2
      /\ \A j \in 1..Len(rest) - 2 : Tail(t)[j] = t[j + 1]
    BY <1>1, <1>4
<1>6. rest' = Tail(t) BY <1>3
<1>7. Shifted' = Shifted + 2
  <2>1. Len(rest') = Len(rest) - 2 BY <1>5, <1>6, Zenon
  <2>2. Shifted' = Len(line) - (Len(rest) - 2) BY <2>1 DEF Shifted
  <2>3. \A a, b, c \in Nat : c + b = a => a - (b - 2) = c + 2 OBVIOUS
  <2>4. Len(line) - (Len(rest) - 2) = Shifted + 2 BY <1>1, <2>3
  <2> QED BY <2>2, <2>4, Zenon
<1>8. ASSUME NEW j \in 1..Len(rest') PROVE rest'[j] = line[Shifted + 2 + j]
  <2>1. j \in 1..Len(rest) - 2 BY <1>5, <1>6
  <2>2. /\ j + 1 \in 1..Len(rest) - 1 /\ j + 1 + 1 \in 1..Len(rest)
        /\ Shifted + (j + 1 + 1) = Shifted + 2 + j
      BY <1>1, <2>1
  <2>3. rest'[j] = rest[j + 1 + 1] BY <1>4, <1>5, <1>6, <2>1, <2>2
  <2> QED BY <1>2, <2>2, <2>3
<1>9. 2 \in 1..Len(rest) BY <1>1
<1>10. rest[2] = line[Shifted + 2] BY <1>2, <1>9
<1>11. rest' \in Seq(STRING) /\ Len(rest') = Len(rest) - 2 BY <1>5, <1>6, Zenon
<1>12. Len(rest') <= Len(line') BY <1>1, <1>11
<1>13. \A j \in 1..Len(rest') : rest'[j] = line'[(Shifted + j)'] BY <1>7, <1>8
<1>14. Shifted + 2 <= Len(line) BY <1>1
<1> QED BY <1>7, <1>10, <1>11, <1>12, <1>13, <1>14

(* The command line stays as it is, and so does what is defined by it.     *)
LEMMA Fixed ==
    ASSUME line' = line
    PROVE  /\ IsValue' = IsValue /\ Separators' = Separators /\ First' = First
           /\ Targets' = Targets /\ (ValueMissing' <=> ValueMissing)
           /\ \A o, m : GivenUpTo(o, m)' = GivenUpTo(o, m)
           /\ \A m : TargetsUpTo(m)' = TargetsUpTo(m)
           /\ \A o, m : SwitchedUpTo(o, m)' <=> SwitchedUpTo(o, m)
           /\ \A m : Complete(m)' <=> Complete(m)
           /\ \A o, v, m : OptionIs(o, v, m)' <=> OptionIs(o, v, m)
           /\ \A w, P : IsSequenceOf(w, P)' <=> IsSequenceOf(w, P)
           /\ \A o, d : LastGiven(o, d)' = LastGiven(o, d)
           /\ \A p, w, m : Sorted(p, w, m)' <=> Sorted(p, w, m)
<1>1. IsValue' = IsValue BY DEF IsValue
<1>2. Separators' = Separators BY <1>1 DEF Separators
<1>3. First' = First BY <1>2 DEF First
<1>4. Targets' = Targets BY <1>1, <1>3 DEF Targets
<1>5. ValueMissing' <=> ValueMissing BY <1>1, <1>3 DEF ValueMissing
<1>6. \A o, m : GivenUpTo(o, m)' = GivenUpTo(o, m) BY <1>1 DEF GivenUpTo
<1>7. \A m : TargetsUpTo(m)' = TargetsUpTo(m) BY <1>1 DEF TargetsUpTo
<1>8. \A o, m : SwitchedUpTo(o, m)' <=> SwitchedUpTo(o, m) BY <1>1 DEF SwitchedUpTo
<1>9. \A m : Complete(m)' <=> Complete(m) BY <1>1 DEF Complete
<1>10. \A o, v, m : OptionIs(o, v, m)' <=> OptionIs(o, v, m) BY <1>6 DEF OptionIs
<1>11. \A w, P : IsSequenceOf(w, P)' <=> IsSequenceOf(w, P) BY Zenon DEF IsSequenceOf
<1>12. \A o : Given(o)' = Given(o) BY <1>1, <1>3 DEF Given
<1>13. ASSUME NEW o, NEW d PROVE LastGiven(o, d)' = LastGiven(o, d)
  <2>1. Given(o)' = Given(o) BY <1>12
  <2> QED BY <2>1 DEF LastGiven
<1>14. ASSUME NEW p, NEW w, NEW m PROVE Sorted(p, w, m)' <=> Sorted(p, w, m)
    BY <1>2, <1>7, <1>8, <1>10, <1>11, Zenon DEF Sorted
<1> QED BY <1>1, <1>2, <1>3, <1>4, <1>5, <1>6, <1>7, <1>8, <1>9, <1>10, <1>11, <1>13, <1>14

LEMMA SameWords ==
    ASSUME line' = line, targets' = targets
    PROVE  IsSequenceOf(targets, Targets)' <=> IsSequenceOf(targets, Targets)
<1>1. PICK w, P : w = targets /\ P = Targets OBVIOUS
<1>2. w = targets' /\ P = Targets' BY <1>1, Fixed
<1>3. IsSequenceOf(w, P)' <=> IsSequenceOf(w, P) BY Fixed
<1> QED BY <1>1, <1>2, <1>3

-----------------------------------------------------------------------------
(* One word or two are sorted.                                             *)
LEMMA SortSwitch ==
    ASSUME Len(line) \in Nat, NEW m \in Nat, m + 1 <= Len(line), Complete(m),
           NEW opts, NEW words, Sorted(opts, words, m), DOMAIN opts = DOMAIN Initially,
           NEW o \in DOMAIN Switch, line[m + 1] = Switch[o]
    PROVE  Sorted([opts EXCEPT ![o] = TRUE], words, m + 1) /\ Complete(m + 1)
<1> DEFINE new == [opts EXCEPT ![o] = TRUE]
<1>1. line[m + 1] \in Switches /\ line[m + 1] \notin ValueOptions /\ line[m + 1] # "--" BY Words
<1>2. /\ Complete(m + 1) /\ TargetsUpTo(m + 1) = TargetsUpTo(m)
      /\ \A p : GivenUpTo(p, m + 1) = GivenUpTo(p, m)
      /\ \A p : SwitchedUpTo(p, m + 1) <=> SwitchedUpTo(p, m) \/ line[m + 1] = Switch[p]
    BY <1>1, OneWord
<1>3. /\ o \in DOMAIN opts /\ o \notin DOMAIN ValueOption
      /\ \A p \in DOMAIN Switch : p # o => Switch[p] # Switch[o]
    BY Words DEF Initially
<1>4. new[o] = TRUE /\ \A p : p \in DOMAIN opts /\ p # o => new[p] = opts[p] BY <1>3
<1> HIDE DEF new
<1>5. DOMAIN ValueOption \cup DOMAIN Switch \subseteq DOMAIN opts BY Words DEF Initially
<1>6. \A n \in 1..m + 1 : n \notin Separators
  <2>1. m + 1 \notin Separators BY <1>1 DEF Separators
  <2>2. \A n \in 1..m + 1 : n \in 1..m \/ n = m + 1 OBVIOUS
  <2> QED BY <2>1, <2>2 DEF Sorted
<1>7. \A p \in DOMAIN ValueOption : OptionIs(p, new[p], m + 1)
  <2>1. ASSUME NEW p \in DOMAIN ValueOption PROVE OptionIs(p, new[p], m + 1)
    <3>1. new[p] = opts[p] /\ GivenUpTo(p, m + 1) = GivenUpTo(p, m) BY <1>2, <1>3, <1>4, <1>5
    <3>2. OptionIs(p, opts[p], m) BY DEF Sorted
    <3> QED BY <3>1, <3>2 DEF OptionIs
  <2> QED BY <2>1
<1>8. ASSUME NEW p \in DOMAIN Switch PROVE new[p] = SwitchedUpTo(p, m + 1)
  <2>1. opts[p] = SwitchedUpTo(p, m) BY DEF Sorted
  <2>2. CASE p = o
    <3>1. SwitchedUpTo(p, m + 1) = TRUE BY <1>2, <2>2 DEF SwitchedUpTo
    <3> QED BY <1>4, <2>2, <3>1
  <2>3. CASE p # o
    <3>1. SwitchedUpTo(p, m + 1) = SwitchedUpTo(p, m) BY <1>2, <1>3, <2>3 DEF SwitchedUpTo
    <3> QED BY <1>4, <1>5, <2>1, <2>3, <3>1
  <2> QED BY <2>2, <2>3
<1>9. Sorted(new, words, m + 1) BY <1>2, <1>6, <1>7, <1>8 DEF Sorted
<1> QED BY <1>2, <1>9 DEF new

LEMMA SortTarget ==
    ASSUME Len(line) \in Nat, NEW m \in Nat, m + 1 <= Len(line), Complete(m),
           NEW opts, NEW words, words \in Seq(STRING), Sorted(opts, words, m),
           line[m + 1] \notin ValueOptions \cup Switches \cup {"--"}
    PROVE  Sorted(opts, Append(words, line[m + 1]), m + 1) /\ Complete(m + 1)
<1>1. /\ Complete(m + 1) /\ TargetsUpTo(m + 1) = TargetsUpTo(m) \cup {m + 1}
      /\ \A p : GivenUpTo(p, m + 1) = GivenUpTo(p, m)
      /\ \A p : SwitchedUpTo(p, m + 1) <=> SwitchedUpTo(p, m) \/ line[m + 1] = Switch[p]
    BY OneWord
<1>2. IsSequenceOf(Append(words, line[m + 1]), TargetsUpTo(m + 1))
  <2>1. TargetsUpTo(m) \subseteq 1..m BY DEF TargetsUpTo
  <2>2. IsSequenceOf(words, TargetsUpTo(m)) BY DEF Sorted
  <2>3. PICK P : P = TargetsUpTo(m) /\ TargetsUpTo(m + 1) = P \cup {m + 1} BY <1>1
  <2>4. P \subseteq 1..m /\ IsSequenceOf(words, P) BY <2>1, <2>2, <2>3
  <2>5. IsSequenceOf(Append(words, line[m + 1]), P \cup {m + 1}) BY <2>4, AppendWord
  <2> QED BY <2>3, <2>5
<1>3. \A n \in 1..m + 1 : n \notin Separators
  <2>1. m + 1 \notin Separators BY DEF Separators
  <2>2. \A n \in 1..m + 1 : n \in 1..m \/ n = m + 1 OBVIOUS
  <2> QED BY <2>1, <2>2 DEF Sorted
<1>4. \A p \in DOMAIN ValueOption : OptionIs(p, opts[p], m + 1) BY <1>1 DEF Sorted, OptionIs
<1>5. ASSUME NEW p \in DOMAIN Switch PROVE opts[p] = SwitchedUpTo(p, m + 1)
  <2>1. opts[p] = SwitchedUpTo(p, m) BY DEF Sorted
  <2>2. line[m + 1] # Switch[p] BY Words
  <2>3. SwitchedUpTo(p, m + 1) = SwitchedUpTo(p, m) BY <1>1, <2>2 DEF SwitchedUpTo
  <2> QED BY <2>1, <2>3
<1> QED BY <1>1, <1>2, <1>3, <1>4, <1>5 DEF Sorted

LEMMA SortValue ==
    ASSUME Len(line) \in Nat, NEW m \in Nat, m + 2 <= Len(line), Complete(m),
           NEW opts, NEW words, Sorted(opts, words, m), DOMAIN opts = DOMAIN Initially,
           NEW o \in DOMAIN ValueOption, line[m + 1] = ValueOption[o]
    PROVE  Sorted([opts EXCEPT ![o] = line[m + 2]], words, m + 2) /\ Complete(m + 2)
<1> DEFINE new == [opts EXCEPT ![o] = line[m + 2]]
<1>1. line[m + 1] \in ValueOptions /\ line[m + 1] # "--" BY Words
<1>2. /\ m + 2 \in IsValue /\ Complete(m + 2) /\ TargetsUpTo(m + 2) = TargetsUpTo(m)
      /\ \A p : GivenUpTo(p, m + 2) = IF line[m + 1] = ValueOption[p]
                                      THEN GivenUpTo(p, m) \cup {m + 2} ELSE GivenUpTo(p, m)
      /\ \A p \in DOMAIN Switch : SwitchedUpTo(p, m + 2) <=> SwitchedUpTo(p, m)
    BY <1>1, OptionAndValue
<1>3. /\ o \in DOMAIN opts /\ o \notin DOMAIN Switch
      /\ \A p \in DOMAIN ValueOption : p # o => ValueOption[p] # ValueOption[o]
    BY Words DEF Initially
<1>4. new[o] = line[m + 2] /\ \A p : p \in DOMAIN opts /\ p # o => new[p] = opts[p] BY <1>3
<1> HIDE DEF new
<1>5. DOMAIN ValueOption \cup DOMAIN Switch \subseteq DOMAIN opts BY Words DEF Initially
<1>6. \A n \in 1..m + 2 : n \notin Separators
  <2>1. m + 1 \notin Separators /\ m + 2 \notin Separators BY <1>1, <1>2 DEF Separators
  <2>2. \A n \in 1..m + 2 : n \in 1..m \/ n = m + 1 \/ n = m + 2 OBVIOUS
  <2> QED BY <2>1, <2>2 DEF Sorted
<1>7. ASSUME NEW p \in DOMAIN ValueOption PROVE OptionIs(p, new[p], m + 2)
  <2>1. CASE p = o
    <3>1. GivenUpTo(p, m + 2) = GivenUpTo(p, m) \cup {m + 2} BY <1>2, <2>1
    <3>2. \A n \in GivenUpTo(p, m) : n <= m + 2
      <4>1. \A n \in GivenUpTo(p, m) : n <= m /\ n \in Nat BY Values DEF GivenUpTo
      <4> QED BY <4>1
    <3>3. Greatest(m + 2, GivenUpTo(p, m + 2)) BY <3>1, <3>2 DEF Greatest
    <3> QED BY <1>4, <2>1, <3>1, <3>3 DEF OptionIs, Greatest
  <2>2. CASE p # o
    <3>1. new[p] = opts[p] /\ GivenUpTo(p, m + 2) = GivenUpTo(p, m)
        BY <1>2, <1>3, <1>4, <1>5, <2>2
    <3>2. OptionIs(p, opts[p], m) BY DEF Sorted
    <3> QED BY <3>1, <3>2 DEF OptionIs
  <2> QED BY <2>1, <2>2
<1>8. ASSUME NEW p \in DOMAIN Switch PROVE new[p] = SwitchedUpTo(p, m + 2)
  <2>1. opts[p] = SwitchedUpTo(p, m) BY DEF Sorted
  <2>2. SwitchedUpTo(p, m + 2) = SwitchedUpTo(p, m) BY <1>2 DEF SwitchedUpTo
  <2> QED BY <1>3, <1>4, <1>5, <2>1, <2>2
<1>9. Sorted(new, words, m + 2)
  <2>1. IsSequenceOf(words, TargetsUpTo(m + 2)) BY <1>2 DEF Sorted
  <2> QED BY <1>6, <1>7, <1>8, <2>1 DEF Sorted
<1> QED BY <1>2, <1>9 DEF new

(* Sorting has come to the end of the command line, or to the separator.   *)
LEMMA FirstFound ==
    ASSUME Len(line) \in Nat, NEW s \in Separators, \A n \in 1..s - 1 : n \notin Separators
    PROVE  First = s
<1>1. Separators \subseteq 1..Len(line) BY DEF Separators
<1>2. \A n \in Separators : s <= n
  <2>1. ASSUME NEW n \in Separators PROVE s <= n
    <3>1. n \in 1..Len(line) /\ s \in 1..Len(line) /\ n \notin 1..s - 1 BY <1>1
    <3> QED BY <3>1
  <2> QED BY <2>1
<1>3. ASSUME NEW n \in Separators, \A k \in Separators : n <= k PROVE n = s
  <2>1. n <= s /\ s <= n /\ n \in Nat /\ s \in Nat BY <1>1, <1>2, <1>3
  <2> QED BY <2>1
<1>4. Separators # {} OBVIOUS
<1> QED BY <1>2, <1>3, <1>4 DEF First

LEMMA AllSorted ==
    ASSUME Len(line) \in Nat, First - 1 \in Nat, First \in Nat,
           NEW opts, NEW words, Sorted(opts, words, First - 1)
    PROVE  /\ IsSequenceOf(words, Targets)
           /\ \A o \in DOMAIN ValueOption : opts[o] = LastGiven(o, Initially[o])
           /\ \A o \in DOMAIN Switch : opts[o] <=> \E n \in 1..First - 1 :
                                                    n \notin IsValue /\ line[n] = Switch[o]
<1>1. Targets = TargetsUpTo(First - 1) BY DEF Targets, TargetsUpTo
<1>2. ASSUME NEW o \in DOMAIN ValueOption PROVE opts[o] = LastGiven(o, Initially[o])
  <2>1. Given(o) = GivenUpTo(o, First - 1)
    <3>1. \A n \in Nat : n < First <=> n <= First - 1 OBVIOUS
    <3>2. IsValue \subseteq Nat BY Values
    <3> QED BY <3>1, <3>2 DEF Given, GivenUpTo
  <2>2. OptionIs(o, opts[o], First - 1) BY DEF Sorted
  <2>3. CASE Given(o) = {} BY <2>1, <2>2, <2>3 DEF OptionIs, LastGiven
  <2>4. CASE Given(o) # {}
    <3>1. PICK n \in Given(o) : Greatest(n, Given(o)) /\ opts[o] = line[n]
        BY <2>1, <2>2, <2>4 DEF OptionIs
    <3>2. Given(o) \subseteq Nat BY Values DEF Given
    <3>3. \A i, j \in Nat : i <= j /\ j <= i => i = j OBVIOUS
    <3>4. Last(Given(o)) = n
      <4>1. \A i \in Given(o) : (\A m \in Given(o) : m <= i) => i = n
          BY <3>1, <3>2, <3>3 DEF Greatest
      <4>2. n \in Given(o) /\ \A m \in Given(o) : m <= n BY <3>1 DEF Greatest
      <4> QED BY <4>1, <4>2 DEF Last
    <3> QED BY <2>4, <3>1, <3>4 DEF LastGiven
  <2> QED BY <2>3, <2>4
<1>3. ASSUME NEW o \in DOMAIN Switch
      PROVE  opts[o] <=> \E n \in 1..First - 1 : n \notin IsValue /\ line[n] = Switch[o]
    BY Zenon DEF Sorted, SwitchedUpTo
<1>4. IsSequenceOf(words, Targets) BY <1>1 DEF Sorted
<1> QED BY <1>2, <1>3, <1>4

-----------------------------------------------------------------------------
(* The steps.                                                              *)
LEMMA ParsingStep ==
    ASSUME SInv, status = "parsing", rest # <<>>, ~Stuck
    PROVE  /\ Shape /\ Len(line) \in Nat /\ Shifted \in Nat
           /\ Shifted + 1 <= Len(line) /\ rest[1] = line[Shifted + 1]
           /\ args_to_forward = <<>> /\ Complete(Shifted) /\ Sorted(options, targets, Shifted)
<1>1. Shape BY DEF SInv
<1> QED BY <1>1, Position DEF SInv, Sorting

LEMMA TakeValueInv ==
    ASSUME SInv, NEW o \in DOMAIN ValueOption, TakeValue(o)
    PROVE  SInv'
<1>1. /\ status = "parsing" /\ rest # <<>> /\ rest[1] = ValueOption[o]
      /\ options' = [options EXCEPT ![o] = IF Len(rest) >= 2 THEN rest[2] ELSE ""]
      /\ rest' = IF Len(rest) >= 2 THEN Tail(Tail(rest)) ELSE rest
      /\ line' = line /\ args_to_forward' = args_to_forward /\ targets' = targets
      /\ status' = status
    BY DEF TakeValue, ShiftTwo
<1>2. Shape /\ Len(rest) \in Nat /\ DOMAIN options' = DOMAIN options BY <1>1, Position DEF SInv
<1>3. CASE ~(Len(rest) >= 2)
  <2>1. rest' = rest /\ Shifted' = Shifted
    <3>1. rest' = rest BY <1>1, <1>3, Zenon
    <3> QED BY <1>1, <3>1 DEF Shifted
  <2>2. Len(rest) = 1
    <3>1. rest # <<>> /\ rest \in Seq(STRING) /\ Len(rest) \in Nat
        BY <1>1, <1>2, Zenon DEF Shape
    <3>2. Len(rest) # 0 BY <3>1
    <3> QED BY <1>3, <3>1, <3>2, OneOrMore, Zenon
  <2>3. rest[1] \in ValueOptions BY <1>1 DEF ValueOptions
  <2>4. Stuck'
    <3>1. ValueOptions' = ValueOptions BY DEF ValueOptions, ValueOption
    <3> QED BY <2>1, <2>2, <2>3, <3>1 DEF Stuck
  <2>5. Shape' BY <1>1, <1>2, <2>1 DEF Shape
  <2> QED BY <1>1, <2>4, <2>5 DEF SInv, Sorting, Forwarding, EveryWordInPlace
<1>4. CASE Len(rest) >= 2
  <2>1. ~Stuck
    <3>1. Len(rest) \in Nat BY <1>2, Zenon
    <3>2. ~(Len(rest) = 1)
      <4>1. \A n \in Nat : n = 1 => ~(n >= 2) BY OneOrMore
      <4> QED BY <1>4, <3>1, <4>1, Zenon
    <3> QED BY <3>2 DEF Stuck
  <2>2. /\ Len(line) \in Nat /\ Shifted \in Nat
        /\ Shifted + 1 <= Len(line) /\ rest[1] = line[Shifted + 1]
        /\ args_to_forward = <<>> /\ Complete(Shifted) /\ Sorted(options, targets, Shifted)
      BY <1>1, <2>1, ParsingStep
  <2>3. rest' = Tail(Tail(rest)) BY <1>1, <1>4
  <2>4. /\ Shifted' = Shifted + 2 /\ Shifted + 2 <= Len(line)
        /\ rest[2] = line[Shifted + 2]
        /\ rest' \in Seq(STRING) /\ Len(rest') <= Len(line')
        /\ \A j \in 1..Len(rest') : rest'[j] = line'[(Shifted + j)']
      BY <1>1, <1>2, <1>4, <2>3, ShiftBoth
  <2>5. options' = [options EXCEPT ![o] = line[Shifted + 2]] BY <1>1, <1>4, <2>4
  <2>6. DOMAIN options = DOMAIN Initially BY <1>2 DEF Shape
  <2>7. Sorted(options', targets, Shifted + 2) /\ Complete(Shifted + 2)
    <3>1. PICK m \in Nat : m = Shifted BY <2>2
    <3>2. /\ Len(line) \in Nat /\ m + 2 <= Len(line) /\ Complete(m)
          /\ Sorted(options, targets, m) /\ line[m + 1] = ValueOption[o]
        BY <1>1, <2>2, <2>4, <3>1, Zenon
    <3>3. /\ Sorted([options EXCEPT ![o] = line[m + 2]], targets, m + 2)
          /\ Complete(m + 2)
        BY <2>6, <3>2, SortValue
    <3> QED BY <2>5, <3>1, <3>3, Zenon
  <2>8. Sorting' BY <1>1, <2>2, <2>4, <2>7, Fixed DEF Sorting
  <2>9. Shape' BY <1>1, <1>2, <2>4 DEF Shape
  <2> QED BY <1>1, <2>8, <2>9 DEF SInv, Forwarding, EveryWordInPlace
<1> QED BY <1>2, <1>3, <1>4

LEMMA TurnOnInv ==
    ASSUME SInv, NEW o \in DOMAIN Switch, TurnOn(o)
    PROVE  SInv'
<1>1. /\ status = "parsing" /\ rest # <<>> /\ rest[1] = Switch[o]
      /\ options' = [options EXCEPT ![o] = TRUE] /\ rest' = Tail(rest)
      /\ line' = line /\ args_to_forward' = args_to_forward /\ targets' = targets
      /\ status' = status
    BY DEF TurnOn
<1>2. ~Stuck BY <1>1, Words DEF Stuck
<1>3. /\ Shape /\ Len(line) \in Nat /\ Shifted \in Nat
      /\ Shifted + 1 <= Len(line) /\ rest[1] = line[Shifted + 1]
      /\ args_to_forward = <<>> /\ Complete(Shifted) /\ Sorted(options, targets, Shifted)
    BY <1>1, <1>2, ParsingStep
<1>4. /\ Shifted' = Shifted + 1
      /\ rest' \in Seq(STRING) /\ Len(rest') <= Len(line')
      /\ \A j \in 1..Len(rest') : rest'[j] = line'[(Shifted + j)']
    BY <1>1, <1>3, ShiftOne
<1>5. DOMAIN options = DOMAIN Initially /\ DOMAIN options' = DOMAIN options
    BY <1>1, <1>3 DEF Shape
<1>6. Sorted(options', targets, Shifted + 1) /\ Complete(Shifted + 1)
    BY <1>1, <1>3, <1>5, SortSwitch
<1>7. Sorting' BY <1>1, <1>3, <1>4, <1>6, Fixed DEF Sorting
<1>8. Shape' BY <1>1, <1>3, <1>4, <1>5 DEF Shape
<1> QED BY <1>1, <1>7, <1>8 DEF SInv, Forwarding, EveryWordInPlace

LEMMA AddTargetInv ==
    ASSUME SInv, AddTarget
    PROVE  SInv'
<1>1. /\ status = "parsing" /\ rest # <<>>
      /\ rest[1] \notin ValueOptions \cup Switches \cup {"--"}
      /\ targets' = Append(targets, rest[1]) /\ rest' = Tail(rest)
      /\ line' = line /\ args_to_forward' = args_to_forward /\ options' = options
      /\ status' = status
    BY DEF AddTarget
<1>2. ~Stuck BY <1>1 DEF Stuck
<1>3. /\ Shape /\ Len(line) \in Nat /\ Shifted \in Nat
      /\ Shifted + 1 <= Len(line) /\ rest[1] = line[Shifted + 1]
      /\ args_to_forward = <<>> /\ Complete(Shifted) /\ Sorted(options, targets, Shifted)
    BY <1>1, <1>2, ParsingStep
<1>4. /\ Shifted' = Shifted + 1
      /\ rest' \in Seq(STRING) /\ Len(rest') <= Len(line')
      /\ \A j \in 1..Len(rest') : rest'[j] = line'[(Shifted + j)']
    BY <1>1, <1>3, ShiftOne
<1>5. targets \in Seq(STRING) /\ rest[1] \in STRING
  <2>1. targets \in Seq(STRING) /\ rest \in Seq(STRING) /\ rest # <<>>
      BY <1>1, <1>3, Zenon DEF Shape
  <2> QED BY <2>1
<1>6. targets' \in Seq(STRING)
  <2>1. Append(targets, rest[1]) \in Seq(STRING) BY <1>5, Appended, Zenon
  <2> QED BY <1>1, <2>1, Zenon
<1>7. Sorted(options, targets', Shifted + 1) /\ Complete(Shifted + 1)
  <2>1. PICK m \in Nat : m = Shifted BY <1>3
  <2>2. /\ Len(line) \in Nat /\ m + 1 <= Len(line) /\ Complete(m)
        /\ Sorted(options, targets, m)
        /\ line[m + 1] \notin ValueOptions \cup Switches \cup {"--"}
      BY <1>1, <1>3, <2>1, Zenon
  <2>3. Sorted(options, Append(targets, line[m + 1]), m + 1) /\ Complete(m + 1)
      BY <1>5, <2>2, SortTarget
  <2> QED BY <1>1, <1>3, <2>1, <2>3, Zenon
<1>8. Sorting' BY <1>1, <1>3, <1>4, <1>7, Fixed DEF Sorting
<1>9. Shape' BY <1>1, <1>3, <1>4, <1>6 DEF Shape
<1> QED BY <1>1, <1>8, <1>9 DEF SInv, Forwarding, EveryWordInPlace

LEMMA SeparatorInv ==
    ASSUME SInv, Separator
    PROVE  SInv'
<1>1. /\ status = "parsing" /\ rest # <<>> /\ rest[1] = "--" /\ rest' = Tail(rest)
      /\ status' = "forwarding" /\ line' = line /\ options' = options
      /\ args_to_forward' = args_to_forward /\ targets' = targets
    BY DEF Separator
<1>2. ~Stuck BY <1>1, Words DEF Stuck
<1>3. /\ Shape /\ Len(line) \in Nat /\ Shifted \in Nat
      /\ Shifted + 1 <= Len(line) /\ rest[1] = line[Shifted + 1]
      /\ args_to_forward = <<>> /\ Complete(Shifted) /\ Sorted(options, targets, Shifted)
    BY <1>1, <1>2, ParsingStep
<1>4. /\ Shifted' = Shifted + 1
      /\ rest' \in Seq(STRING) /\ Len(rest') <= Len(line')
      /\ \A j \in 1..Len(rest') : rest'[j] = line'[(Shifted + j)']
    BY <1>1, <1>3, ShiftOne
<1>5. PICK m \in Nat : m = Shifted BY <1>3
<1>6. m + 1 \in Separators
  <2>1. m + 1 \notin IsValue BY <1>3, <1>5, OneWord
  <2>2. m + 1 \in 1..Len(line) BY <1>3, <1>5
  <2> QED BY <1>1, <1>3, <1>5, <2>1, <2>2 DEF Separators
<1>7. First = m + 1
  <2>1. m + 1 - 1 = m OBVIOUS
  <2>2. \A n \in 1..m : n \notin Separators BY <1>3, <1>5 DEF Sorted
  <2> QED BY <1>3, <1>6, <2>1, <2>2, FirstFound
<1>8. SubSeq(line, m + 1 + 1, m + 1) = <<>>
  <2>1. line \in Seq(STRING) BY <1>3, ScriptArgsAssumption DEF Shape, ScriptArgsAssumption
  <2> QED BY <2>1
<1>9. Forwarding'
  <2>1. m + 1 - 1 = m /\ m + 1 <= m + 1 OBVIOUS
  <2>2. Shifted' = m + 1 /\ Sorted(options, targets, m + 1 - 1) BY <1>3, <1>4, <1>5, <2>1
  <2>3. PICK s : s = m + 1 OBVIOUS
  <2>4. /\ s \in Separators' /\ s <= Shifted' /\ First' = s
        /\ args_to_forward' = SubSeq(line', s + 1, Shifted')
        /\ Sorted(options, targets, s - 1)'
      BY <1>1, <1>3, <1>6, <1>7, <1>8, <2>1, <2>2, <2>3, Fixed
  <2> QED BY <1>1, <2>4 DEF Forwarding
<1>10. Shape' BY <1>1, <1>3, <1>4 DEF Shape
<1> QED BY <1>1, <1>9, <1>10 DEF SInv, Sorting, EveryWordInPlace

LEMMA ForwardInv ==
    ASSUME SInv, Forward
    PROVE  SInv'
<1>1. /\ status = "forwarding" /\ rest # <<>> /\ rest' = Tail(rest)
      /\ args_to_forward' = Append(args_to_forward, rest[1])
      /\ status' = status /\ line' = line /\ options' = options /\ targets' = targets
    BY DEF Forward
<1>2. Shape BY DEF SInv
<1>3. /\ Len(line) \in Nat /\ Shifted \in Nat
      /\ Shifted + 1 <= Len(line) /\ rest[1] = line[Shifted + 1]
    BY <1>1, <1>2, Position
<1>4. /\ Shifted' = Shifted + 1
      /\ rest' \in Seq(STRING) /\ Len(rest') <= Len(line')
      /\ \A j \in 1..Len(rest') : rest'[j] = line'[(Shifted + j)']
    BY <1>1, <1>2, ShiftOne
<1>5. PICK s \in Separators :
          /\ s <= Shifted /\ First = s
          /\ args_to_forward = SubSeq(line, s + 1, Shifted)
          /\ Sorted(options, targets, s - 1)
    BY <1>1 DEF SInv, Forwarding
<1>6. s \in Nat /\ s >= 1 BY <1>3 DEF Separators
<1>7. line \in Seq(STRING) BY <1>2, ScriptArgsAssumption DEF Shape, ScriptArgsAssumption
<1>8. PICK m \in Nat : m = Shifted BY <1>3
<1>9. Append(SubSeq(line, s + 1, m), line[m + 1]) = SubSeq(line, s + 1, m + 1)
  <2>1. s <= m /\ m + 1 <= Len(line) BY <1>3, <1>5, <1>8
  <2> QED BY <1>3, <1>6, <1>7, <2>1
<1>10. args_to_forward' = SubSeq(line, s + 1, m + 1) BY <1>1, <1>3, <1>5, <1>8, <1>9, Zenon
<1>11. args_to_forward' \in Seq(STRING) BY <1>3, <1>6, <1>7, <1>8, <1>10
<1>12. Forwarding'
  <2>1. s <= m + 1 BY <1>5, <1>6, <1>8
  <2>2. /\ (s \in Separators)' /\ s <= Shifted' /\ First' = s
        /\ args_to_forward' = SubSeq(line', s + 1, Shifted')
        /\ Sorted(options, targets, s - 1)'
      BY <1>1, <1>4, <1>5, <1>8, <1>10, <2>1, Fixed
  <2> QED BY <1>1, <2>2 DEF Forwarding
<1>13. Shape' BY <1>1, <1>2, <1>4, <1>11 DEF Shape
<1> QED BY <1>1, <1>12, <1>13 DEF SInv, Sorting, EveryWordInPlace

LEMMA ParsedInv ==
    ASSUME SInv, Parsed
    PROVE  SInv'
<1>1. /\ status # "parsed" /\ rest = <<>> /\ status' = "parsed"
      /\ options' = [options EXCEPT !.output_dir = IF options.output_dir = ""
                                                   THEN options.base_dir
                                                   ELSE options.output_dir]
      /\ line' = line /\ rest' = rest /\ args_to_forward' = args_to_forward
      /\ targets' = targets
    BY DEF Parsed
<1>2. Shape BY DEF SInv
<1>3. Len(line) \in Nat /\ Shifted \in Nat /\ Shifted = Len(line) BY <1>1, <1>2, Position
<1>4. DOMAIN options = {"base_dir", "output_dir", "use_multithreaded", "use_nix"}
    BY <1>2 DEF Shape, Initially
<1>5. /\ Sorted(options, targets, First - 1) /\ First \in Nat /\ First - 1 \in Nat
      /\ args_to_forward = SubSeq(line, First + 1, Len(line))
      /\ ~ValueMissing
  <2>1. CASE status = "parsing"
    <3>1. ~Stuck
      <4>1. Len(rest) = 0 BY <1>1
      <4> QED BY <4>1 DEF Stuck
    <3>2. /\ args_to_forward = <<>> /\ Complete(Shifted) /\ Sorted(options, targets, Shifted)
        BY <2>1, <3>1 DEF SInv, Sorting
    <3>3. First = Len(line) + 1
      <4>1. Separators \subseteq 1..Len(line) BY DEF Separators
      <4>2. \A n \in 1..Len(line) : n \notin Separators BY <1>3, <3>2 DEF Sorted
      <4>3. Separators = {} BY <4>1, <4>2
      <4> QED BY <4>3 DEF First
    <3>4. First - 1 = Len(line) /\ First \in Nat BY <1>3, <3>3
    <3>5. args_to_forward = SubSeq(line, First + 1, Len(line))
      <4>1. line \in Seq(STRING) BY <1>2, ScriptArgsAssumption DEF Shape, ScriptArgsAssumption
      <4>2. SubSeq(line, Len(line) + 1 + 1, Len(line)) = <<>> BY <1>3, <4>1
      <4> QED BY <3>2, <3>3, <4>2
    <3>6. ~ValueMissing
      <4>1. line \in Seq(STRING) BY <1>2, ScriptArgsAssumption DEF Shape, ScriptArgsAssumption
      <4>2. line # <<>> => Len(line) >= 1 BY <4>1
      <4> QED BY <1>3, <3>2, <4>2, Zenon DEF ValueMissing, Complete
    <3> QED BY <1>3, <3>2, <3>4, <3>5, <3>6
  <2>2. CASE status = "forwarding"
    <3>1. PICK s \in Separators :
              /\ s <= Shifted /\ First = s
              /\ args_to_forward = SubSeq(line, s + 1, Shifted)
              /\ Sorted(options, targets, s - 1)
        BY <2>2 DEF SInv, Forwarding
    <3>2. s \in Nat /\ s - 1 \in Nat BY <1>3 DEF Separators
    <3>3. ~(First > Len(line)) BY <1>3, <3>1, <3>2
    <3> QED BY <1>3, <3>1, <3>2, <3>3 DEF ValueMissing
  <2> QED BY <1>1, <1>2, <2>1, <2>2 DEF Shape
<1>6. /\ IsSequenceOf(targets, Targets)
      /\ \A o \in DOMAIN ValueOption : options[o] = LastGiven(o, Initially[o])
      /\ \A o \in DOMAIN Switch : options[o] <=> \E n \in 1..First - 1 :
                                               n \notin IsValue /\ line[n] = Switch[o]
    BY <1>3, <1>5, AllSorted
<1>7. /\ options.base_dir = LastGiven("base_dir", ".")
      /\ options.output_dir = LastGiven("output_dir", "")
    BY <1>6, Words DEF Initially
<1>8. /\ options'.base_dir = options.base_dir
      /\ options'.output_dir = IF options.output_dir = "" THEN options.base_dir
                               ELSE options.output_dir
      /\ options'.use_multithreaded = options.use_multithreaded
      /\ options'.use_nix = options.use_nix
      /\ DOMAIN options' = DOMAIN options
    BY <1>1, <1>4
<1>9. line' = line /\ rest' = rest /\ args_to_forward' = args_to_forward /\ targets' = targets
    BY <1>1, Zenon
<1>10. \A o \in DOMAIN Switch :
          options'[o] <=> \E n \in 1..First - 1 : n \notin IsValue /\ line[n] = Switch[o]
  <2>1. \A o \in DOMAIN Switch : options'[o] = options[o] BY <1>8, Words
  <2> QED BY <1>6, <2>1, Zenon
<1>11. EveryWordInPlace'
  <2>1. ~ValueMissing' /\ args_to_forward' = SubSeq(line', First' + 1, Len(line'))
      BY <1>5, <1>9, Fixed
  <2>2. IsSequenceOf(targets, Targets)' BY <1>6, <1>9, SameWords
  <2>3. /\ options'.base_dir = LastGiven("base_dir", ".")'
        /\ options'.output_dir = IF LastGiven("output_dir", "")' = ""
                                 THEN LastGiven("base_dir", ".")'
                                 ELSE LastGiven("output_dir", "")'
      BY <1>1, <1>7, <1>8, Fixed
  <2>4. \A o \in DOMAIN Switch' :
            options'[o] <=> \E n \in 1..First' - 1 : n \notin IsValue' /\ line'[n] = Switch'[o]
    <3>1. First' = First /\ IsValue' = IsValue BY <1>1, Fixed
    <3>2. Switch' = Switch BY DEF Switch
    <3> QED BY <1>9, <1>10, <3>1, <3>2
  <2> QED BY <2>1, <2>2, <2>3, <2>4 DEF EveryWordInPlace
<1>12. Shape'
  <2>1. Shifted' = Shifted BY <1>9 DEF Shifted
  <2> QED BY <1>1, <1>2, <1>8, <2>1 DEF Shape
<1> QED BY <1>1, <1>11, <1>12 DEF SInv, Sorting, Forwarding

-----------------------------------------------------------------------------
LEMMA SInvInit == Init => SInv
<1> SUFFICES ASSUME Init PROVE SInv OBVIOUS
<1>1. /\ line \in CommandLine /\ rest = line /\ options = Initially
      /\ args_to_forward = <<>> /\ targets = <<>> /\ status = "parsing"
    BY DEF Init
<1>2. line \in Seq(STRING) /\ Len(line) \in Nat
    BY <1>1, ScriptArgsAssumption DEF ScriptArgsAssumption
<1>3. Shifted = 0 BY <1>1, <1>2 DEF Shifted
<1>4. \A S : <<>> \in Seq(S) OBVIOUS
<1>5. Shape
  <2>1. \A j \in 1..Len(line) : Shifted + j = j BY <1>3
  <2>2. Len(line) <= Len(line) BY <1>2
  <2> QED BY <1>1, <1>2, <1>4, <2>1, <2>2 DEF Shape
<1>6. Complete(0) BY DEF Complete
<1>7. Sorted(options, targets, 0)
  <2>1. 1..0 = {} OBVIOUS
  <2>2. \A o : GivenUpTo(o, 0) = {}
    <3>1. \A n \in 1..Len(line) : ~(n <= 0) OBVIOUS
    <3> QED BY <1>2, <3>1, Values DEF GivenUpTo
  <2>3. TargetsUpTo(0) = {} BY <2>1 DEF TargetsUpTo
  <2>4. IsSequenceOf(<<>>, {})
    <3>1. Len(<<>>) = 0 OBVIOUS
    <3>2. [i \in {} |-> 0] \in [{} -> {}] OBVIOUS
    <3> QED BY <2>1, <3>1, <3>2 DEF IsSequenceOf
  <2>5. \A o \in DOMAIN ValueOption : OptionIs(o, options[o], 0) BY <1>1, <2>2 DEF OptionIs
  <2>6. \A o \in DOMAIN Switch : options[o] = SwitchedUpTo(o, 0)
    <3>1. \A o \in DOMAIN Switch : options[o] = FALSE
      <4>1. options["use_multithreaded"] = FALSE /\ options["use_nix"] = FALSE
          BY <1>1 DEF Initially
      <4> QED BY <4>1, Words
    <3>2. \A o : SwitchedUpTo(o, 0) = FALSE BY <2>1 DEF SwitchedUpTo
    <3> QED BY <3>1, <3>2
  <2> QED BY <1>1, <2>1, <2>3, <2>4, <2>5, <2>6 DEF Sorted
<1> QED BY <1>1, <1>3, <1>5, <1>6, <1>7 DEF SInv, Sorting, Forwarding, EveryWordInPlace

LEMMA SInvStep == SInv /\ [Next]_vars => SInv'
<1> SUFFICES ASSUME SInv, [Next]_vars PROVE SInv' OBVIOUS
<1>1. CASE UNCHANGED vars
  <2>1. /\ line' = line /\ rest' = rest /\ options' = options /\ targets' = targets
        /\ args_to_forward' = args_to_forward /\ status' = status
      BY <1>1 DEF vars
  <2>2. Shifted' = Shifted /\ ValueOptions' = ValueOptions /\ Switch' = Switch
      BY <2>1 DEF Shifted, ValueOptions, ValueOption, Switch
  <2>3. Shape' BY <2>1, <2>2 DEF SInv, Shape
  <2>4. Sorting' BY <2>1, <2>2, Fixed DEF SInv, Sorting, Stuck
  <2>5. Forwarding' BY <2>1, <2>2, Fixed DEF SInv, Forwarding
  <2>6. EveryWordInPlace' BY <2>1, <2>2, Fixed, SameWords DEF SInv, EveryWordInPlace
  <2> QED BY <2>3, <2>4, <2>5, <2>6 DEF SInv
<1> QED BY <1>1, TakeValueInv, TurnOnInv, SeparatorInv, ForwardInv, AddTargetInv, ParsedInv
        DEF Next

(* For all command lines: each word of the script's arguments ends up in   *)
(* its place, once.                                                        *)
THEOREM WordsInPlace == Spec => []EveryWordInPlace
<1>1. SInv => EveryWordInPlace BY DEF SInv
<1> QED BY <1>1, SInvInit, SInvStep, PTL DEF Spec
===============================================================================

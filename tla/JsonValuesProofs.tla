-------------------------- MODULE JsonValuesProofs --------------------------
(***************************************************************************)
(* Proofs about JsonValues: what was written as text is read again, for     *)
(* every hash and every number.                                             *)
(***************************************************************************)
EXTENDS JsonValues, SequenceTheorems, WellFoundedInduction, TLAPS

Bytes == 0..255

(***************************************************************************)
(* Characters                                                               *)
(***************************************************************************)

LEMMA HexChars ==
    ASSUME NEW i \in 1..16
    PROVE  /\ HexTable[i] \in HexDigits
           /\ char_to_int(HexTable[i]) = i - 1
<1>1. HexTable[i] \in HexDigits
  BY DEF HexDigits
<1>2. \A j, k \in 1..16 : HexTable[j] = HexTable[k] => j = k
  BY DEF HexTable
<1>3. (CHOOSE j \in 1..16 : HexTable[j] = HexTable[i]) = i
  BY <1>2
<1>. QED  BY <1>1, <1>3 DEF char_to_int

LEMMA DigitChars ==
    ASSUME NEW i \in 1..10
    PROVE  HexTable[i] \in Digits
BY DEF Digits

\* The character of a number below sixteen, and the number of that character.
LEMMA CharOf ==
    ASSUME NEW i \in 0..15
    PROVE  /\ HexTable[i + 1] \in HexDigits
           /\ char_to_int(HexTable[i + 1]) = i
           /\ i < 10 => HexTable[i + 1] \in Digits
<1>1. i + 1 \in 1..16 /\ (i + 1) - 1 = i /\ (i < 10 => i + 1 \in 1..10)
  OBVIOUS
<1>2. char_to_int(HexTable[i + 1]) = (i + 1) - 1
  BY <1>1, HexChars
<1>. QED  BY <1>1, <1>2, HexChars, DigitChars

LEMMA DigitsAreHex == Digits \subseteq HexDigits
BY DEF Digits, HexDigits

LEMMA CharNumbers == ASSUME NEW c PROVE char_to_int(c) \in 0..15
<1>1. CASE c \in HexDigits
  <2>1. PICK i \in 1..16 : HexTable[i] = c
    BY <1>1 DEF HexDigits
  <2>. QED  BY <2>1, HexChars
<1>2. CASE c \notin HexDigits /\ \E i \in 1..6 : UpperHex[i] = c
  <2>. DEFINE i == CHOOSE i \in 1..6 : UpperHex[i] = c
  <2>1. i \in 1..6
    BY <1>2
  <2>2. char_to_int(c) = i + 9
    BY <1>2 DEF char_to_int
  <2>. HIDE DEF i
  <2>. QED  BY <2>1, <2>2
<1>3. CASE c \notin HexDigits /\ ~\E i \in 1..6 : UpperHex[i] = c
  BY <1>3 DEF char_to_int
<1>. QED  BY <1>1, <1>2, <1>3

(***************************************************************************)
(* Hashes                                                                   *)
(***************************************************************************)

LEMMA Halves ==
    ASSUME NEW n \in Bytes
    PROVE  /\ n \div 16 \in 0..15 /\ (n \div 16) + 1 \in 1..16
           /\ (n % 16) \in 0..15 /\ (n % 16) + 1 \in 1..16
           /\ 16 * (n \div 16) + (n % 16) = n
BY DEF Bytes

LEMMA HexText ==
    ASSUME NEW b \in Seq(Bytes)
    PROVE  /\ hexstring(b) \in Seq(HexDigits)
           /\ Len(hexstring(b)) = 2 * Len(b)
           /\ \A i \in 1..Len(b) :
                 /\ 2 * i - 1 \in 1..(2 * Len(b)) /\ 2 * i \in 1..(2 * Len(b))
                 /\ hexstring(b)[2 * i - 1] = HexTable[(b[i] \div 16) + 1]
                 /\ hexstring(b)[2 * i] = HexTable[(b[i] % 16) + 1]
<1>. DEFINE n == Len(b)
            h == hexstring(b)
<1>0. n \in Nat /\ \A i \in 1..n : b[i] \in Bytes
  OBVIOUS
<1>. HIDE DEF n
<1>1. \A i \in 1..(2 * n) : /\ i % 2 = 1 => (i + 1) \div 2 \in 1..n
                            /\ i % 2 # 1 => i \div 2 \in 1..n
  BY <1>0
<1>2. h = [i \in 1..(2 * n) |->
              IF i % 2 = 1 THEN HexTable[(b[(i + 1) \div 2] \div 16) + 1]
                           ELSE HexTable[(b[i \div 2] % 16) + 1]]
  BY DEF hexstring, n
<1>. HIDE DEF h
<1>3. \A i \in 1..(2 * n) : h[i] \in HexDigits
  <2>. SUFFICES ASSUME NEW i \in 1..(2 * n) PROVE h[i] \in HexDigits
    OBVIOUS
  <2>1. CASE i % 2 = 1
    <3>1. b[(i + 1) \div 2] \in Bytes
      BY <1>0, <1>1, <2>1
    <3>2. h[i] = HexTable[(b[(i + 1) \div 2] \div 16) + 1]
      BY <1>2, <2>1
    <3>. QED  BY <3>1, <3>2, Halves, HexChars
  <2>2. CASE i % 2 # 1
    <3>1. b[i \div 2] \in Bytes
      BY <1>0, <1>1, <2>2
    <3>2. h[i] = HexTable[(b[i \div 2] % 16) + 1]
      BY <1>2, <2>2
    <3>. QED  BY <3>1, <3>2, Halves, HexChars
  <2>. QED  BY <2>1, <2>2
<1>4. h \in Seq(HexDigits) /\ Len(h) = 2 * n
  <2>1. 2 * n \in Nat
    BY <1>0
  <2>2. h \in [1..(2 * n) -> HexDigits]
    BY <1>2, <1>3
  <2>. QED  BY <2>1, <2>2
<1>5. ASSUME NEW i \in 1..n
      PROVE  /\ 2 * i - 1 \in 1..(2 * n) /\ 2 * i \in 1..(2 * n)
             /\ h[2 * i - 1] = HexTable[(b[i] \div 16) + 1]
             /\ h[2 * i] = HexTable[(b[i] % 16) + 1]
  <2>1. /\ 2 * i - 1 \in 1..(2 * n) /\ 2 * i \in 1..(2 * n)
        /\ (2 * i - 1) % 2 = 1 /\ ((2 * i - 1) + 1) \div 2 = i
        /\ (2 * i) % 2 # 1 /\ (2 * i) \div 2 = i
    BY <1>0
  <2>2. h[2 * i - 1] = HexTable[(b[((2 * i - 1) + 1) \div 2] \div 16) + 1]
    BY <1>2, <2>1
  <2>3. h[2 * i] = HexTable[(b[(2 * i) \div 2] % 16) + 1]
    BY <1>2, <2>1
  <2>. QED  BY <2>1, <2>2, <2>3
<1>. QED  BY <1>4, <1>5 DEF h, n

(***************************************************************************)
(* Bytes that were written as a hex string, of whatever length, are read    *)
(* again as they were: keys, srd hashes and hashes of files (hexstring,     *)
(* hex_string_to_bytes).                                                    *)
(***************************************************************************)
THEOREM HexRoundTrip ==
    ASSUME NEW b \in Seq(Bytes)
    PROVE  hex_string_to_bytes(hexstring(b)) = b
<1>. DEFINE n == Len(b)
            h == hexstring(b)
            r == hex_string_to_bytes(h)
<1>0. n \in Nat /\ \A i \in 1..n : b[i] \in Bytes
  OBVIOUS
<1>1. /\ Len(h) = 2 * n
      /\ \A i \in 1..n : /\ h[2 * i - 1] = HexTable[(b[i] \div 16) + 1]
                         /\ h[2 * i] = HexTable[(b[i] % 16) + 1]
  BY HexText
<1>. HIDE DEF n, h
<1>2. (2 * n) % 2 = 0 /\ (2 * n) \div 2 = n
  BY <1>0
<1>3. r = [i \in 1..n |-> char_to_int(h[2 * i - 1]) * 16
                              + char_to_int(h[2 * i])]
  BY <1>1, <1>2 DEF hex_string_to_bytes
<1>. HIDE DEF r
<1>4. ASSUME NEW i \in 1..n
      PROVE  r[i] = b[i]
  <2>1. b[i] \in Bytes
    BY <1>0
  <2>2. /\ char_to_int(h[2 * i - 1]) = b[i] \div 16
        /\ char_to_int(h[2 * i]) = b[i] % 16
    <3>1. b[i] \div 16 \in 0..15 /\ (b[i] % 16) \in 0..15
      BY <2>1, Halves
    <3>. QED  BY <1>1, <3>1, CharOf
  <2>3. r[i] = 16 * (b[i] \div 16) + (b[i] % 16)
    <3>1. r[i] = char_to_int(h[2 * i - 1]) * 16 + char_to_int(h[2 * i])
      BY <1>3
    <3>2. r[i] = (b[i] \div 16) * 16 + (b[i] % 16)
      BY <2>2, <3>1, Zenon
    <3>3. b[i] \div 16 \in Int
      BY <2>1, Halves
    <3>4. (b[i] \div 16) * 16 = 16 * (b[i] \div 16)
      BY <3>3
    <3>. QED  BY <3>2, <3>4, Zenon
  <2>. QED  BY <2>1, <2>3, Halves
<1>5. b = [i \in 1..n |-> b[i]]
  BY DEF n
<1>6. r = [i \in 1..n |-> b[i]]
  BY <1>3, <1>4
<1>. QED  BY <1>5, <1>6 DEF r, h

LEMMA ConsProperties ==
    ASSUME NEW S, NEW e \in S, NEW s \in Seq(S)
    PROVE  /\ <<e>> \o s \in Seq(S) /\ <<e>> \o s # <<>>
           /\ Head(<<e>> \o s) = e
           /\ Tail(<<e>> \o s) = s
<1>. DEFINE t == <<e>> \o s
<1>0. <<e>> \in Seq(S) /\ Len(<<e>>) = 1 /\ Len(s) \in Nat
  BY LenProperties
<1>1. /\ t \in Seq(S) /\ Len(t) = 1 + Len(s)
      /\ \A i \in 1..(1 + Len(s)) : t[i] = IF i <= 1 THEN <<e>>[i] ELSE s[i - 1]
  BY <1>0, ConcatProperties
<1>. HIDE DEF t
<1>2. t # <<>>
  BY <1>0, <1>1, EmptySeq
<1>3. Head(t) = e
  BY <1>0, <1>1, <1>2
<1>4. /\ Tail(t) \in Seq(S) /\ Len(Tail(t)) = Len(s)
      /\ \A i \in 1..Len(s) : Tail(t)[i] = t[i + 1]
  BY <1>0, <1>1, <1>2, HeadTailProperties
<1>5. \A i \in 1..Len(s) : t[i + 1] = s[i]
  BY <1>0, <1>1
<1>6. Tail(t) = s
  BY <1>4, <1>5, SeqEqual
<1>. QED  BY <1>1, <1>2, <1>3, <1>6 DEF t

(***************************************************************************)
(* A hash that dump has written behind its tag is parsed as that hash, not  *)
(* as a string and not cut (dump, parse_string).                            *)
(***************************************************************************)
THEOREM HashIsParsed ==
    ASSUME NEW b \in Seq(Bytes), Len(b) = HashLength
    PROVE  Untagged(<<HASH_TAG>> \o hexstring(b)) = Hash(b)
<1>. DEFINE h == hexstring(b)
            t == <<HASH_TAG>> \o h
            S == HexDigits \cup {HASH_TAG}
<1>1. h \in Seq(HexDigits)
  BY HexText
<1>. HIDE DEF h
<1>2. h \in Seq(S)
  BY <1>1, SeqMonotonic
<1>3. t # <<>> /\ Head(t) = HASH_TAG /\ Tail(t) = h
  BY <1>2, ConsProperties
<1>4. hex_string_to_bytes(h) = b
  BY HexRoundTrip DEF h
<1>5. b # <<>>
  BY JsonAssumption, EmptySeq
<1>6. SubSeq(b, 1, HashLength) = b
  BY SubSeqFull
<1>. HIDE DEF t
<1>. SUFFICES Untagged(t) = Hash(b)
  BY DEF t, h
<1>. QED  BY <1>3, <1>4, <1>5, <1>6 DEF Untagged

(***************************************************************************)
(* Numbers                                                                  *)
(***************************************************************************)

\* A set of numbers that is not empty has a least element.
LEMMA Least ==
    ASSUME NEW T, T \subseteq Nat, T # {}
    PROVE  \E n \in T : \A m \in T : n <= m
<1>. DEFINE R == OpToRel(<, Nat)
<1>1. IsWellFoundedOn(R, Nat)
  BY NatLessThanWellFounded
<1>. HIDE DEF R
<1>2. PICK n \in T : \A m \in T : ~(<<m, n>> \in R)
  BY <1>1, WFMin
<1>3. \A m \in T : ~(m < n)
  BY <1>2 DEF R, OpToRel
<1>. QED  BY <1>3

\* v is the value of each of the beginnings of s up to its kth character.
Values(v, s, k) ==
    v = [j \in 0..k |-> IF j = 0 THEN 0
                        ELSE 10 * v[j - 1] + char_to_int(s[j])]

LEMMA ValueIs ==
    ASSUME NEW s
    PROVE  Value(s) = (CHOOSE v : Values(v, s, Leading(s)))[Leading(s)]
BY DEF Value, Values

LEMMA ValuesExist ==
    ASSUME NEW s, NEW k \in Nat
    PROVE  \E v : Values(v, s, k)
<1>. DEFINE T == {n \in Nat : ~ \E v : Values(v, s, n)}
<1>. SUFFICES ASSUME T # {} PROVE FALSE
  OBVIOUS
<1>1. PICK n \in T : \A m \in T : n <= m
  BY Least
<1>2. n # 0
  <2>. SUFFICES ASSUME n = 0 PROVE FALSE
    OBVIOUS
  <2>. DEFINE v == [j \in 0..0 |-> 0]
  <2>1. Values(v, s, 0)
    BY DEF Values
  <2>. QED  BY <2>1
<1>3. n \in Nat /\ n - 1 \in Nat /\ n - 1 \notin T
  BY <1>1, <1>2
<1>4. PICK w : Values(w, s, n - 1)
  BY <1>3
<1>. DEFINE v == [j \in 0..n |-> IF j < n THEN w[j]
                                 ELSE 10 * w[n - 1] + char_to_int(s[n])]
<1>5. ASSUME NEW j \in 0..n
      PROVE  v[j] = IF j = 0 THEN 0 ELSE 10 * v[j - 1] + char_to_int(s[j])
  <2>1. CASE j = n
    BY <1>2, <1>3, <2>1
  <2>2. CASE j < n
    <3>1. j \in 0..(n - 1) /\ (j # 0 => j - 1 \in 0..n /\ j - 1 < n)
      BY <1>3, <2>2
    <3>2. w[j] = IF j = 0 THEN 0 ELSE 10 * w[j - 1] + char_to_int(s[j])
      BY <1>4, <3>1 DEF Values
    <3>. QED  BY <2>2, <3>1, <3>2
  <2>. QED  BY <1>3, <2>1, <2>2
<1>. HIDE DEF v
<1>6. Values(v, s, n)
  <2>1. v = [j \in 0..n |-> v[j]]
    BY DEF v
  <2>. QED  BY <1>5, <2>1 DEF Values
<1>. QED  BY <1>1, <1>6

\* Texts that begin alike have beginnings of the same values.
LEMMA ValuesAgree ==
    ASSUME NEW s, NEW t, NEW k \in Nat, NEW l \in Nat, k <= l,
           \A j \in 1..k : s[j] = t[j],
           NEW v, NEW w, Values(v, s, k), Values(w, t, l)
    PROVE  \A j \in 0..k : v[j] = w[j] /\ v[j] \in Nat
<1>. DEFINE T == {j \in 0..k : ~(v[j] = w[j] /\ v[j] \in Nat)}
<1>. SUFFICES ASSUME T # {} PROVE FALSE
  OBVIOUS
<1>0. T \subseteq Nat
  OBVIOUS
<1>1. PICK j \in T : \A m \in T : j <= m
  BY <1>0, Least
<1>2. j \in 0..k /\ j \in 0..l
  BY <1>1
<1>3. /\ v[j] = IF j = 0 THEN 0 ELSE 10 * v[j - 1] + char_to_int(s[j])
      /\ w[j] = IF j = 0 THEN 0 ELSE 10 * w[j - 1] + char_to_int(t[j])
  BY <1>2 DEF Values
<1>4. j # 0
  BY <1>1, <1>3
<1>5. j - 1 \in 0..k /\ j - 1 \notin T /\ j \in 1..k
  BY <1>1, <1>2, <1>4
<1>6. v[j - 1] = w[j - 1] /\ v[j - 1] \in Nat
  BY <1>5
<1>7. s[j] = t[j] /\ char_to_int(s[j]) \in Nat
  BY <1>5, CharNumbers
<1>8. v[j] = 10 * v[j - 1] + char_to_int(s[j]) /\ v[j] = w[j]
  BY <1>3, <1>4, <1>6, <1>7
<1>9. v[j] \in Nat
  BY <1>6, <1>7, <1>8
<1>. QED  BY <1>1, <1>8, <1>9

LEMMA AllLeading ==
    ASSUME NEW s \in Seq(Digits)
    PROVE  Leading(s) = Len(s)
<1>. DEFINE P(k) == /\ \A i \in 1..k : s[i] \in Digits
                    /\ k < Len(s) => s[k + 1] \notin Digits
<1>0. Len(s) \in Nat /\ \A i \in 1..Len(s) : s[i] \in Digits
  BY LenProperties
<1>1. Len(s) \in 0..Len(s) /\ P(Len(s))
  BY <1>0
<1>2. ASSUME NEW k \in 0..Len(s), P(k)
      PROVE  k = Len(s)
  <2>1. k < Len(s) => k + 1 \in 1..Len(s)
    BY <1>0
  <2>. QED  BY <1>0, <1>2, <2>1
<1>3. Leading(s) = CHOOSE k \in 0..Len(s) : P(k)
  BY DEF Leading
<1>. HIDE DEF P
<1>. QED  BY <1>1, <1>2, <1>3

\* Any solution of the recursion gives the value.
LEMMA ValueOf ==
    ASSUME NEW s \in Seq(Digits), NEW v, Values(v, s, Len(s))
    PROVE  Value(s) = v[Len(s)] /\ Value(s) \in Nat
<1>. DEFINE w == CHOOSE u : Values(u, s, Len(s))
<1>0. Len(s) \in Nat
  BY LenProperties
<1>1. Values(w, s, Len(s))
  BY <1>0, ValuesExist
<1>2. Value(s) = w[Len(s)]
  BY ValueIs, AllLeading
<1>. HIDE DEF w
<1>3. \A j \in 0..Len(s) : v[j] = w[j] /\ v[j] \in Nat
  BY <1>0, <1>1, ValuesAgree
<1>. QED  BY <1>0, <1>2, <1>3

LEMMA ValueOfAppend ==
    ASSUME NEW s \in Seq(Digits), NEW c \in Digits
    PROVE  Value(Append(s, c)) = 10 * Value(s) + char_to_int(c)
<1>. DEFINE t == Append(s, c)
            n == Len(s)
<1>0. n \in Nat /\ n + 1 \in Nat
  BY LenProperties
<1>1. /\ t \in Seq(Digits) /\ Len(t) = n + 1 /\ t[n + 1] = c
      /\ \A i \in 1..n : s[i] = t[i]
  BY AppendProperties
<1>. HIDE DEF t, n
<1>2. PICK v : Values(v, s, n)
  BY <1>0, ValuesExist
<1>3. PICK w : Values(w, t, n + 1)
  BY <1>0, ValuesExist
<1>4. v[n] = w[n]
  <2>1. n <= n + 1 /\ n \in 0..n
    BY <1>0
  <2>2. \A j \in 0..n : v[j] = w[j] /\ v[j] \in Nat
    BY <1>0, <1>1, <1>2, <1>3, <2>1, ValuesAgree
  <2>. QED  BY <2>1, <2>2
<1>5. w[n + 1] = 10 * w[n] + char_to_int(c)
  BY <1>0, <1>1, <1>3 DEF Values
<1>6. Value(s) = v[n] /\ Value(t) = w[n + 1]
  BY <1>1, <1>2, <1>3, ValueOf DEF n
<1>. QED  BY <1>4, <1>5, <1>6 DEF t

LEMMA ValueOfOne ==
    ASSUME NEW c \in Digits
    PROVE  <<c>> \in Seq(Digits) /\ Value(<<c>>) = char_to_int(c)
<1>. DEFINE t == <<c>>
<1>1. t \in Seq(Digits) /\ Len(t) = 1 /\ t[1] = c
  OBVIOUS
<1>. HIDE DEF t
<1>2. PICK w : Values(w, t, 1)
  BY ValuesExist
<1>3. w[0] = 0 /\ w[1] = 10 * w[0] + char_to_int(c)
  BY <1>1, <1>2 DEF Values
<1>4. Value(t) = w[1]
  BY <1>1, <1>2, ValueOf
<1>5. char_to_int(c) \in Int
  BY CharNumbers
<1>. QED  BY <1>1, <1>3, <1>4, <1>5 DEF t

\* g has the digits of each number up to n.
Decimals(g, n) ==
    g = [m \in 0..n |-> IF m < 10 THEN <<HexTable[m + 1]>>
                        ELSE Append(g[m \div 10], HexTable[(m % 10) + 1])]

LEMMA DecimalIs ==
    ASSUME NEW n
    PROVE  Decimal(n) = (CHOOSE g : Decimals(g, n))[n]
BY DEF Decimal, Decimals

LEMMA Tenth ==
    ASSUME NEW m \in Nat, m >= 10
    PROVE  /\ m \div 10 \in Nat /\ m \div 10 < m
           /\ (m % 10) \in 0..15 /\ (m % 10) < 10
           /\ 10 * (m \div 10) + (m % 10) = m
OBVIOUS

LEMMA DecimalsExist ==
    ASSUME NEW k \in Nat
    PROVE  \E g : Decimals(g, k)
<1>. DEFINE T == {n \in Nat : ~ \E g : Decimals(g, n)}
<1>. SUFFICES ASSUME T # {} PROVE FALSE
  OBVIOUS
<1>1. PICK n \in T : \A m \in T : n <= m
  BY Least
<1>2. n # 0
  <2>. SUFFICES ASSUME n = 0 PROVE FALSE
    OBVIOUS
  <2>. DEFINE g == [m \in 0..0 |-> <<HexTable[m + 1]>>]
  <2>1. Decimals(g, 0)
    BY DEF Decimals
  <2>. QED  BY <2>1
<1>3. n \in Nat /\ n - 1 \in Nat /\ n - 1 \notin T
  BY <1>1, <1>2
<1>4. PICK f : Decimals(f, n - 1)
  BY <1>3
<1>. DEFINE g == [m \in 0..n |->
                     IF m < n THEN f[m]
                     ELSE IF n < 10 THEN <<HexTable[n + 1]>>
                     ELSE Append(f[n \div 10], HexTable[(n % 10) + 1])]
<1>5. ASSUME NEW m \in 0..n
      PROVE  g[m] = IF m < 10 THEN <<HexTable[m + 1]>>
                    ELSE Append(g[m \div 10], HexTable[(m % 10) + 1])
  <2>0. m >= 10 => /\ m \div 10 \in 0..n /\ m \div 10 < n
                   /\ m \div 10 \in 0..(n - 1)
    BY <1>3, Tenth
  <2>1. CASE m = n
    BY <1>3, <2>0, <2>1
  <2>2. CASE m < n
    <3>1. m \in 0..(n - 1)
      BY <1>3, <2>2
    <3>2. f[m] = IF m < 10 THEN <<HexTable[m + 1]>>
                 ELSE Append(f[m \div 10], HexTable[(m % 10) + 1])
      BY <1>4, <3>1 DEF Decimals
    <3>3. g[m] = f[m] /\ (m >= 10 => g[m \div 10] = f[m \div 10])
      BY <2>0, <2>2
    <3>. QED  BY <3>2, <3>3
  <2>. QED  BY <1>3, <2>1, <2>2
<1>. HIDE DEF g
<1>6. Decimals(g, n)
  <2>1. g = [m \in 0..n |-> g[m]]
    BY DEF g
  <2>. QED  BY <1>5, <2>1 DEF Decimals
<1>. QED  BY <1>1, <1>6

LEMMA DecimalText ==
    ASSUME NEW n \in Nat
    PROVE  /\ Decimal(n) \in Seq(Digits) /\ Decimal(n) # <<>>
           /\ Value(Decimal(n)) = n
<1>. DEFINE g == CHOOSE f : Decimals(f, n)
            Good(m) == /\ g[m] \in Seq(Digits) /\ g[m] # <<>>
                       /\ Value(g[m]) = m
            T == {m \in 0..n : ~Good(m)}
<1>1. Decimals(g, n) /\ Decimal(n) = g[n]
  BY DecimalsExist, DecimalIs
<1>. HIDE DEF g
<1>2. T = {}
  <2>. SUFFICES ASSUME T # {} PROVE FALSE
    OBVIOUS
  <2>0. T \subseteq Nat
    OBVIOUS
  <2>1. PICK m \in T : \A l \in T : m <= l
    BY <2>0, Least
  <2>2. m \in 0..n
    BY <2>1
  <2>3. g[m] = IF m < 10 THEN <<HexTable[m + 1]>>
               ELSE Append(g[m \div 10], HexTable[(m % 10) + 1])
    BY <1>1, <2>2 DEF Decimals
  <2>4. CASE m < 10
    <3>1. m \in 0..15
      BY <2>2, <2>4
    <3>2. HexTable[m + 1] \in Digits /\ char_to_int(HexTable[m + 1]) = m
      BY <2>4, <3>1, CharOf
    <3>3. g[m] = <<HexTable[m + 1]>>
      BY <2>3, <2>4
    <3>4. g[m] \in Seq(Digits) /\ Value(g[m]) = m
      BY <3>2, <3>3, ValueOfOne
    <3>5. g[m] # <<>>
      BY <3>3
    <3>. QED  BY <2>1, <3>4, <3>5
  <2>5. CASE m >= 10
    <3>. DEFINE q == m \div 10
                c == HexTable[(m % 10) + 1]
    <3>1. /\ q \in Nat /\ q < m /\ q \in 0..n
          /\ (m % 10) \in 0..15 /\ (m % 10) < 10
          /\ 10 * q + (m % 10) = m
      BY <2>2, <2>5, Tenth
    <3>2. g[m] = Append(g[q], c)
      BY <2>2, <2>3, <2>5
    <3>3. c \in Digits /\ char_to_int(c) = m % 10
      BY <3>1, CharOf
    <3>. HIDE DEF q, c
    <3>4. q \notin T
      BY <2>1, <2>2, <3>1
    <3>5. Good(q)
      BY <3>1, <3>4
    <3>6. g[m] \in Seq(Digits) /\ g[m] # <<>>
      BY <3>2, <3>3, <3>5, AppendProperties
    <3>7. Value(g[m]) = 10 * q + (m % 10)
      BY <3>2, <3>3, <3>5, ValueOfAppend
    <3>. QED  BY <2>1, <3>1, <3>6, <3>7
  <2>. QED  BY <2>2, <2>4, <2>5
<1>3. n \in 0..n
  OBVIOUS
<1>. QED  BY <1>1, <1>2, <1>3

LEMMA SignIsNoDigit == "-" \notin Digits
BY DEF Digits, HexTable

(***************************************************************************)
(* A number that was written as text is read again as it was, zero and      *)
(* negative ones included: heights, sizes and the counts of the statistics, *)
(* which may be below zero (std::to_string, std::stol in parse_number).     *)
(***************************************************************************)
THEOREM NumberRoundTrip ==
    ASSUME NEW n \in Int
    PROVE  stol(to_string(n)) = n
<1>1. CASE n < 0
  <2>. DEFINE d == Decimal(-n)
  <2>0. -n \in Nat /\ -(-n) = n
    BY <1>1
  <2>1. d \in Seq(Digits) /\ Value(d) = -n
    BY <2>0, DecimalText
  <2>2. to_string(n) = <<"-">> \o d
    BY <1>1 DEF to_string
  <2>. HIDE DEF d
  <2>3. d \in Seq(Digits \cup {"-"})
    BY <2>1, SeqMonotonic
  <2>4. Head(<<"-">> \o d) = "-" /\ Tail(<<"-">> \o d) = d
    BY <2>3, ConsProperties
  <2>. QED  BY <2>0, <2>1, <2>2, <2>4 DEF stol
<1>2. CASE n >= 0
  <2>. DEFINE d == Decimal(n)
  <2>1. d \in Seq(Digits) /\ d # <<>> /\ Value(d) = n
    BY <1>2, DecimalText
  <2>2. to_string(n) = d
    BY <1>2 DEF to_string
  <2>. HIDE DEF d
  <2>3. Head(d) # "-"
    BY <2>1, HeadTailProperties, SignIsNoDigit
  <2>. QED  BY <2>1, <2>2, <2>3 DEF stol
<1>. QED  BY <1>1, <1>2

(***************************************************************************)
(* The texts of hashes and numbers have no character that ends a string or  *)
(* a member, is escaped, or is taken out of a dumped text: they go through  *)
(* json_escape, remove_char and the parser as they are.                     *)
(***************************************************************************)
THEOREM TextsArePlain ==
    /\ \A b \in Seq(Bytes) : hexstring(b) \in Seq(HexDigits)
    /\ \A n \in Int : to_string(n) \in Seq(HexDigits \cup {"-"})
    /\ (HexDigits \cup {"-"}) \cap
          {"\"", "\\", "\n", " ", ",", ":", "{", "}", "[", "]"} = {}
<1>1. \A b \in Seq(Bytes) : hexstring(b) \in Seq(HexDigits)
  BY HexText
<1>. DEFINE S == HexDigits \cup {"-"}
<1>2. ASSUME NEW n \in Int
      PROVE  to_string(n) \in Seq(S)
  <2>1. CASE n < 0
    <3>. DEFINE d == Decimal(-n)
    <3>1. -n \in Nat
      BY <2>1
    <3>2. d \in Seq(Digits)
      BY <3>1, DecimalText
    <3>3. to_string(n) = <<"-">> \o d
      BY <2>1 DEF to_string
    <3>. HIDE DEF d
    <3>4. d \in Seq(S)
      BY <3>2, DigitsAreHex, SeqMonotonic
    <3>. QED  BY <3>3, <3>4, ConsProperties
  <2>2. CASE n >= 0
    <3>1. Decimal(n) \in Seq(Digits)
      BY <2>2, DecimalText
    <3>2. to_string(n) = Decimal(n)
      BY <2>2 DEF to_string
    <3>. QED  BY <3>1, <3>2, DigitsAreHex, SeqMonotonic
  <2>. QED  BY <2>1, <2>2
<1>3. S \cap {"\"", "\\", "\n", " ", ",", ":", "{", "}", "[", "]"} = {}
  <2>1. \A i \in 1..16 :
            HexTable[i] \in {"0", "1", "2", "3", "4", "5", "6", "7", "8", "9",
                             "a", "b", "c", "d", "e", "f"}
    BY DEF HexTable
  <2>2. S \subseteq {"0", "1", "2", "3", "4", "5", "6", "7", "8", "9",
                     "a", "b", "c", "d", "e", "f", "-"}
    BY <2>1 DEF HexDigits
  <2>. QED  BY <2>2
<1>. QED  BY <1>1, <1>2, <1>3
=============================================================================

-------------------------- MODULE LineSocketProofs --------------------------
(***************************************************************************)
(* What holds of the byte stream for any number of connections, messages   *)
(* and pieces, and any size of the kernel's buffer: types, no line read    *)
(* that does not decode, and the promise of MessagePipe.                   *)
(*                                                                         *)
(* Facts about data that need induction are proved from the least number   *)
(* that would refute them (Least).                                         *)
(***************************************************************************)
EXTENDS LineSocket, SequenceTheorems, WellFoundedInduction, TLAPS

-----------------------------------------------------------------------------
(* Numbers and sequences.                                                   *)

\* A nonempty set of natural numbers has a least member.
LEMMA Least ==
    ASSUME NEW T, T \subseteq Nat, T # {}
    PROVE  \E x \in T : \A y \in T : x =< y
PROOF
<1> DEFINE R == OpToRel(<, Nat)
<1>1. IsWellFoundedOn(R, Nat)
  BY NatLessThanWellFounded
<1>2. \A a, b \in Nat : a < b => <<a, b>> \in R
  BY DEF OpToRel
<1> HIDE DEF R
<1>3. PICK x \in T : \A y \in T : ~(<<y, x>> \in R)
  BY <1>1, WFMin
<1>4. \A y \in T : ~(y < x)
  BY <1>2, <1>3
<1> QED
  BY <1>4

\* A nonempty set of numbers up to n has a greatest member.
LEMMA Greatest ==
    ASSUME NEW n \in Nat, NEW T, T \subseteq 0 .. n, T # {}
    PROVE  /\ Max(T) \in T
           /\ \A y \in T : y =< Max(T)
PROOF
<1> DEFINE U == {i \in Nat : \E y \in T : y = n - i}
<1>1. PICK t \in T : TRUE
  OBVIOUS
<1>2. n - t \in U
  BY <1>1
<1>3. \A y \in T : n - y \in U
  OBVIOUS
<1>4. U \subseteq Nat
  OBVIOUS
<1>5. \A i \in U : n - i \in T
  OBVIOUS
<1> HIDE DEF U
<1>6. PICK x \in U : \A y \in U : x =< y
  BY <1>2, <1>4, Least
<1>7. n - x \in T
  BY <1>5
<1>8. \A y \in T : n - x >= y
  BY <1>3, <1>4, <1>6
<1>9. \E m \in T : \A y \in T : m >= y
  BY <1>7, <1>8
<1>10. Max(T) \in T /\ \A y \in T : Max(T) >= y
  BY <1>9 DEF Max
<1> QED
  BY <1>10

\* The members of a sequence have its elements' type.
LEMMA Elements ==
    ASSUME NEW S, NEW s \in Seq(S)
    PROVE  /\ Len(s) \in Nat /\ DOMAIN s = 1 .. Len(s)
           /\ \A i \in 1 .. Len(s) : s[i] \in S
PROOF
  BY LenProperties, ElementOfSeq

\* A prefix and the rest of a sequence.
LEMMA Cut ==
    ASSUME NEW S, NEW s \in Seq(S), NEW n \in 0 .. Len(s)
    PROVE  /\ SubSeq(s, 1, n) \in Seq(S) /\ Len(SubSeq(s, 1, n)) = n
           /\ \A i \in 1 .. n : SubSeq(s, 1, n)[i] = s[i]
           /\ SubSeq(s, n + 1, Len(s)) \in Seq(S)
           /\ Len(SubSeq(s, n + 1, Len(s))) = Len(s) - n
           /\ \A i \in 1 .. Len(s) - n : SubSeq(s, n + 1, Len(s))[i] = s[n + i]
           /\ SubSeq(s, 1, n) \o SubSeq(s, n + 1, Len(s)) = s
PROOF
<1>1. Len(s) \in Nat /\ \A i \in 1 .. Len(s) : s[i] \in S
  BY Elements
<1>2. /\ SubSeq(s, 1, n) \in Seq(S) /\ Len(SubSeq(s, 1, n)) = n
      /\ \A i \in 1 .. n : SubSeq(s, 1, n)[i] = s[i]
  <2>1. \A i \in 1 .. n : s[i] \in S
    BY <1>1
  <2>2. /\ SubSeq(s, 1, n) \in Seq(S)
        /\ Len(SubSeq(s, 1, n)) = IF 1 =< n THEN n - 1 + 1 ELSE 0
        /\ \A i \in 1 .. n - 1 + 1 : SubSeq(s, 1, n)[i] = s[1 + i - 1]
    BY <1>1, <2>1, SubSeqProperties
  <2> QED
    BY <1>1, <2>2
<1>3. /\ SubSeq(s, n + 1, Len(s)) \in Seq(S)
      /\ Len(SubSeq(s, n + 1, Len(s))) = Len(s) - n
      /\ \A i \in 1 .. Len(s) - n : SubSeq(s, n + 1, Len(s))[i] = s[n + i]
  <2>1. \A i \in n + 1 .. Len(s) : s[i] \in S
    BY <1>1
  <2>2. /\ SubSeq(s, n + 1, Len(s)) \in Seq(S)
        /\ Len(SubSeq(s, n + 1, Len(s)))
             = IF n + 1 =< Len(s) THEN Len(s) - (n + 1) + 1 ELSE 0
        /\ \A i \in 1 .. Len(s) - (n + 1) + 1 :
             SubSeq(s, n + 1, Len(s))[i] = s[n + 1 + i - 1]
    BY <1>1, <2>1, SubSeqProperties
  <2> QED
    BY <1>1, <2>2
<1>4. SubSeq(s, 1, n) \o SubSeq(s, n + 1, Len(s)) = s
  <2>1. /\ 1 \in 1 .. Len(s) + 1 /\ n \in 1 - 1 .. Len(s) /\ Len(s) \in n .. Len(s)
    BY <1>1
  <2>2. SubSeq(s, 1, n) \o SubSeq(s, n + 1, Len(s)) = SubSeq(s, 1, Len(s))
    BY <2>1, ConcatAdjacentSubSeq
  <2> QED
    BY <2>2, SubSeqFull
<1> QED
  BY <1>2, <1>3, <1>4
-----------------------------------------------------------------------------
(* Lines.                                                                   *)

\* Pieces that are part of a line.
Part == {p \in Piece : p.part =< p.size}

\* The sequence does not end inside a line.
Ended(s) == s = <<>> \/ EndsLine(s[Len(s)])

\* Nothing in the sequence completes a line.
NoNewline(s) == \A i \in 1 .. Len(s) : ~EndsLine(s[i])

LEMMA PartType ==
    ASSUME NEW p \in Part
    PROVE  /\ p \in Piece
           /\ p.number \in 1 .. MaxSent /\ p.part \in Nat /\ p.size \in Nat
           /\ p.part >= 1 /\ p.part =< p.size
PROOF
<1>1. p \in Piece /\ p.part =< p.size
  BY DEF Part
<1> QED
  BY <1>1, LineAssumption DEF Piece

\* A reader that has got only part of what decodes has got what decodes.
LEMMA DecodesPrefix ==
    ASSUME NEW s \in Seq(Part), NEW t \in Seq(Part), Decodes(s \o t)
    PROVE  Decodes(s)
PROOF
<1> DEFINE u == s \o t
<1>1. /\ u \in Seq(Part) /\ Len(u) = Len(s) + Len(t)
      /\ \A i \in 1 .. Len(s) + Len(t) :
           u[i] = IF i =< Len(s) THEN s[i] ELSE t[i - Len(s)]
  BY ConcatProperties
<1>2. Decodes(u)
  OBVIOUS
<1> HIDE DEF u
<1>3. /\ Len(s) \in Nat /\ DOMAIN s = 1 .. Len(s)
      /\ Len(t) \in Nat /\ DOMAIN u = 1 .. Len(u)
  BY <1>1, Elements
<1>4. \A i \in 1 .. Len(s) : u[i] = s[i] /\ (i > 1 => u[i - 1] = s[i - 1])
  BY <1>1, <1>3
<1> SUFFICES ASSUME NEW i \in 1 .. Len(s)
             PROVE  IF s[i].part = 1 THEN i = 1 \/ EndsLine(s[i - 1])
                    ELSE i > 1 /\ s[i - 1] = [s[i] EXCEPT !.part = @ - 1]
  BY <1>3 DEF Decodes
<1>5. i \in DOMAIN u
  BY <1>1, <1>3
<1>6. IF u[i].part = 1 THEN i = 1 \/ EndsLine(u[i - 1])
      ELSE i > 1 /\ u[i - 1] = [u[i] EXCEPT !.part = @ - 1]
  BY <1>2, <1>5 DEF Decodes
<1>7. u[i] = s[i] /\ (i > 1 => u[i - 1] = s[i - 1])
  BY <1>4
<1>8. CASE i = 1
  BY <1>6, <1>7, <1>8
<1>9. CASE i > 1
  BY <1>6, <1>7, <1>9
<1> QED
  BY <1>3, <1>8, <1>9

\* What follows whole lines decodes by itself.
LEMMA DecodesSuffix ==
    ASSUME NEW s \in Seq(Part), NEW t \in Seq(Part), Decodes(s \o t), Ended(s)
    PROVE  Decodes(t)
PROOF
<1> DEFINE u == s \o t
<1>1. /\ u \in Seq(Part) /\ Len(u) = Len(s) + Len(t)
      /\ \A i \in 1 .. Len(s) + Len(t) :
           u[i] = IF i =< Len(s) THEN s[i] ELSE t[i - Len(s)]
  BY ConcatProperties
<1>2. Decodes(u)
  OBVIOUS
<1> HIDE DEF u
<1>3. /\ Len(s) \in Nat /\ Len(t) \in Nat /\ DOMAIN t = 1 .. Len(t)
      /\ DOMAIN u = 1 .. Len(u) /\ \A i \in 1 .. Len(t) : t[i] \in Part
      /\ \A i \in 1 .. Len(s) : s[i] \in Part
  BY <1>1, Elements
<1> SUFFICES ASSUME NEW i \in 1 .. Len(t)
             PROVE  IF t[i].part = 1 THEN i = 1 \/ EndsLine(t[i - 1])
                    ELSE i > 1 /\ t[i - 1] = [t[i] EXCEPT !.part = @ - 1]
  BY <1>3 DEF Decodes
<1> DEFINE j == Len(s) + i
<1>4. /\ j \in 1 .. Len(u) /\ u[j] = t[i] /\ (i > 1 => u[j - 1] = t[i - 1])
      /\ (i = 1 /\ Len(s) > 0 => u[j - 1] = s[Len(s)])
      /\ (i = 1 /\ Len(s) = 0 => j = 1) /\ (i > 1 => j > 1)
  <2>1. j \in 1 .. Len(s) + Len(t) /\ ~(j =< Len(s)) /\ j - Len(s) = i
    BY <1>3
  <2>2. u[j] = t[i]
    BY <1>1, <2>1
  <2>3. ASSUME i > 1 PROVE u[j - 1] = t[i - 1] /\ j > 1
    <3>1. /\ j - 1 \in 1 .. Len(s) + Len(t) /\ ~(j - 1 =< Len(s)) /\ j - 1 - Len(s) = i - 1
          /\ j > 1
      BY <1>3, <2>3
    <3> QED
      BY <1>1, <3>1
  <2>4. ASSUME i = 1, Len(s) > 0 PROVE u[j - 1] = s[Len(s)]
    <3>1. j - 1 = Len(s) /\ Len(s) \in 1 .. Len(s) + Len(t) /\ Len(s) =< Len(s)
      BY <1>3, <2>4
    <3> QED
      BY <1>1, <3>1
  <2> HIDE DEF j
  <2> QED
    BY <1>1, <2>1, <2>2, <2>3, <2>4
<1> HIDE DEF j
<1>5. IF u[j].part = 1 THEN j = 1 \/ EndsLine(u[j - 1])
      ELSE j > 1 /\ u[j - 1] = [u[j] EXCEPT !.part = @ - 1]
  BY <1>2, <1>3, <1>4 DEF Decodes
<1>6. CASE i > 1
  <2>1. j # 1
    BY <1>4, <1>6
  <2> QED
    BY <1>4, <1>5, <1>6, <2>1
<1>7. CASE i = 1
  <2> SUFFICES ASSUME t[1].part # 1 PROVE FALSE
    BY <1>7
  <2>1. j > 1 /\ u[j - 1] = [t[1] EXCEPT !.part = @ - 1]
    BY <1>4, <1>5, <1>7
  <2>2. Len(s) > 0
    BY <1>3, <1>4, <1>7, <2>1
  <2>3. EndsLine(s[Len(s)])
    BY <2>2, EmptySeq DEF Ended
  <2>4. s[Len(s)] = [t[1] EXCEPT !.part = @ - 1]
    BY <1>4, <1>7, <2>1, <2>2
  <2>5. t[1] \in Part
    BY <1>3, <1>7
  <2>6. t[1].part \in Nat /\ t[1].size \in Nat /\ t[1].part =< t[1].size /\ t[1] \in Piece
    BY <2>5, PartType
  <2>7. s[Len(s)].part = t[1].part - 1 /\ s[Len(s)].size = t[1].size
    BY <2>4, <2>6 DEF Piece
  <2>8. s[Len(s)].part = s[Len(s)].size
    BY <2>3 DEF EndsLine
  <2>9. t[1].part - 1 = t[1].size
    BY <2>7, <2>8
  <2> QED
    BY <2>6, <2>9
<1> QED
  BY <1>3, <1>6, <1>7

\* Lines after whole lines decode.
LEMMA DecodesJoin ==
    ASSUME NEW s \in Seq(Part), NEW t \in Seq(Part), Decodes(s), Decodes(t), Ended(s)
    PROVE  Decodes(s \o t)
PROOF
<1> DEFINE u == s \o t
<1>1. /\ u \in Seq(Part) /\ Len(u) = Len(s) + Len(t)
      /\ \A i \in 1 .. Len(s) + Len(t) :
           u[i] = IF i =< Len(s) THEN s[i] ELSE t[i - Len(s)]
  BY ConcatProperties
<1> HIDE DEF u
<1>3. /\ Len(s) \in Nat /\ Len(t) \in Nat /\ DOMAIN t = 1 .. Len(t)
      /\ DOMAIN s = 1 .. Len(s) /\ DOMAIN u = 1 .. Len(u)
  BY <1>1, Elements
<1> SUFFICES ASSUME NEW i \in 1 .. Len(u)
             PROVE  IF u[i].part = 1 THEN i = 1 \/ EndsLine(u[i - 1])
                    ELSE i > 1 /\ u[i - 1] = [u[i] EXCEPT !.part = @ - 1]
  BY <1>3 DEF Decodes, u
<1>4. CASE i =< Len(s)
  <2>0. i \in 1 .. Len(s) /\ i \in 1 .. Len(s) + Len(t)
    BY <1>1, <1>3, <1>4
  <2>a. u[i] = s[i]
    BY <1>1, <1>4, <2>0
  <2>b. i > 1 => u[i - 1] = s[i - 1]
    <3>1. i > 1 => i - 1 \in 1 .. Len(s) + Len(t) /\ i - 1 =< Len(s)
      BY <1>3, <1>4, <2>0
    <3> QED
      BY <1>1, <3>1
  <2>1. u[i] = s[i] /\ (i > 1 => u[i - 1] = s[i - 1]) /\ i \in 1 .. Len(s)
    BY <2>0, <2>a, <2>b
  <2>2. IF s[i].part = 1 THEN i = 1 \/ EndsLine(s[i - 1])
        ELSE i > 1 /\ s[i - 1] = [s[i] EXCEPT !.part = @ - 1]
    BY <1>3, <2>1 DEF Decodes
  <2>3. CASE i = 1
    BY <2>1, <2>2, <2>3
  <2>4. CASE i > 1
    BY <2>1, <2>2, <2>4
  <2> QED
    BY <1>3, <2>3, <2>4
<1>5. CASE i > Len(s)
  <2> DEFINE k == i - Len(s)
  <2>0. i \in 1 .. Len(s) + Len(t) /\ ~(i =< Len(s)) /\ k \in 1 .. Len(t)
    BY <1>1, <1>3, <1>5
  <2>a. u[i] = t[k]
    BY <1>1, <2>0
  <2>b. k > 1 => u[i - 1] = t[k - 1]
    <3>1. k > 1 => /\ i - 1 \in 1 .. Len(s) + Len(t) /\ ~(i - 1 =< Len(s))
                   /\ (i - 1) - Len(s) = k - 1
      BY <1>3, <2>0
    <3> QED
      BY <1>1, <3>1
  <2>1. k \in 1 .. Len(t) /\ u[i] = t[k] /\ (k > 1 => u[i - 1] = t[k - 1])
    BY <2>0, <2>a, <2>b
  <2>2. IF t[k].part = 1 THEN k = 1 \/ EndsLine(t[k - 1])
        ELSE k > 1 /\ t[k - 1] = [t[k] EXCEPT !.part = @ - 1]
    BY <1>3, <2>1 DEF Decodes
  <2>3. CASE k = 1
    <3>1. t[k].part = 1
      BY <2>2, <2>3
    <3>2. CASE Len(s) = 0
      BY <2>1, <2>3, <3>1, <3>2
    <3>3. CASE Len(s) # 0
      <4>1. u[i - 1] = s[Len(s)]
        BY <1>1, <1>3, <2>3, <3>3
      <4>2. EndsLine(s[Len(s)])
        BY <3>3, EmptySeq DEF Ended
      <4> QED
        BY <2>1, <3>1, <4>1, <4>2
    <3> QED
      BY <3>2, <3>3
  <2>4. CASE k > 1
    <3>1. i > 1
      BY <1>3, <2>4
    <3> HIDE DEF k
    <3> QED
      BY <2>1, <2>2, <2>4, <3>1
  <2> QED
    BY <1>3, <2>1, <2>3, <2>4
<1> QED
  BY <1>3, <1>4, <1>5

\* Joining something that ends whole.
LEMMA EndedJoin ==
    ASSUME NEW s \in Seq(Part), NEW t \in Seq(Part), Ended(t), t = <<>> => Ended(s)
    PROVE  Ended(s \o t)
PROOF
<1>1. /\ s \o t \in Seq(Part) /\ Len(s \o t) = Len(s) + Len(t)
      /\ \A i \in 1 .. Len(s) + Len(t) :
           (s \o t)[i] = IF i =< Len(s) THEN s[i] ELSE t[i - Len(s)]
  BY ConcatProperties
<1>2. Len(s) \in Nat /\ Len(t) \in Nat
  BY Elements
<1>3. CASE t = <<>>
  BY <1>3, ConcatEmptySeq
<1>4. CASE t # <<>>
  <2>1. Len(t) \in Nat \ {0}
    BY <1>4, EmptySeq
  <2>2. (s \o t)[Len(s \o t)] = t[Len(t)]
    BY <1>1, <1>2, <2>1
  <2> QED
    BY <1>4, <2>2 DEF Ended
<1> QED
  BY <1>3, <1>4

\* What is left after a whole prefix ends as the whole did.
LEMMA EndedSuffix ==
    ASSUME NEW s \in Seq(Part), NEW t \in Seq(Part), Ended(s \o t)
    PROVE  Ended(t)
PROOF
<1>1. /\ s \o t \in Seq(Part) /\ Len(s \o t) = Len(s) + Len(t)
      /\ \A i \in 1 .. Len(s) + Len(t) :
           (s \o t)[i] = IF i =< Len(s) THEN s[i] ELSE t[i - Len(s)]
  BY ConcatProperties
<1>2. Len(s) \in Nat /\ Len(t) \in Nat
  BY Elements
<1>3. CASE t = <<>>
  BY <1>3 DEF Ended
<1>4. CASE t # <<>>
  <2>1. Len(t) \in Nat \ {0}
    BY <1>4, EmptySeq
  <2>2. (s \o t)[Len(s \o t)] = t[Len(t)]
    BY <1>1, <1>2, <2>1
  <2>3. s \o t # <<>>
    BY <1>4, ConcatEqualIffEmpty
  <2> QED
    BY <2>2, <2>3 DEF Ended
<1> QED
  BY <1>3, <1>4

\* encode_message writes one line.
LEMMA EncodeLine ==
    ASSUME NEW n \in 1 .. MaxSent, NEW size \in 1 .. MaxSize
    PROVE  /\ Encode(n, size) \in Seq(Part) /\ Len(Encode(n, size)) = size
           /\ \A k \in 1 .. size : /\ Encode(n, size)[k].number = n
                                   /\ EndsLine(Encode(n, size)[k]) <=> k = size
           /\ Encode(n, size) # <<>>
           /\ Decodes(Encode(n, size)) /\ Ended(Encode(n, size))
PROOF
<1> DEFINE u == Encode(n, size)
<1>a. /\ MaxSent \in Nat /\ MaxSize \in Nat /\ size \in Nat /\ size >= 1 /\ size =< MaxSize
  BY LineAssumption
<1>1. \A k \in 1 .. size : [number |-> n, part |-> k, size |-> size] \in Part
  BY <1>a DEF Part, Piece
<1>2. u \in [1 .. size -> Part]
  BY <1>1 DEF Encode
<1>3. u \in Seq(Part) /\ Len(u) = size
  BY <1>2, <1>a
<1>4. \A k \in 1 .. size : u[k] = [number |-> n, part |-> k, size |-> size]
  BY DEF Encode
<1>5. DOMAIN u = 1 .. size
  BY <1>2
<1> HIDE DEF u
<1>6. \A k \in 1 .. size : u[k].number = n /\ (EndsLine(u[k]) <=> k = size)
  <2> TAKE k \in 1 .. size
  <2>1. u[k] = [number |-> n, part |-> k, size |-> size]
    BY <1>4
  <2>2. u[k].number = n /\ u[k].part = k /\ u[k].size = size
    BY <2>1
  <2> QED
    BY <2>2 DEF EndsLine
<1>7. u # <<>>
  BY <1>3, <1>a
<1>8. Decodes(u)
  <2> SUFFICES ASSUME NEW i \in 1 .. size
               PROVE  IF u[i].part = 1 THEN i = 1 \/ EndsLine(u[i - 1])
                      ELSE i > 1 /\ u[i - 1] = [u[i] EXCEPT !.part = @ - 1]
    BY <1>5 DEF Decodes
  <2>1. CASE i = 1
    <3>1. u[i] = [number |-> n, part |-> i, size |-> size]
      BY <1>4
    <3>2. u[i].part = 1
      BY <2>1, <3>1
    <3> QED
      BY <2>1, <3>2
  <2>2. CASE i # 1
    <3>1. i > 1 /\ i - 1 \in 1 .. size
      BY <1>a, <2>2
    <3>2. u[i - 1] = [number |-> n, part |-> i - 1, size |-> size]
      BY <1>4, <3>1
    <3>3. u[i] = [number |-> n, part |-> i, size |-> size]
      BY <1>4
    <3> QED
      BY <2>2, <3>1, <3>2, <3>3
  <2> QED
    BY <2>1, <2>2
<1>9. Ended(u)
  BY <1>3, <1>6, <1>a DEF Ended
<1> QED
  BY <1>3, <1>6, <1>7, <1>8, <1>9 DEF u

\* The split loop: whole lines, and what is left has no newline.
LEMMA Split ==
    ASSUME NEW s \in Seq(Part)
    PROVE  /\ Complete(s) \in Seq(Part) /\ Rest(s) \in Seq(Part)
           /\ Complete(s) \o Rest(s) = s
           /\ Ended(Complete(s)) /\ NoNewline(Rest(s))
PROOF
<1> DEFINE T == {0} \union {i \in DOMAIN s : EndsLine(s[i])}
           n == LastNewline(s)
<1>1. Len(s) \in Nat /\ DOMAIN s = 1 .. Len(s)
  BY Elements
<1>2. T \subseteq 0 .. Len(s) /\ T # {}
  BY <1>1
<1>3. n = Max(T)
  BY DEF LastNewline
<1>4. \A i \in 1 .. Len(s) : EndsLine(s[i]) => i \in T
  BY <1>1
<1>5. \A i \in T : i = 0 \/ (i \in 1 .. Len(s) /\ EndsLine(s[i]))
  BY <1>1
<1> HIDE DEF T
<1>6. Max(T) \in T /\ \A y \in T : y =< Max(T)
  BY <1>1, <1>2, Greatest
<1>7. Complete(s) = SubSeq(s, 1, n) /\ Rest(s) = SubSeq(s, n + 1, Len(s))
  BY DEF Complete, Rest
<1> HIDE DEF n
<1>8. n \in 0 .. Len(s)
  BY <1>2, <1>3, <1>6
<1>9. /\ Complete(s) \in Seq(Part) /\ Len(Complete(s)) = n
      /\ \A i \in 1 .. n : Complete(s)[i] = s[i]
      /\ Rest(s) \in Seq(Part) /\ Len(Rest(s)) = Len(s) - n
      /\ \A i \in 1 .. Len(s) - n : Rest(s)[i] = s[n + i]
      /\ Complete(s) \o Rest(s) = s
  <2>1. /\ SubSeq(s, 1, n) \in Seq(Part) /\ Len(SubSeq(s, 1, n)) = n
        /\ \A i \in 1 .. n : SubSeq(s, 1, n)[i] = s[i]
        /\ SubSeq(s, n + 1, Len(s)) \in Seq(Part)
        /\ Len(SubSeq(s, n + 1, Len(s))) = Len(s) - n
        /\ \A i \in 1 .. Len(s) - n : SubSeq(s, n + 1, Len(s))[i] = s[n + i]
        /\ SubSeq(s, 1, n) \o SubSeq(s, n + 1, Len(s)) = s
    BY <1>8, Cut
  <2> QED
    BY <1>7, <2>1, Zenon
<1>10. Ended(Complete(s))
  <2>1. CASE n = 0
    BY <1>9, <2>1, EmptySeq DEF Ended
  <2>2. CASE n # 0
    <3>1. EndsLine(s[n]) /\ n \in 1 .. n
      BY <1>3, <1>5, <1>6, <1>8, <2>2, <1>1
    <3> QED
      BY <1>9, <3>1 DEF Ended
  <2> QED
    BY <2>1, <2>2
<1>11. NoNewline(Rest(s))
  <2> SUFFICES ASSUME NEW i \in 1 .. Len(s) - n, EndsLine(Rest(s)[i])
               PROVE  FALSE
    BY <1>9 DEF NoNewline
  <2>1. n + i \in 1 .. Len(s) /\ n + i > n
    BY <1>1, <1>8
  <2>2. n + i \in T
    BY <1>4, <1>9, <2>1
  <2> QED
    BY <1>1, <1>3, <1>6, <1>8, <2>1, <2>2
<1> QED
  BY <1>9, <1>10, <1>11
-----------------------------------------------------------------------------
(* Decoding.                                                                *)

\* f gives the messages of the first i pieces of s, for i up to n.
Follows(s, n, f) ==
    f = [i \in 0 .. n |->
           IF i = 0 THEN <<>>
           ELSE IF EndsLine(s[i]) THEN Append(f[i - 1], s[i].number) ELSE f[i - 1]]

LEMMA FollowsSteps ==
    ASSUME NEW s, NEW n \in Nat, NEW f, Follows(s, n, f)
    PROVE  /\ f[0] = <<>>
           /\ \A i \in 1 .. n :
                f[i] = IF EndsLine(s[i]) THEN Append(f[i - 1], s[i].number) ELSE f[i - 1]
PROOF
<1> DEFINE step(i) == IF i = 0 THEN <<>>
                      ELSE IF EndsLine(s[i]) THEN Append(f[i - 1], s[i].number)
                      ELSE f[i - 1]
<1>1. f = [i \in 0 .. n |-> step(i)]
  BY DEF Follows
<1> HIDE DEF step
<1>2. \A i \in 0 .. n : f[i] = step(i)
  BY <1>1
<1>3. 0 \in 0 .. n /\ \A i \in 1 .. n : i \in 0 .. n /\ i # 0
  OBVIOUS
<1>4. f[0] = step(0) /\ step(0) = <<>>
  BY <1>2, <1>3 DEF step
<1>5. \A i \in 1 .. n : step(i) = IF EndsLine(s[i]) THEN Append(f[i - 1], s[i].number)
                                  ELSE f[i - 1]
  BY <1>3, Zenon DEF step
<1> QED
  BY <1>2, <1>3, <1>4, <1>5

LEMMA FollowsExists ==
    ASSUME NEW s
    PROVE  \A n \in Nat : \E f : Follows(s, n, f)
PROOF
<1> DEFINE T == {n \in Nat : ~\E f : Follows(s, n, f)}
<1> SUFFICES ASSUME T # {} PROVE FALSE
  OBVIOUS
<1>1. T \subseteq Nat
  OBVIOUS
<1> HIDE DEF T
<1>2. PICK x \in T : \A y \in T : x =< y
  BY <1>1, Least
<1>3. x \in Nat /\ ~\E f : Follows(s, x, f)
  BY <1>2 DEF T
<1>4. CASE x = 0
  <2> DEFINE g == [i \in 0 .. 0 |-> <<>>]
  <2>1. Follows(s, 0, g)
    BY DEF Follows
  <2> QED
    BY <1>3, <1>4, <2>1
<1>5. CASE x # 0
  <2>1. x - 1 \in Nat /\ x - 1 \notin T
    BY <1>2, <1>3, <1>5
  <2>2. PICK h : Follows(s, x - 1, h)
    BY <2>1 DEF T
  <2> DEFINE step(f, i) == IF i = 0 THEN <<>>
                           ELSE IF EndsLine(s[i]) THEN Append(f[i - 1], s[i].number)
                           ELSE f[i - 1]
             g == [i \in 0 .. x |-> step(h, i)]
  <2>3. h = [i \in 0 .. x - 1 |-> step(h, i)]
    BY <2>2, Zenon DEF Follows
  <2> HIDE DEF step
  <2>4. \A i \in 0 .. x - 1 : h[i] = g[i]
    BY <1>3, <2>3
  <2> HIDE DEF g
  <2>5. \A i \in 0 .. x : step(h, i) = step(g, i)
    <3> SUFFICES ASSUME NEW i \in 0 .. x PROVE step(h, i) = step(g, i)
      OBVIOUS
    <3>1. CASE i = 0
      BY <3>1, Zenon DEF step
    <3>2. CASE i # 0
      <4>1. i - 1 \in 0 .. x - 1
        BY <1>3, <3>2
      <4>2. h[i - 1] = g[i - 1]
        BY <2>4, <4>1
      <4> QED
        BY <3>2, <4>2, Zenon DEF step
    <3> QED
      BY <3>1, <3>2
  <2>6. g = [i \in 0 .. x |-> step(g, i)]
    BY <2>5, Zenon DEF g
  <2>7. Follows(s, x, g)
    BY <2>6, Zenon DEF Follows, step
  <2> QED
    BY <1>3, <2>7
<1> QED
  BY <1>4, <1>5

LEMMA DecodedFollows ==
    ASSUME NEW S, NEW s \in Seq(S)
    PROVE  \E f : Follows(s, Len(s), f) /\ Decoded(s) = f[Len(s)]
PROOF
<1> DEFINE g == CHOOSE f : Follows(s, Len(s), f)
<1>1. \E f : Follows(s, Len(s), f)
  BY FollowsExists, Elements
<1>2. Follows(s, Len(s), g)
  BY <1>1
<1>3. Decoded(s) = g[Len(s)]
  BY Zenon DEF Decoded, Follows
<1> HIDE DEF g
<1> QED
  BY <1>2, <1>3

\* The messages of the first pieces depend on these pieces only.
LEMMA FollowsAgree ==
    ASSUME NEW s, NEW n \in Nat, NEW f, Follows(s, n, f),
           NEW t, NEW m \in Nat, NEW g, Follows(t, m, g),
           NEW k \in Nat, k =< n, k =< m, \A i \in 1 .. k : s[i] = t[i]
    PROVE  f[k] = g[k]
PROOF
<1> DEFINE T == {i \in Nat : i =< k /\ f[i] # g[i]}
<1> SUFFICES ASSUME T # {} PROVE FALSE
  OBVIOUS
<1>1. T \subseteq Nat
  OBVIOUS
<1>2. \A i \in T : i \in Nat /\ i =< k /\ f[i] # g[i]
  OBVIOUS
<1>3. \A i \in Nat : i =< k /\ i \notin T => f[i] = g[i]
  OBVIOUS
<1> HIDE DEF T
<1>4. PICK x \in T : \A y \in T : x =< y
  BY <1>1, Least
<1>5. /\ f[0] = <<>>
      /\ \A i \in 1 .. n :
           f[i] = IF EndsLine(s[i]) THEN Append(f[i - 1], s[i].number) ELSE f[i - 1]
  BY FollowsSteps
<1>6. /\ g[0] = <<>>
      /\ \A i \in 1 .. m :
           g[i] = IF EndsLine(t[i]) THEN Append(g[i - 1], t[i].number) ELSE g[i - 1]
  BY FollowsSteps
<1>7. x # 0
  BY <1>2, <1>4, <1>5, <1>6
<1>8. /\ x \in 1 .. n /\ x \in 1 .. m /\ x \in 1 .. k
      /\ x - 1 \in Nat /\ x - 1 =< k /\ x - 1 \notin T
  BY <1>2, <1>4, <1>7
<1>9. f[x - 1] = g[x - 1] /\ s[x] = t[x]
  BY <1>3, <1>8
<1>10. f[x] = g[x]
  BY <1>5, <1>6, <1>8, <1>9, Zenon
<1> QED
  BY <1>2, <1>4, <1>10

\* One more piece.
LEMMA DecodedAppend ==
    ASSUME NEW s \in Seq(Part), NEW p \in Part
    PROVE  Decoded(Append(s, p))
             = IF EndsLine(p) THEN Append(Decoded(s), p.number) ELSE Decoded(s)
PROOF
<1> DEFINE t == Append(s, p)
<1>1. /\ t \in Seq(Part) /\ Len(t) = Len(s) + 1 /\ t[Len(s) + 1] = p
      /\ \A i \in 1 .. Len(s) : t[i] = s[i]
  BY AppendProperties
<1>2. Len(s) \in Nat
  BY Elements
<1> HIDE DEF t
<1>3. PICK f : Follows(s, Len(s), f) /\ Decoded(s) = f[Len(s)]
  BY DecodedFollows
<1>4. PICK g : Follows(t, Len(t), g) /\ Decoded(t) = g[Len(t)]
  BY <1>1, DecodedFollows
<1> DEFINE n == Len(s)
           m == Len(t)
<1>5. n \in Nat /\ m = n + 1 /\ m \in Nat /\ n =< n /\ n =< m /\ m \in 1 .. m /\ m - 1 = n
  BY <1>1, <1>2
<1>6. \A i \in 1 .. n : s[i] = t[i]
  BY <1>1
<1>7. Follows(s, n, f) /\ Follows(t, m, g) /\ Decoded(s) = f[n] /\ Decoded(t) = g[m]
      /\ t[m] = p
  BY <1>1, <1>3, <1>4
<1> HIDE DEF n, m
<1>8. f[n] = g[n]
  BY <1>5, <1>6, <1>7, FollowsAgree
<1>9. \A i \in 1 .. m :
        g[i] = IF EndsLine(t[i]) THEN Append(g[i - 1], t[i].number) ELSE g[i - 1]
  BY <1>5, <1>7, FollowsSteps
<1>10. g[m] = IF EndsLine(p) THEN Append(g[n], p.number) ELSE g[n]
  BY <1>5, <1>7, <1>9, Zenon
<1> QED
  BY <1>7, <1>8, <1>10, Zenon DEF t

LEMMA DecodedEmpty == Decoded(<<>>) = <<>>
PROOF
<1>1. <<>> \in Seq(Part) /\ Len(<<>>) = 0
  BY EmptySeq
<1>2. PICK f : Follows(<<>>, Len(<<>>), f) /\ Decoded(<<>>) = f[Len(<<>>)]
  BY <1>1, DecodedFollows
<1>3. Follows(<<>>, 0, f) /\ Decoded(<<>>) = f[0]
  BY <1>1, <1>2
<1> QED
  BY <1>3, FollowsSteps

\* What is decoded are numbers of messages.
LEMMA DecodedType ==
    ASSUME NEW s \in Seq(Part)
    PROVE  Decoded(s) \in Seq(1 .. MaxSent)
PROOF
<1> DEFINE T == {n \in Nat : \E t \in Seq(Part) : Len(t) = n /\ Decoded(t) \notin Seq(1 .. MaxSent)}
<1> SUFFICES ASSUME T # {} PROVE FALSE
  BY Elements
<1>1. T \subseteq Nat
  OBVIOUS
<1>2. \A n \in T : \E t \in Seq(Part) : Len(t) = n /\ Decoded(t) \notin Seq(1 .. MaxSent)
  OBVIOUS
<1>3. \A t \in Seq(Part) : Len(t) \notin T => Decoded(t) \in Seq(1 .. MaxSent)
  BY Elements
<1> HIDE DEF T
<1>4. PICK x \in T : \A y \in T : x =< y
  BY <1>1, Least
<1>5. PICK t \in Seq(Part) : Len(t) = x /\ Decoded(t) \notin Seq(1 .. MaxSent)
  BY <1>2, <1>4
<1>6. t # <<>>
  BY <1>5, DecodedEmpty, EmptySeq
<1>7. PICK u \in Seq(Part), p \in Part : t = Append(u, p)
  BY <1>6, SequenceEmptyOrAppend
<1>8. Len(u) \in Nat /\ Len(t) = Len(u) + 1
  BY <1>7, AppendProperties, Elements
<1>9. Len(u) \notin T
  BY <1>1, <1>4, <1>5, <1>8
<1>10. Decoded(u) \in Seq(1 .. MaxSent)
  BY <1>3, <1>9
<1>11. p.number \in 1 .. MaxSent
  BY PartType
<1>12. Append(Decoded(u), p.number) \in Seq(1 .. MaxSent)
  BY <1>10, <1>11, AppendProperties
<1>13. Decoded(t) = IF EndsLine(p) THEN Append(Decoded(u), p.number) ELSE Decoded(u)
  BY <1>7, DecodedAppend
<1> QED
  BY <1>5, <1>10, <1>12, <1>13, Zenon

\* Without a newline there is no message.
LEMMA DecodedPartial ==
    ASSUME NEW s \in Seq(Part), NoNewline(s)
    PROVE  Decoded(s) = <<>>
PROOF
<1> DEFINE n == Len(s)
<1>1. n \in Nat
  BY Elements
<1>2. PICK f : Follows(s, n, f) /\ Decoded(s) = f[n]
  BY DecodedFollows
<1>3. \A i \in 1 .. n : ~EndsLine(s[i])
  BY DEF NoNewline
<1> HIDE DEF n
<1>4. /\ f[0] = <<>>
      /\ \A i \in 1 .. n :
           f[i] = IF EndsLine(s[i]) THEN Append(f[i - 1], s[i].number) ELSE f[i - 1]
  BY <1>1, <1>2, FollowsSteps
<1>5. \A i \in 1 .. n : f[i] = f[i - 1]
  BY <1>3, <1>4, Zenon
<1> DEFINE T == {i \in Nat : i =< n /\ f[i] # <<>>}
<1>6. ASSUME T # {} PROVE FALSE
  <2>1. T \subseteq Nat
    OBVIOUS
  <2>2. \A i \in T : i \in Nat /\ i =< n /\ f[i] # <<>>
    OBVIOUS
  <2>3. \A i \in Nat : i =< n /\ i \notin T => f[i] = <<>>
    OBVIOUS
  <2> HIDE DEF T
  <2>4. PICK x \in T : \A y \in T : x =< y
    BY <1>6, <2>1, Least
  <2>5. x # 0
    BY <1>4, <2>2, <2>4
  <2>6. x \in 1 .. n /\ x - 1 \in Nat /\ x - 1 =< n /\ x - 1 \notin T
    BY <1>1, <2>2, <2>4, <2>5
  <2>7. f[x - 1] = <<>> /\ f[x] = f[x - 1]
    BY <1>5, <2>3, <2>6
  <2> QED
    BY <2>2, <2>4, <2>7
<1> QED
  BY <1>1, <1>2, <1>6

\* Lines that follow each other give messages that follow each other.
LEMMA DecodedConcat ==
    ASSUME NEW s \in Seq(Part), NEW t \in Seq(Part)
    PROVE  Decoded(s \o t) = Decoded(s) \o Decoded(t)
PROOF
<1> DEFINE P(v) == Decoded(s \o v) = Decoded(s) \o Decoded(v)
           T == {n \in Nat : \E v \in Seq(Part) : Len(v) = n /\ ~P(v)}
<1>a. Decoded(s) \in Seq(1 .. MaxSent)
  BY DecodedType
<1> SUFFICES ASSUME T # {} PROVE FALSE
  BY Elements
<1>1. T \subseteq Nat
  OBVIOUS
<1>2. \A n \in T : \E v \in Seq(Part) : Len(v) = n /\ ~P(v)
  OBVIOUS
<1>3. \A v \in Seq(Part) : Len(v) \notin T => P(v)
  BY Elements
<1> HIDE DEF T, P
<1>4. PICK x \in T : \A y \in T : x =< y
  BY <1>1, Least
<1>5. PICK v \in Seq(Part) : Len(v) = x /\ ~P(v)
  BY <1>2, <1>4
<1>6. v # <<>>
  <2> SUFFICES ASSUME v = <<>> PROVE P(v)
    BY <1>5
  <2>1. s \o <<>> = s /\ Decoded(s) \o <<>> = Decoded(s)
    BY <1>a, ConcatEmptySeq
  <2> QED
    BY <2>1, DecodedEmpty, Zenon DEF P
<1>7. PICK u \in Seq(Part), p \in Part : v = Append(u, p)
  BY <1>6, SequenceEmptyOrAppend
<1>8. Len(u) \in Nat /\ Len(v) = Len(u) + 1
  BY <1>7, AppendProperties, Elements
<1>9. Len(u) \notin T
  BY <1>1, <1>4, <1>5, <1>8
<1>10. Decoded(s \o u) = Decoded(s) \o Decoded(u)
  BY <1>3, <1>9 DEF P
<1>b. Decoded(u) \in Seq(1 .. MaxSent) /\ p.number \in 1 .. MaxSent /\ s \o u \in Seq(Part)
  BY DecodedType, PartType, ConcatProperties
<1>11. s \o Append(u, p) = Append(s \o u, p)
  <2>1. s \o (u \o <<p>>) = (s \o u) \o <<p>>
    BY ConcatAssociative
  <2>2. Append(u, p) = u \o <<p>> /\ Append(s \o u, p) = (s \o u) \o <<p>>
    BY <1>b, AppendIsConcat
  <2> QED
    BY <2>1, <2>2
<1>12. Decoded(s) \o Append(Decoded(u), p.number) = Append(Decoded(s) \o Decoded(u), p.number)
  <2> DEFINE a == Decoded(s)
             b == Decoded(u)
             k == p.number
  <2>0. a \in Seq(1 .. MaxSent) /\ b \in Seq(1 .. MaxSent) /\ k \in 1 .. MaxSent
    BY <1>a, <1>b
  <2> HIDE DEF a, b, k
  <2>1. a \o b \in Seq(1 .. MaxSent)
    BY <2>0, ConcatProperties
  <2>2. <<k>> \in Seq(1 .. MaxSent)
    BY <2>0
  <2>3. a \o (b \o <<k>>) = (a \o b) \o <<k>>
    BY <2>0, <2>2, ConcatAssociative
  <2>4. Append(b, k) = b \o <<k>> /\ Append(a \o b, k) = (a \o b) \o <<k>>
    BY <2>0, <2>1, AppendIsConcat
  <2> QED
    BY <2>3, <2>4 DEF a, b, k
<1>13. Decoded(Append(s \o u, p))
         = IF EndsLine(p) THEN Append(Decoded(s \o u), p.number) ELSE Decoded(s \o u)
  BY <1>b, DecodedAppend
<1>14. Decoded(v) = IF EndsLine(p) THEN Append(Decoded(u), p.number) ELSE Decoded(u)
  BY <1>7, DecodedAppend
<1>15. P(v)
  <2>1. CASE EndsLine(p)
    BY <1>7, <1>10, <1>11, <1>12, <1>13, <1>14, <2>1, Zenon DEF P
  <2>2. CASE ~EndsLine(p)
    BY <1>7, <1>10, <1>11, <1>13, <1>14, <2>2, Zenon DEF P
  <2> QED
    BY <2>1, <2>2
<1> QED
  BY <1>5, <1>15
-----------------------------------------------------------------------------
(* The inductive invariant.                                                 *)

Types ==
    /\ conns \in 0 .. MaxConns
    /\ fd \in [Ends -> 0 .. MaxConns]
    /\ open \in [Connections -> SUBSET Ends]
    /\ backlog \in Seq(Connections)
    /\ wire \in [Connections -> [Ends -> Seq(Part)]]
    /\ out \in [Ends -> Seq(Part)] /\ buffer \in [Ends -> Seq(Part)]
    /\ reading \in [Ends -> BOOLEAN] /\ ipc_error \in BOOLEAN
    /\ batch \in [Ends -> Seq(1 .. MaxSent)] /\ delivered \in [Ends -> Seq(1 .. MaxSent)]
    /\ sent \in [Ends -> 0 .. MaxSent]
    /\ \A c \in Connections, e \in Ends : Len(wire[c][e]) =< Capacity

\* What sendall still has to write is the rest of the next message's line.
LineRest(s, n) ==
    \A i \in 1 .. Len(s) : s[i].number = n + 1 /\ (EndsLine(s[i]) <=> i = Len(s))

Writing(e) ==
    /\ out[e] # <<>> => fd[e] # 0 /\ sent[e] < MaxSent
    /\ LineRest(out[e], sent[e])

\* A buffer belongs to a connection and holds no whole line.
Buffered(e) == NoNewline(buffer[e]) /\ (fd[e] = 0 => buffer[e] = <<>>)

\* The session is on the newest connection; those in the backlog are newer than
\* the daemon's, oldest first.
Numbered ==
    /\ fd["session"] \in {0, conns} /\ fd["daemon"] =< conns
    /\ Len(backlog) =< 2
    /\ \A i \in 1 .. Len(backlog) : fd["daemon"] < backlog[i] /\ backlog[i] =< conns
    /\ \A i, j \in 1 .. Len(backlog) : i < j => backlog[i] < backlog[j]

Queued(c) == \E i \in 1 .. Len(backlog) : backlog[i] = c

\* Who has a connection open is who uses it, or will once it is accepted.
Opened(c) ==
    /\ "session" \in open[c] <=> fd["session"] = c
    /\ "daemon" \in open[c] <=> fd["daemon"] = c \/ Queued(c)

\* Nothing is on connections to come; nothing was written to a session that waits.
Fresh(c) ==
    /\ c > conns => \A e \in Ends : wire[c][e] = <<>>
    /\ Queued(c) => wire[c]["daemon"] = <<>>
    /\ Queued(c) /\ fd["session"] = c => buffer["session"] = <<>>

\* What the reader of e's lines on c has not decoded yet, from what it has read of
\* a line to what e is about to write.
Read(c, e) == IF fd[Peer(e)] = c THEN buffer[Peer(e)] ELSE <<>>
ToWrite(c, e) == IF fd[e] = c THEN out[e] ELSE <<>>
Stream(c, e) == Read(c, e) \o wire[c][e] \o ToWrite(c, e)

\* It decodes, and is whole unless e has gone.
Lines(c, e) ==
    Peer(e) \in open[c] =>
      /\ Decodes(Stream(c, e))
      /\ fd[e] = c => Ended(Stream(c, e))

Ordering ==
    /\ Numbered
    /\ \A e \in Ends : Writing(e) /\ Buffered(e)
    /\ \A c \in Connections : Opened(c) /\ Fresh(c)

LineInv ==
    /\ Types
    /\ Ordering
    /\ \A c \in Connections, e \in Ends : Lines(c, e)
    /\ NoGarble

\* The part of the state that the lines are about.
lineVars == <<conns, fd, open, backlog, wire, out, buffer, ipc_error, sent>>

LEMMA Peers ==
    /\ Ends = {"daemon", "session"}
    /\ Peer("daemon") = "session" /\ Peer("session") = "daemon"
    /\ \A e \in Ends : Peer(e) \in Ends /\ Peer(e) # e /\ Peer(Peer(e)) = e
    /\ \A e, x \in Ends : x = e \/ x = Peer(e)
PROOF
  BY DEF Ends, Peer

LEMMA ConnectionsAre ==
    /\ MaxConns \in Nat /\ MaxSent \in Nat /\ MaxSize \in Nat /\ Capacity \in Nat /\ Chunk \in Nat
    /\ Chunk >= 1
    /\ \A c : c \in Connections <=> c \in Nat /\ c >= 1 /\ c =< MaxConns
PROOF
<1>1. /\ MaxConns \in Nat /\ MaxSent \in Nat /\ MaxSize \in Nat /\ Capacity \in Nat
      /\ Chunk \in Nat \ {0}
  BY LineAssumption
<1> QED
  BY <1>1 DEF Connections

LEMMA StateTypes ==
    ASSUME Types
    PROVE  /\ \A e \in Ends : /\ fd[e] \in Nat /\ fd[e] =< MaxConns /\ out[e] \in Seq(Part)
                              /\ buffer[e] \in Seq(Part) /\ batch[e] \in Seq(1 .. MaxSent)
                              /\ sent[e] \in Nat /\ sent[e] =< MaxSent
                              /\ (fd[e] # 0 => fd[e] \in Connections)
           /\ \A c \in Connections, e \in Ends : wire[c][e] \in Seq(Part)
           /\ \A i \in 1 .. Len(backlog) : backlog[i] \in Connections
           /\ Len(backlog) \in Nat
PROOF
<1>1. backlog \in Seq(Connections)
  BY DEF Types
<1>2. Len(backlog) \in Nat /\ \A i \in 1 .. Len(backlog) : backlog[i] \in Connections
  BY <1>1, Elements
<1>3. \A c \in Connections, e \in Ends : wire[c][e] \in Seq(Part)
  BY DEF Types
<1>4. \A e \in Ends : fd[e] \in 0 .. MaxConns /\ sent[e] \in 0 .. MaxSent
  BY DEF Types
<1>5. \A e \in Ends : /\ fd[e] \in Nat /\ fd[e] =< MaxConns /\ sent[e] \in Nat
                      /\ sent[e] =< MaxSent /\ (fd[e] # 0 => fd[e] \in Connections)
  BY <1>4, ConnectionsAre
<1>6. \A e \in Ends : /\ out[e] \in Seq(Part) /\ buffer[e] \in Seq(Part)
                      /\ batch[e] \in Seq(1 .. MaxSent)
  BY DEF Types
<1> QED
  BY <1>2, <1>3, <1>5, <1>6

LEMMA StreamTypes ==
    ASSUME Types, NEW c \in Connections, NEW e \in Ends
    PROVE  /\ Read(c, e) \in Seq(Part) /\ wire[c][e] \in Seq(Part) /\ ToWrite(c, e) \in Seq(Part)
           /\ Read(c, e) \o wire[c][e] \in Seq(Part)
           /\ Stream(c, e) \in Seq(Part)
PROOF
<1>1. /\ buffer[Peer(e)] \in Seq(Part) /\ out[e] \in Seq(Part) /\ wire[c][e] \in Seq(Part)
      /\ <<>> \in Seq(Part)
  BY StateTypes, Peers, EmptySeq
<1>2. Read(c, e) \in Seq(Part) /\ ToWrite(c, e) \in Seq(Part)
  BY <1>1, Zenon DEF Read, ToWrite
<1>3. Read(c, e) \o wire[c][e] \in Seq(Part)
  BY <1>1, <1>2, ConcatProperties
<1>4. Stream(c, e) \in Seq(Part)
  BY <1>2, <1>3, ConcatProperties DEF Stream
<1> QED
  BY <1>1, <1>2, <1>3, <1>4

\* Steps that touch only batches and the flags.
LEMMA Unmoved ==
    ASSUME UNCHANGED lineVars
    PROVE  /\ Ordering => Ordering'
           /\ (\A c \in Connections, e \in Ends : Lines(c, e))
                => (\A c \in Connections, e \in Ends : Lines(c, e))'
           /\ NoGarble => NoGarble'
PROOF
<1> USE DEF lineVars
<1>1. Numbered => Numbered'
  BY DEF Numbered
<1>2. \A c : Queued(c)' <=> Queued(c)
  BY DEF Queued
<1>3. \A e : (Writing(e) => Writing(e)') /\ (Buffered(e) => Buffered(e)')
  BY DEF Writing, Buffered
<1>4. \A c : (Opened(c) => Opened(c)') /\ (Fresh(c) => Fresh(c)')
  BY <1>2 DEF Opened, Fresh
<1>5. \A c, e : Stream(c, e)' = Stream(c, e)
  BY DEF Stream, Read, ToWrite
<1>6. \A c, e : Lines(c, e) => Lines(c, e)'
  BY <1>5 DEF Lines
<1> QED
  BY <1>1, <1>3, <1>4, <1>6 DEF Ordering, NoGarble

\* The kernel's part of close().
LEMMA HangupEffect ==
    ASSUME Types, NEW e \in Ends, NEW cs, Hangup(e, cs)
    PROVE  /\ open' \in [Connections -> SUBSET Ends]
           /\ wire' \in [Connections -> [Ends -> Seq(Part)]]
           /\ \A c \in Connections :
                /\ open'[c] = IF c \in cs THEN open[c] \ {e} ELSE open[c]
                /\ wire'[c][e] = wire[c][e]
                /\ wire'[c][Peer(e)] = IF c \in cs THEN <<>> ELSE wire[c][Peer(e)]
PROOF
<1>0. /\ wire \in [Connections -> [Ends -> Seq(Part)]]
      /\ open \in [Connections -> SUBSET Ends] /\ <<>> \in Seq(Part)
      /\ Peer(e) \in Ends /\ Peer(e) # e
  BY Peers, EmptySeq DEF Types
<1>1. open' = [c \in Connections |-> IF c \in cs THEN open[c] \ {e} ELSE open[c]]
  BY DEF Hangup
<1>2. wire' = [c \in Connections |->
                 IF c \in cs THEN [wire[c] EXCEPT ![Peer(e)] = <<>>] ELSE wire[c]]
  BY DEF Hangup
<1>3. open' \in [Connections -> SUBSET Ends]
  BY <1>0, <1>1
<1>4. \A c \in Connections : wire[c] \in [Ends -> Seq(Part)]
  BY <1>0
<1>5. \A c \in Connections : [wire[c] EXCEPT ![Peer(e)] = <<>>] \in [Ends -> Seq(Part)]
  BY <1>0, <1>4
<1>6. wire' \in [Connections -> [Ends -> Seq(Part)]]
  BY <1>2, <1>4, <1>5
<1>7. ASSUME NEW c \in Connections
      PROVE  /\ wire'[c][e] = wire[c][e]
             /\ wire'[c][Peer(e)] = IF c \in cs THEN <<>> ELSE wire[c][Peer(e)]
  <2>1. wire'[c] = IF c \in cs THEN [wire[c] EXCEPT ![Peer(e)] = <<>>] ELSE wire[c]
    BY <1>2
  <2>2. wire[c] \in [Ends -> Seq(Part)]
    BY <1>4
  <2> QED
    BY <1>0, <2>1, <2>2
<1> QED
  BY <1>1, <1>3, <1>6, <1>7

\* An end lets its connection go: close_client, or the end of its process.
Closes(e, cs) ==
    /\ fd[e] # 0 /\ fd' = [fd EXCEPT ![e] = 0] /\ Hangup(e, cs)
    /\ buffer' = [buffer EXCEPT ![e] = <<>>] /\ out' = [out EXCEPT ![e] = <<>>]
    /\ batch' \in {batch, [batch EXCEPT ![e] = <<>>]}
    /\ reading' \in {reading, [reading EXCEPT ![e] = FALSE]}
    /\ UNCHANGED <<conns, sent, ipc_error, delivered>>
    /\ \/ cs = {fd[e]} /\ backlog' = backlog
       \/ e = "daemon" /\ cs = {fd[e]} \union Range(backlog) /\ backlog' = <<>>

LEMMA ClosingSteps ==
    ASSUME Types, NEW e \in Ends, Writing(e), WriteFails(e) \/ Eof(e) \/ Kill(e)
    PROVE  \E cs : Closes(e, cs)
PROOF
<1>0. out \in [Ends -> Seq(Part)] /\ fd \in [Ends -> 0 .. MaxConns]
  BY DEF Types
<1>1. CASE WriteFails(e)
  <2>1. Closes(e, {fd[e]})
    BY <1>1 DEF WriteFails, CloseClient, Writing, Closes
  <2> QED
    BY <2>1
<1>2. CASE Eof(e)
  <2>1. out' = out /\ out[e] = <<>> /\ fd[e] # 0
    BY <1>2 DEF Eof, MayRead
  <2>2. out' = [out EXCEPT ![e] = <<>>]
    BY <1>0, <2>1
  <2>3. batch' \in {batch, [batch EXCEPT ![e] = <<>>]}
    <3>1. batch' = [batch EXCEPT ![e] = IF e = "session" THEN <<>> ELSE @]
      BY <1>2 DEF Eof
    <3>2. batch \in [Ends -> Seq(1 .. MaxSent)]
      BY DEF Types
    <3> QED
      BY <3>1, <3>2
  <2>4. Closes(e, {fd[e]})
    BY <1>2, <2>1, <2>2, <2>3 DEF Eof, CloseClient, Closes
  <2> QED
    BY <2>4
<1>3. CASE Kill(e)
  <2>1. CASE e = "daemon"
    <3>1. Closes(e, {fd[e]} \union Range(backlog))
      BY <1>3, <2>1 DEF Kill, Closes
    <3> QED
      BY <3>1
  <2>2. CASE e # "daemon"
    <3>1. {fd[e]} \union {} = {fd[e]}
      OBVIOUS
    <3>2. Closes(e, {fd[e]})
      BY <1>3, <2>2, <3>1 DEF Kill, Closes
    <3> QED
      BY <3>2
  <2> QED
    BY <2>1, <2>2
<1> QED
  BY <1>1, <1>2, <1>3

LEMMA ClosesTypes ==
    ASSUME Types, NEW e \in Ends, NEW cs, Closes(e, cs)
    PROVE  Types'
PROOF
<1>1. /\ open' \in [Connections -> SUBSET Ends]
      /\ wire' \in [Connections -> [Ends -> Seq(Part)]]
      /\ \A c \in Connections :
           /\ open'[c] = IF c \in cs THEN open[c] \ {e} ELSE open[c]
           /\ wire'[c][e] = wire[c][e]
           /\ wire'[c][Peer(e)] = IF c \in cs THEN <<>> ELSE wire[c][Peer(e)]
  <2>1. Hangup(e, cs)
    BY DEF Closes
  <2> QED
    BY <2>1, HangupEffect
<1>2. <<>> \in Seq(Part) /\ <<>> \in Seq(1 .. MaxSent) /\ <<>> \in Seq(Connections)
  BY EmptySeq
<1>3. \A c \in Connections, x \in Ends : Len(wire'[c][x]) =< Capacity
  <2> SUFFICES ASSUME NEW c \in Connections, NEW x \in Ends
               PROVE  Len(wire'[c][x]) =< Capacity
    OBVIOUS
  <2>1. Len(wire[c][x]) =< Capacity /\ Len(<<>>) = 0 /\ 0 =< Capacity
    BY ConnectionsAre, EmptySeq DEF Types
  <2>2. wire'[c][x] \in {wire[c][x], <<>>}
    <3>1. CASE x = e
      BY <1>1, <3>1
    <3>2. CASE x = Peer(e)
      BY <1>1, <3>2
    <3> QED
      BY <3>1, <3>2, Peers
  <2> QED
    BY <2>1, <2>2
<1>4. /\ fd' \in [Ends -> 0 .. MaxConns]
      /\ out' \in [Ends -> Seq(Part)] /\ buffer' \in [Ends -> Seq(Part)]
  BY <1>2, ConnectionsAre DEF Types, Closes
<1>5. batch' \in [Ends -> Seq(1 .. MaxSent)] /\ reading' \in [Ends -> BOOLEAN]
  BY <1>2 DEF Types, Closes
<1>6. backlog' \in Seq(Connections)
  BY <1>2 DEF Types, Closes
<1>7. /\ conns' \in 0 .. MaxConns /\ sent' \in [Ends -> 0 .. MaxSent] /\ ipc_error' \in BOOLEAN
      /\ delivered' \in [Ends -> Seq(1 .. MaxSent)]
  BY DEF Types, Closes
<1> QED
  BY <1>1, <1>3, <1>4, <1>5, <1>6, <1>7 DEF Types

\* What Closes does to the state, place by place.
LEMMA ClosesEffect ==
    ASSUME Types, Numbered, NEW e \in Ends, NEW cs, Closes(e, cs)
    PROVE  /\ fd[e] # 0 /\ fd'[e] = 0 /\ fd'[Peer(e)] = fd[Peer(e)]
           /\ buffer'[e] = <<>> /\ buffer'[Peer(e)] = buffer[Peer(e)]
           /\ out'[e] = <<>> /\ out'[Peer(e)] = out[Peer(e)]
           /\ conns' = conns /\ sent' = sent /\ ipc_error' = ipc_error
           /\ fd[e] \in cs
           /\ \A c \in cs : c = fd[e] \/ (e = "daemon" /\ Queued(c))
           /\ \/ backlog' = backlog /\ cs = {fd[e]}
              \/ backlog' = <<>> /\ e = "daemon" /\ \A c : Queued(c) => c \in cs
           /\ \A c \in Connections :
                /\ open'[c] = IF c \in cs THEN open[c] \ {e} ELSE open[c]
                /\ wire'[c][e] = wire[c][e]
                /\ wire'[c][Peer(e)] = IF c \in cs THEN <<>> ELSE wire[c][Peer(e)]
PROOF
<1>0. /\ fd \in [Ends -> 0 .. MaxConns] /\ out \in [Ends -> Seq(Part)]
      /\ buffer \in [Ends -> Seq(Part)] /\ Peer(e) \in Ends /\ Peer(e) # e
  BY Peers DEF Types
<1>1. /\ fd[e] # 0 /\ fd'[e] = 0 /\ fd'[Peer(e)] = fd[Peer(e)]
      /\ buffer'[e] = <<>> /\ buffer'[Peer(e)] = buffer[Peer(e)]
      /\ out'[e] = <<>> /\ out'[Peer(e)] = out[Peer(e)]
  BY <1>0 DEF Closes
<1>2. conns' = conns /\ sent' = sent /\ ipc_error' = ipc_error
  BY DEF Closes
<1>3. \A c \in Connections :
        /\ open'[c] = IF c \in cs THEN open[c] \ {e} ELSE open[c]
        /\ wire'[c][e] = wire[c][e]
        /\ wire'[c][Peer(e)] = IF c \in cs THEN <<>> ELSE wire[c][Peer(e)]
  BY HangupEffect DEF Closes
<1>4. Range(backlog) = {backlog[i] : i \in 1 .. Len(backlog)}
  <2>1. DOMAIN backlog = 1 .. Len(backlog)
    BY Elements DEF Types
  <2> QED
    BY <2>1 DEF Range
<1>5. \A c : c \in Range(backlog) <=> Queued(c)
  BY <1>4 DEF Queued
<1>6. /\ fd[e] \in cs
      /\ \A c \in cs : c = fd[e] \/ (e = "daemon" /\ Queued(c))
      /\ \/ backlog' = backlog /\ cs = {fd[e]}
         \/ backlog' = <<>> /\ e = "daemon" /\ \A c : Queued(c) => c \in cs
  BY <1>5, Zenon DEF Closes
<1> QED
  BY <1>1, <1>2, <1>3, <1>6

LEMMA ClosesOrdering ==
    ASSUME Types, Ordering, NEW e \in Ends, NEW cs, Closes(e, cs)
    PROVE  Ordering'
PROOF
<1>0. /\ Numbered /\ \A x \in Ends : Writing(x) /\ Buffered(x)
      /\ \A c \in Connections : Opened(c) /\ Fresh(c)
  BY DEF Ordering
<1>1. /\ fd[e] # 0 /\ fd'[e] = 0 /\ fd'[Peer(e)] = fd[Peer(e)]
      /\ buffer'[e] = <<>> /\ buffer'[Peer(e)] = buffer[Peer(e)]
      /\ out'[e] = <<>> /\ out'[Peer(e)] = out[Peer(e)]
      /\ conns' = conns /\ sent' = sent
      /\ fd[e] \in cs
      /\ \A c \in cs : c = fd[e] \/ (e = "daemon" /\ Queued(c))
      /\ \/ backlog' = backlog /\ cs = {fd[e]}
         \/ backlog' = <<>> /\ e = "daemon" /\ \A c : Queued(c) => c \in cs
  BY <1>0, ClosesEffect
<1>2. \A c \in Connections :
        /\ open'[c] = IF c \in cs THEN open[c] \ {e} ELSE open[c]
        /\ wire'[c][e] = wire[c][e]
        /\ wire'[c][Peer(e)] = IF c \in cs THEN <<>> ELSE wire[c][Peer(e)]
  BY <1>0, ClosesEffect
<1>3. /\ \A x \in Ends : fd[x] \in Nat /\ fd'[x] \in {0, fd[x]}
      /\ \A i \in 1 .. Len(backlog) : backlog[i] \in Nat /\ backlog[i] >= 1
      /\ Len(<<>>) = 0 /\ conns \in Nat
  <2>1. /\ \A x \in Ends : fd[x] \in Nat
        /\ \A i \in 1 .. Len(backlog) : backlog[i] \in Connections
    BY StateTypes
  <2>2. \A x \in Ends : fd'[x] \in {0, fd[x]}
    BY <1>1, Peers
  <2>3. conns \in Nat /\ Len(<<>>) = 0
    BY EmptySeq DEF Types
  <2> QED
    BY <2>1, <2>2, <2>3, ConnectionsAre
<1>4. "daemon" \in Ends /\ "session" \in Ends
  BY Peers
<1>5. Numbered'
  <2>1. fd'["session"] \in {0, conns} /\ fd'["daemon"] =< fd["daemon"] /\ fd'["daemon"] \in Nat
    BY <1>0, <1>3, <1>4 DEF Numbered
  <2>2. fd'["daemon"] =< conns
    BY <1>0, <1>3, <1>4, <2>1 DEF Numbered
  <2>3. CASE backlog' = backlog
    <3>1. \A i \in 1 .. Len(backlog) : fd'["daemon"] < backlog[i] /\ backlog[i] =< conns
      BY <1>0, <1>3, <1>4, <2>1 DEF Numbered
    <3> QED
      BY <1>0, <1>1, <2>1, <2>2, <2>3, <3>1 DEF Numbered
  <2>4. CASE backlog' = <<>>
    BY <1>1, <1>3, <2>1, <2>2, <2>4 DEF Numbered
  <2> QED
    BY <1>1, <2>3, <2>4
<1>6. \A x \in Ends : Writing(x)' /\ Buffered(x)'
  <2>1. Writing(e)' /\ Buffered(e)'
    BY <1>1, <1>3 DEF Writing, Buffered, LineRest, NoNewline
  <2>2. Writing(Peer(e))' /\ Buffered(Peer(e))'
    BY <1>0, <1>1, Peers DEF Writing, Buffered
  <2> QED
    BY <2>1, <2>2, Peers
<1>7. \A c : Queued(c)' <=> Queued(c) /\ backlog' = backlog
  BY <1>1, <1>3 DEF Queued
<1>8. ~Queued(fd["daemon"])
  BY <1>0, <1>3, <1>4 DEF Queued, Numbered
<1>9. ASSUME NEW c \in Connections PROVE Opened(c)' /\ Fresh(c)'
  <2>0. c # 0
    BY ConnectionsAre
  <2>1. Opened(c) /\ Fresh(c)
    BY <1>0
  <2>2. "session" \in open'[c] <=> fd'["session"] = c
    <3>1. CASE e = "session"
      <4>1. fd'["session"] # c /\ cs = {fd["session"]}
        BY <1>1, <2>0, <3>1
      <4>2. "session" \notin open'[c]
        BY <1>2, <2>1, <3>1, <4>1 DEF Opened
      <4> QED
        BY <4>1, <4>2
    <3>2. CASE e = "daemon"
      <4>1. fd'["session"] = fd["session"]
        BY <1>1, <3>2, Peers
      <4>2. "session" \in open'[c] <=> "session" \in open[c]
        BY <1>2, <3>2
      <4> QED
        BY <2>1, <4>1, <4>2 DEF Opened
    <3> QED
      BY <3>1, <3>2, Peers
  <2>3. "daemon" \in open'[c] <=> fd'["daemon"] = c \/ Queued(c)'
    <3>1. CASE e = "session"
      <4>1. fd'["daemon"] = fd["daemon"] /\ backlog' = backlog
        BY <1>1, <3>1, Peers
      <4>2. "daemon" \in open'[c] <=> "daemon" \in open[c]
        BY <1>2, <3>1
      <4> QED
        BY <1>7, <2>1, <4>1, <4>2 DEF Opened
    <3>2. CASE e = "daemon"
      <4>1. fd'["daemon"] # c
        BY <1>1, <2>0, <3>2
      <4>2. "daemon" \in open'[c] <=> "daemon" \in open[c] /\ c \notin cs
        BY <1>2, <3>2
      <4>3. "daemon" \in open[c] <=> fd["daemon"] = c \/ Queued(c)
        BY <2>1 DEF Opened
      <4>4. CASE backlog' = backlog /\ cs = {fd[e]}
        BY <1>7, <1>8, <3>2, <4>1, <4>2, <4>3, <4>4
      <4>5. CASE backlog' = <<>> /\ \A d : Queued(d) => d \in cs
        <5>1. ~Queued(c)'
          BY <1>3, <4>5 DEF Queued
        <5>2. "daemon" \notin open'[c]
          BY <1>1, <3>2, <4>2, <4>3, <4>5
        <5> QED
          BY <4>1, <5>1, <5>2
      <4> QED
        BY <1>1, <4>4, <4>5
    <3> QED
      BY <3>1, <3>2, Peers
  <2>4. Opened(c)'
    BY <2>2, <2>3 DEF Opened
  <2>5. \A x \in Ends : wire'[c][x] \in {wire[c][x], <<>>}
    <3> TAKE x \in Ends
    <3>1. CASE x = e
      BY <1>2, <3>1
    <3>2. CASE x = Peer(e)
      BY <1>2, <3>2
    <3> QED
      BY <3>1, <3>2, Peers
  <2>6. /\ c > conns => \A x \in Ends : wire'[c][x] = <<>>
        /\ Queued(c) => wire'[c]["daemon"] = <<>>
    BY <1>4, <2>1, <2>5 DEF Fresh
  <2>7. Queued(c) /\ fd'["session"] = c => buffer'["session"] = <<>>
    <3>1. CASE e = "session"
      BY <1>1, <3>1
    <3>2. CASE e = "daemon"
      BY <1>1, <2>1, <3>2, Peers DEF Fresh
    <3> QED
      BY <3>1, <3>2, Peers
  <2>8. Fresh(c)'
    BY <1>1, <1>7, <2>6, <2>7 DEF Fresh
  <2> QED
    BY <2>4, <2>8
<1> QED
  BY <1>5, <1>6, <1>9 DEF Ordering

LEMMA ClosesLines ==
    ASSUME Types, Ordering, NEW e \in Ends, NEW cs, Closes(e, cs),
           \A c \in Connections, x \in Ends : Lines(c, x)
    PROVE  (\A c \in Connections, x \in Ends : Lines(c, x))'
PROOF
<1>0. Numbered
  BY DEF Ordering
<1>1. /\ fd[e] # 0 /\ fd'[e] = 0 /\ fd'[Peer(e)] = fd[Peer(e)]
      /\ buffer'[e] = <<>> /\ buffer'[Peer(e)] = buffer[Peer(e)]
      /\ out'[e] = <<>> /\ out'[Peer(e)] = out[Peer(e)] /\ fd[e] \in cs
  BY <1>0, ClosesEffect
<1>2. \A c \in Connections :
        /\ open'[c] = IF c \in cs THEN open[c] \ {e} ELSE open[c]
        /\ wire'[c][e] = wire[c][e]
        /\ wire'[c][Peer(e)] = IF c \in cs THEN <<>> ELSE wire[c][Peer(e)]
  BY <1>0, ClosesEffect
<1> SUFFICES ASSUME NEW c \in Connections, NEW x \in Ends, Peer(x) \in open'[c]
             PROVE  /\ Decodes(Stream(c, x)')
                    /\ fd'[x] = c => Ended(Stream(c, x)')
  BY DEF Lines
<1>3. c # 0
  BY ConnectionsAre
<1>4. Peer(x) \in open[c]
  BY <1>2
<1>5. Decodes(Stream(c, x)) /\ (fd[x] = c => Ended(Stream(c, x)))
  BY <1>4 DEF Lines
<1>6. CASE x = e
  \* The reader keeps what was written; the rest of the line will not come.
  <2>1. Read(c, e)' = Read(c, e) /\ ToWrite(c, e)' = <<>> /\ wire'[c][e] = wire[c][e]
    BY <1>1, <1>2, <1>3 DEF Read, ToWrite
  <2>2. /\ Read(c, e) \o wire[c][e] \in Seq(Part) /\ ToWrite(c, e) \in Seq(Part)
    BY StreamTypes
  <2>3. Stream(c, e)' = Read(c, e) \o wire[c][e]
    BY <2>1, <2>2, ConcatEmptySeq DEF Stream
  <2>4. Decodes(Read(c, e) \o wire[c][e])
    BY <1>5, <1>6, <2>2, DecodesPrefix DEF Stream
  <2> QED
    BY <1>1, <1>3, <1>6, <2>3, <2>4
<1>7. CASE x = Peer(e)
  \* The other direction goes on only where e had no part in it.
  <2>1. Peer(x) = e
    BY <1>7, Peers
  <2>2. c \notin cs
    BY <1>2, <2>1
  <2>3. fd[e] # c
    BY <1>1, <2>2
  <2>4. Read(c, x)' = Read(c, x)
    BY <1>1, <1>3, <2>1, <2>3 DEF Read
  <2>5. ToWrite(c, x)' = ToWrite(c, x) /\ wire'[c][x] = wire[c][x] /\ fd'[x] = fd[x]
    BY <1>1, <1>2, <1>7, <2>2 DEF ToWrite
  <2>6. Stream(c, x)' = Stream(c, x)
    BY <2>4, <2>5 DEF Stream
  <2> QED
    BY <1>5, <2>5, <2>6
<1> QED
  BY <1>6, <1>7, Peers
-----------------------------------------------------------------------------
(* Connecting.                                                              *)

LEMMA ConnectEffect ==
    ASSUME Types, Connect
    PROVE  /\ conns + 1 \in Connections /\ conns' = conns + 1 /\ conns \in Nat
           /\ fd["session"] = 0 /\ fd'["session"] = conns + 1 /\ fd'["daemon"] = fd["daemon"]
           /\ \A c \in Connections : open'[c] = IF c = conns + 1 THEN Ends ELSE open[c]
           /\ Len(backlog) < 2 /\ backlog' = Append(backlog, conns + 1)
           /\ sent["session"] + 1 \in 1 .. MaxSent /\ sent["session"] < MaxSent
           /\ out["session"] = <<>> /\ out'["daemon"] = out["daemon"]
           /\ \E size \in 1 .. MaxSize : out'["session"] = Encode(sent["session"] + 1, size)
           /\ UNCHANGED <<wire, buffer, ipc_error, sent>>
PROOF
<1>0. /\ "session" \in Ends /\ "daemon" \in Ends /\ conns \in 0 .. MaxConns
      /\ fd \in [Ends -> 0 .. MaxConns] /\ out \in [Ends -> Seq(Part)]
      /\ open \in [Connections -> SUBSET Ends] /\ sent["session"] \in Nat
  BY Peers, StateTypes DEF Types
<1>1. /\ fd["session"] = 0 /\ conns < MaxConns /\ Len(backlog) < 2 /\ sent["session"] < MaxSent
      /\ conns' = conns + 1 /\ fd' = [fd EXCEPT !["session"] = conns + 1]
      /\ open' = [open EXCEPT ![conns + 1] = Ends] /\ backlog' = Append(backlog, conns + 1)
      /\ UNCHANGED <<wire, buffer, ipc_error, sent>> /\ out["session"] = <<>>
  BY DEF Connect, AtRest
<1>2. PICK size \in 1 .. MaxSize :
        out' = [out EXCEPT !["session"] = Encode(sent["session"] + 1, size)]
  BY DEF Connect
<1>3. /\ conns + 1 \in Connections /\ conns \in Nat /\ sent["session"] + 1 \in 1 .. MaxSent
  <2>1. MaxSent \in Nat /\ MaxConns \in Nat
    BY LineAssumption
  <2>2. conns \in Nat /\ conns + 1 \in 1 .. MaxConns
    BY <1>0, <1>1, <2>1
  <2>3. sent["session"] + 1 \in 1 .. MaxSent
    BY <1>0, <1>1, <2>1
  <2> QED
    BY <2>2, <2>3, ConnectionsAre
<1>4. fd'["session"] = conns + 1 /\ fd'["daemon"] = fd["daemon"]
  BY <1>0, <1>1
<1>5. \A c \in Connections : open'[c] = IF c = conns + 1 THEN Ends ELSE open[c]
  BY <1>0, <1>1
<1>6. out'["session"] = Encode(sent["session"] + 1, size) /\ out'["daemon"] = out["daemon"]
  BY <1>0, <1>2
<1> QED
  BY <1>1, <1>3, <1>4, <1>5, <1>6

LEMMA ConnectTypes ==
    ASSUME Types, Connect
    PROVE  Types'
PROOF
<1>1. /\ conns + 1 \in Connections /\ conns' = conns + 1
      /\ sent["session"] + 1 \in 1 .. MaxSent
      /\ fd' = [fd EXCEPT !["session"] = conns + 1]
      /\ open' = [open EXCEPT ![conns + 1] = Ends] /\ backlog' = Append(backlog, conns + 1)
      /\ UNCHANGED <<wire, reading, buffer, batch, ipc_error, sent, delivered>>
  BY ConnectEffect DEF Connect
<1>2. PICK size \in 1 .. MaxSize :
        out' = [out EXCEPT !["session"] = Encode(sent["session"] + 1, size)]
  BY DEF Connect
<1>3. Encode(sent["session"] + 1, size) \in Seq(Part)
  BY <1>1, EncodeLine
<1>4. out' \in [Ends -> Seq(Part)]
  BY <1>2, <1>3 DEF Types
<1>5. conns' \in 0 .. MaxConns /\ fd' \in [Ends -> 0 .. MaxConns]
  <2>1. conns + 1 \in 0 .. MaxConns
    BY <1>1, ConnectionsAre
  <2>2. fd \in [Ends -> 0 .. MaxConns]
    BY DEF Types
  <2> QED
    BY <1>1, <2>1, <2>2
<1>6. open' \in [Connections -> SUBSET Ends]
  BY <1>1 DEF Types
<1>7. backlog' \in Seq(Connections)
  BY <1>1, AppendProperties DEF Types
<1> QED
  BY <1>1, <1>4, <1>5, <1>6, <1>7 DEF Types

\* A line written whole is what is left of it.
LEMMA EncodeRest ==
    ASSUME NEW n \in Nat, n < MaxSent, NEW size \in 1 .. MaxSize
    PROVE  LineRest(Encode(n + 1, size), n)
PROOF
<1>1. n + 1 \in 1 .. MaxSent
  BY ConnectionsAre
<1>2. /\ Len(Encode(n + 1, size)) = size
      /\ \A k \in 1 .. size : /\ Encode(n + 1, size)[k].number = n + 1
                              /\ EndsLine(Encode(n + 1, size)[k]) <=> k = size
  BY <1>1, EncodeLine
<1> QED
  BY <1>2 DEF LineRest

LEMMA ConnectOrdering ==
    ASSUME Types, Ordering, Connect
    PROVE  Ordering'
PROOF
<1>0. /\ Numbered /\ \A x \in Ends : Writing(x) /\ Buffered(x)
      /\ \A c \in Connections : Opened(c) /\ Fresh(c)
      /\ "session" \in Ends /\ "daemon" \in Ends
  BY Peers DEF Ordering
<1> DEFINE c0 == conns + 1
<1>1. /\ c0 \in Connections /\ conns' = c0 /\ conns \in Nat
      /\ fd["session"] = 0 /\ fd'["session"] = c0 /\ fd'["daemon"] = fd["daemon"]
      /\ \A c \in Connections : open'[c] = IF c = c0 THEN Ends ELSE open[c]
      /\ Len(backlog) < 2 /\ backlog' = Append(backlog, c0)
      /\ sent["session"] < MaxSent /\ out'["daemon"] = out["daemon"]
      /\ \E size \in 1 .. MaxSize : out'["session"] = Encode(sent["session"] + 1, size)
      /\ UNCHANGED <<wire, buffer, ipc_error, sent>>
  BY ConnectEffect
<1>2. /\ \A x \in Ends : fd[x] \in Nat /\ sent[x] \in Nat
      /\ Len(backlog) \in Nat /\ \A i \in 1 .. Len(backlog) : backlog[i] \in Nat
      /\ c0 > conns /\ c0 \in Nat /\ c0 # 0
  BY <1>1, StateTypes, ConnectionsAre
<1>3. /\ Len(backlog') = Len(backlog) + 1 /\ backlog'[Len(backlog) + 1] = c0
      /\ \A i \in 1 .. Len(backlog) : backlog'[i] = backlog[i]
  BY <1>1, AppendProperties DEF Types
<1> HIDE DEF c0
<1>4. /\ fd["daemon"] =< conns
      /\ \A i \in 1 .. Len(backlog) : fd["daemon"] < backlog[i] /\ backlog[i] =< conns
      /\ \A i, j \in 1 .. Len(backlog) : i < j => backlog[i] < backlog[j]
  BY <1>0 DEF Numbered
<1>5. \A i \in 1 .. Len(backlog') : i = Len(backlog) + 1 \/ i \in 1 .. Len(backlog)
  BY <1>2, <1>3
<1>6. Numbered'
  <2>1. fd'["session"] \in {0, conns'} /\ fd'["daemon"] =< conns'
    BY <1>0, <1>1, <1>2, <1>4
  <2>2. Len(backlog') =< 2
    BY <1>1, <1>2, <1>3
  <2>3. ASSUME NEW i \in 1 .. Len(backlog')
        PROVE  fd'["daemon"] < backlog'[i] /\ backlog'[i] =< conns'
    BY <1>0, <1>1, <1>2, <1>3, <1>4, <1>5
  <2>4. ASSUME NEW i \in 1 .. Len(backlog'), NEW j \in 1 .. Len(backlog'), i < j
        PROVE  backlog'[i] < backlog'[j]
    <3>1. i \in 1 .. Len(backlog)
      BY <1>2, <1>3, <2>4
    <3>2. CASE j \in 1 .. Len(backlog)
      BY <1>3, <1>4, <2>4, <3>1, <3>2
    <3>3. CASE j = Len(backlog) + 1
      BY <1>1, <1>2, <1>3, <1>4, <3>1, <3>3
    <3> QED
      BY <1>5, <3>2, <3>3
  <2> QED
    BY <2>1, <2>2, <2>3, <2>4 DEF Numbered
<1>7. \A c : Queued(c)' <=> Queued(c) \/ c = c0
  <2>1. ASSUME NEW c, Queued(c)' PROVE Queued(c) \/ c = c0
    BY <1>3, <1>5, <2>1 DEF Queued
  <2>2. ASSUME NEW c, Queued(c) PROVE Queued(c)'
    <3>1. PICK i \in 1 .. Len(backlog) : backlog[i] = c
      BY <2>2 DEF Queued
    <3>2. i \in 1 .. Len(backlog')
      BY <1>2, <1>3
    <3> QED
      BY <1>3, <3>1, <3>2 DEF Queued
  <2>3. ASSUME NEW c, c = c0 PROVE Queued(c)'
    <3>1. Len(backlog) + 1 \in 1 .. Len(backlog')
      BY <1>2, <1>3
    <3> QED
      BY <1>3, <2>3, <3>1 DEF Queued
  <2> QED
    BY <2>1, <2>2, <2>3
<1>8. \A x \in Ends : Writing(x)' /\ Buffered(x)'
  <2>1. Writing("daemon")' /\ Buffered("daemon")'
    BY <1>0, <1>1 DEF Writing, Buffered
  <2>2. Buffered("session")'
    BY <1>0, <1>1 DEF Buffered
  <2>3. PICK size \in 1 .. MaxSize : out'["session"] = Encode(sent["session"] + 1, size)
    BY <1>1
  <2>4. LineRest(out'["session"], sent["session"])
    BY <1>0, <1>1, <1>2, <2>3, EncodeRest
  <2>5. Writing("session")'
    BY <1>1, <1>2, <2>4 DEF Writing
  <2> QED
    BY <2>1, <2>2, <2>5, Peers
<1>9. ASSUME NEW c \in Connections PROVE Opened(c)' /\ Fresh(c)'
  <2>0. /\ Opened(c) /\ Fresh(c) /\ c \in Nat /\ c # 0
    BY <1>0, ConnectionsAre
  <2>1. CASE c = c0
    <3>1. \A x \in Ends : wire[c][x] = <<>>
      BY <1>2, <2>0, <2>1 DEF Fresh
    <3>2. buffer["session"] = <<>>
      BY <1>0, <1>1 DEF Buffered
    <3>3. Opened(c)'
      BY <1>0, <1>1, <1>7, <2>1 DEF Opened
    <3> QED
      BY <1>0, <1>1, <3>1, <3>2, <3>3 DEF Fresh
  <2>2. CASE c # c0
    <3>1. open'[c] = open[c] /\ (Queued(c)' <=> Queued(c)) /\ fd'["session"] # c
          /\ fd["session"] # c /\ (c > conns' => c > conns)
      BY <1>1, <1>2, <1>7, <2>0, <2>2
    <3>2. Opened(c)'
      BY <1>1, <2>0, <3>1 DEF Opened
    <3>3. Fresh(c)'
      BY <1>1, <2>0, <3>1 DEF Fresh
    <3> QED
      BY <3>2, <3>3
  <2> QED
    BY <2>1, <2>2
<1> QED
  BY <1>6, <1>8, <1>9 DEF Ordering

LEMMA EmptyDecodes == Decodes(<<>>) /\ Ended(<<>>)
PROOF
  BY DEF Decodes, Ended

LEMMA ConnectLines ==
    ASSUME Types, Ordering, Connect, \A c \in Connections, x \in Ends : Lines(c, x)
    PROVE  (\A c \in Connections, x \in Ends : Lines(c, x))'
PROOF
<1>0. /\ Numbered
      /\ \A x \in Ends : Buffered(x)
      /\ \A c \in Connections : Fresh(c)
      /\ "session" \in Ends /\ "daemon" \in Ends
      /\ Peer("session") = "daemon" /\ Peer("daemon") = "session"
  BY Peers DEF Ordering
<1> DEFINE c0 == conns + 1
<1>1. /\ c0 \in Connections /\ conns' = c0 /\ conns \in Nat
      /\ fd["session"] = 0 /\ fd'["session"] = c0 /\ fd'["daemon"] = fd["daemon"]
      /\ \A c \in Connections : open'[c] = IF c = c0 THEN Ends ELSE open[c]
      /\ sent["session"] + 1 \in 1 .. MaxSent /\ out'["daemon"] = out["daemon"]
      /\ \E size \in 1 .. MaxSize : out'["session"] = Encode(sent["session"] + 1, size)
      /\ UNCHANGED <<wire, buffer, ipc_error, sent>>
  BY ConnectEffect
<1>2. fd["daemon"] \in Nat /\ fd["daemon"] # c0 /\ c0 > conns /\ c0 # 0
  BY <1>0, <1>1, StateTypes DEF Numbered
<1> HIDE DEF c0
<1>3. wire[c0]["daemon"] = <<>> /\ wire[c0]["session"] = <<>> /\ buffer["session"] = <<>>
  BY <1>0, <1>1, <1>2 DEF Fresh, Buffered
<1>4. PICK size \in 1 .. MaxSize : out'["session"] = Encode(sent["session"] + 1, size)
  BY <1>1
<1>5. /\ out'["session"] \in Seq(Part) /\ Decodes(out'["session"]) /\ Ended(out'["session"])
  BY <1>1, <1>4, EncodeLine
<1>6. <<>> \in Seq(Part)
  BY EmptySeq
<1> SUFFICES ASSUME NEW c \in Connections, NEW x \in Ends, Peer(x) \in open'[c]
             PROVE  /\ Decodes(Stream(c, x)')
                    /\ fd'[x] = c => Ended(Stream(c, x)')
  BY DEF Lines
<1>7. CASE c = c0
  <2>1. CASE x = "session"
    <3>1. Read(c, x)' = <<>> /\ ToWrite(c, x)' = out'["session"]
      BY <1>0, <1>1, <1>2, <1>7, <2>1 DEF Read, ToWrite
    <3>2. wire'[c][x] = <<>>
      BY <1>1, <1>3, <1>7, <2>1
    <3>3. Stream(c, x)' = out'["session"]
      BY <1>5, <1>6, <3>1, <3>2, ConcatEmptySeq DEF Stream
    <3> QED
      BY <1>5, <3>3
  <2>2. CASE x = "daemon"
    <3>1. Read(c, x)' = <<>> /\ ToWrite(c, x)' = <<>>
      BY <1>0, <1>1, <1>2, <1>3, <1>7, <2>2 DEF Read, ToWrite
    <3>2. wire'[c][x] = <<>>
      BY <1>1, <1>3, <1>7, <2>2
    <3>3. Stream(c, x)' = <<>>
      BY <1>6, <3>1, <3>2, ConcatEmptySeq DEF Stream
    <3> QED
      BY <3>3, EmptyDecodes
  <2> QED
    BY <2>1, <2>2, Peers
<1>8. CASE c # c0
  <2>0. c # 0
    BY ConnectionsAre
  <2>1. Peer(x) \in open[c]
    BY <1>1, <1>8
  <2>2. Decodes(Stream(c, x)) /\ (fd[x] = c => Ended(Stream(c, x)))
    BY <2>1 DEF Lines
  <2>3. \A y \in Ends : (fd'[y] = c <=> fd[y] = c) /\ (fd[y] = c => y = "daemon")
    BY <1>0, <1>1, <1>8, <2>0, Peers
  <2>4. Read(c, x)' = Read(c, x)
    <3>1. fd'[Peer(x)] = c <=> fd[Peer(x)] = c
      BY <2>3, Peers
    <3> QED
      BY <1>1, <3>1 DEF Read
  <2>5. ToWrite(c, x)' = ToWrite(c, x)
    BY <1>1, <2>3 DEF ToWrite
  <2>6. Stream(c, x)' = Stream(c, x)
    BY <1>1, <2>4, <2>5 DEF Stream
  <2> QED
    BY <2>2, <2>3, <2>6
<1> QED
  BY <1>7, <1>8

LEMMA AcceptEffect ==
    ASSUME Types, Ordering, Accept
    PROVE  /\ Len(backlog) \in 1 .. 2 /\ backlog[1] \in Connections /\ Queued(backlog[1])
           /\ fd["daemon"] = 0 /\ fd'["daemon"] = backlog[1] /\ fd'["session"] = fd["session"]
           /\ Len(backlog') = Len(backlog) - 1
           /\ \A i \in 1 .. Len(backlog') : backlog'[i] = backlog[i + 1]
           /\ buffer["daemon"] = <<>> /\ buffer' = buffer /\ out["daemon"] = <<>>
           /\ batch["daemon"] = <<>>
           /\ UNCHANGED <<conns, open, wire, out, ipc_error, sent>>
PROOF
<1>0. /\ Numbered /\ "session" \in Ends /\ "daemon" \in Ends
      /\ \A x \in Ends : Buffered(x)
      /\ backlog \in Seq(Connections) /\ fd \in [Ends -> 0 .. MaxConns]
      /\ buffer \in [Ends -> Seq(Part)]
  BY Peers DEF Ordering, Types
<1>1. /\ fd["daemon"] = 0 /\ out["daemon"] = <<>> /\ batch["daemon"] = <<>> /\ backlog # <<>>
      /\ fd' = [fd EXCEPT !["daemon"] = Head(backlog)] /\ backlog' = Tail(backlog)
      /\ buffer' = [buffer EXCEPT !["daemon"] = <<>>]
      /\ UNCHANGED <<conns, open, wire, out, ipc_error, sent>>
  BY DEF Accept, AtRest
<1>2. /\ Len(backlog') = Len(backlog) - 1
      /\ \A i \in 1 .. Len(backlog') : backlog'[i] = backlog[i + 1]
  BY <1>0, <1>1, HeadTailProperties
<1>3. Len(backlog) \in 1 .. 2 /\ backlog[1] \in Connections
  <2>1. Len(backlog) \in Nat \ {0} /\ Len(backlog) =< 2
    BY <1>0, <1>1, EmptySeq DEF Numbered
  <2>2. 1 \in 1 .. Len(backlog) /\ Len(backlog) \in 1 .. 2
    <3> DEFINE n == Len(backlog)
    <3>1. n \in Nat /\ n # 0 /\ n =< 2
      BY <2>1
    <3> HIDE DEF n
    <3>2. 1 \in 1 .. n /\ n \in 1 .. 2
      BY <3>1
    <3> QED
      BY <3>2 DEF n
  <2> QED
    BY <1>0, <2>2, ElementOfSeq
<1>4. Head(backlog) = backlog[1]
  BY <1>0
<1>5. fd'["daemon"] = backlog[1] /\ fd'["session"] = fd["session"]
  <2>1. fd \in [Ends -> 0 .. MaxConns] /\ "session" \in Ends /\ "daemon" \in Ends
    BY <1>0
  <2>2. fd' = [fd EXCEPT !["daemon"] = backlog[1]]
    BY <1>1, <1>4
  <2> QED
    BY <2>1, <2>2
<1>6. buffer["daemon"] = <<>> /\ buffer' = buffer
  <2>1. buffer["daemon"] = <<>>
    BY <1>0, <1>1 DEF Buffered
  <2> QED
    BY <1>0, <1>1, <2>1
<1>7. Queued(backlog[1])
  BY <1>3 DEF Queued
<1> QED
  BY <1>1, <1>2, <1>3, <1>5, <1>6, <1>7

LEMMA AcceptTypes ==
    ASSUME Types, Ordering, Accept
    PROVE  Types'
PROOF
<1>1. /\ backlog # <<>> /\ backlog' = Tail(backlog)
      /\ fd' = [fd EXCEPT !["daemon"] = Head(backlog)]
      /\ UNCHANGED <<conns, open, wire, out, reading, batch, ipc_error, sent, delivered>>
  BY DEF Accept
<1>2. Head(backlog) \in Connections /\ backlog' \in Seq(Connections)
  BY <1>1, HeadTailProperties DEF Types
<1>3. fd' \in [Ends -> 0 .. MaxConns]
  <2>1. Head(backlog) \in 0 .. MaxConns
    BY <1>2, ConnectionsAre
  <2>2. fd \in [Ends -> 0 .. MaxConns]
    BY DEF Types
  <2> QED
    BY <1>1, <2>1, <2>2
<1>4. buffer' = buffer
  BY AcceptEffect
<1> QED
  BY <1>1, <1>2, <1>3, <1>4 DEF Types

LEMMA AcceptOrdering ==
    ASSUME Types, Ordering, Accept
    PROVE  Ordering'
PROOF
<1>0. /\ Numbered /\ \A x \in Ends : Writing(x) /\ Buffered(x)
      /\ \A c \in Connections : Opened(c) /\ Fresh(c)
      /\ "session" \in Ends /\ "daemon" \in Ends
  BY Peers DEF Ordering
<1> DEFINE c0 == backlog[1]
<1>1. /\ Len(backlog) \in 1 .. 2 /\ c0 \in Connections /\ Queued(c0)
      /\ fd["daemon"] = 0 /\ fd'["daemon"] = c0 /\ fd'["session"] = fd["session"]
      /\ Len(backlog') = Len(backlog) - 1
      /\ \A i \in 1 .. Len(backlog') : backlog'[i] = backlog[i + 1]
      /\ buffer["daemon"] = <<>> /\ buffer' = buffer /\ out["daemon"] = <<>>
      /\ UNCHANGED <<conns, open, wire, out, ipc_error, sent>>
  BY AcceptEffect
<1>2. /\ \A i \in 1 .. Len(backlog) : backlog[i] =< conns /\ backlog[i] \in Nat
      /\ \A i, j \in 1 .. Len(backlog) : i < j => backlog[i] < backlog[j]
      /\ fd["session"] \in {0, conns}
  BY <1>0, StateTypes, ConnectionsAre DEF Numbered
<1>3. 1 \in 1 .. Len(backlog) /\ \A i \in 1 .. Len(backlog') : i + 1 \in 1 .. Len(backlog)
  BY <1>1
<1>4. Numbered'
  <2>1. \A i \in 1 .. Len(backlog') : fd'["daemon"] < backlog'[i] /\ backlog'[i] =< conns
    <3> TAKE i \in 1 .. Len(backlog')
    <3>1. i + 1 \in 1 .. Len(backlog) /\ 1 < i + 1
      BY <1>1, <1>3
    <3>2. backlog[1] < backlog[i + 1] /\ backlog[i + 1] =< conns
      BY <1>2, <1>3, <3>1
    <3> QED
      BY <1>1, <3>2
  <2>2. ASSUME NEW i \in 1 .. Len(backlog'), NEW j \in 1 .. Len(backlog'), i < j
        PROVE  backlog'[i] < backlog'[j]
    <3>1. i + 1 \in 1 .. Len(backlog) /\ j + 1 \in 1 .. Len(backlog) /\ i + 1 < j + 1
      BY <1>3, <2>2
    <3> QED
      BY <1>1, <1>2, <3>1
  <2>3. fd'["daemon"] =< conns /\ Len(backlog') =< 2
    <3>1. backlog[1] =< conns
      BY <1>2, <1>3
    <3>2. fd'["daemon"] = backlog[1]
      BY <1>1
    <3>3. Len(backlog') =< 2
      BY <1>1
    <3> QED
      BY <3>1, <3>2, <3>3
  <2> QED
    BY <1>1, <1>2, <2>1, <2>2, <2>3 DEF Numbered
<1>5. \A c : Queued(c) <=> Queued(c)' \/ c = c0
  <2>1. ASSUME NEW c, Queued(c)' PROVE Queued(c)
    BY <1>1, <1>3, <2>1 DEF Queued
  <2>2. ASSUME NEW c, Queued(c), c # c0 PROVE Queued(c)'
    <3>1. PICK i \in 1 .. Len(backlog) : backlog[i] = c
      BY <2>2 DEF Queued
    <3>2. i # 1
      BY <2>2, <3>1
    <3>3. i - 1 \in 1 .. Len(backlog') /\ (i - 1) + 1 = i
      BY <1>1, <3>2
    <3> QED
      BY <1>1, <3>1, <3>3 DEF Queued
  <2> QED
    BY <1>1, <2>1, <2>2
<1> HIDE DEF c0
<1>7. c0 # 0 /\ \A c \in Connections : c # 0
  BY <1>1, ConnectionsAre
<1>8. \A x \in Ends : Writing(x)' /\ Buffered(x)'
  <2>1. Writing("session")' /\ Buffered("session")'
    BY <1>0, <1>1 DEF Writing, Buffered
  <2>2. Writing("daemon")' /\ Buffered("daemon")'
    BY <1>0, <1>1, <1>7 DEF Writing, Buffered
  <2> QED
    BY <2>1, <2>2, Peers
<1>9. ASSUME NEW c \in Connections PROVE Opened(c)' /\ Fresh(c)'
  <2>1. Opened(c) /\ Fresh(c)
    BY <1>0
  <2>2. (fd'["daemon"] = c \/ Queued(c)') <=> (fd["daemon"] = c \/ Queued(c))
    BY <1>1, <1>5, <1>7
  <2>3. Opened(c)'
    BY <1>1, <2>1, <2>2 DEF Opened
  <2>4. Queued(c)' => Queued(c)
    BY <1>5
  <2>5. Fresh(c)'
    BY <1>1, <2>1, <2>4 DEF Fresh
  <2> QED
    BY <2>3, <2>5
<1> QED
  BY <1>4, <1>8, <1>9 DEF Ordering

LEMMA AcceptLines ==
    ASSUME Types, Ordering, Accept, \A c \in Connections, x \in Ends : Lines(c, x)
    PROVE  (\A c \in Connections, x \in Ends : Lines(c, x))'
PROOF
<1>0. /\ \A c \in Connections : Fresh(c)
      /\ "session" \in Ends /\ "daemon" \in Ends
      /\ Peer("session") = "daemon" /\ Peer("daemon") = "session"
  BY Peers DEF Ordering
<1> DEFINE c0 == backlog[1]
<1>1. /\ c0 \in Connections /\ Queued(c0)
      /\ fd["daemon"] = 0 /\ fd'["daemon"] = c0 /\ fd'["session"] = fd["session"]
      /\ buffer["daemon"] = <<>> /\ buffer' = buffer /\ out["daemon"] = <<>>
      /\ UNCHANGED <<conns, open, wire, out, ipc_error, sent>>
  BY AcceptEffect
<1> HIDE DEF c0
<1>2. c0 # 0 /\ \A c \in Connections : c # 0
  BY <1>1, ConnectionsAre
<1> SUFFICES ASSUME NEW c \in Connections, NEW x \in Ends, Peer(x) \in open[c]
             PROVE  /\ Decodes(Stream(c, x)')
                    /\ fd'[x] = c => Ended(Stream(c, x)')
  BY <1>1 DEF Lines
<1>3. Decodes(Stream(c, x)) /\ (fd[x] = c => Ended(Stream(c, x)))
  BY DEF Lines
<1>4. Read(c, x)' = Read(c, x)
  BY <1>0, <1>1, <1>2, Peers DEF Read
<1>5. ToWrite(c, x)' = ToWrite(c, x)
  BY <1>0, <1>1, <1>2, Peers DEF ToWrite
<1>6. Stream(c, x)' = Stream(c, x)
  BY <1>1, <1>4, <1>5 DEF Stream
<1>7. ASSUME fd'[x] = c, fd[x] # c PROVE Ended(Stream(c, x))
  <2>1. x = "daemon" /\ c = c0
    BY <1>1, <1>7, Peers
  <2>2. wire[c][x] = <<>> /\ Read(c, x) = <<>> /\ ToWrite(c, x) = <<>>
    BY <1>0, <1>1, <1>2, <2>1 DEF Fresh, Read, ToWrite
  <2>3. Stream(c, x) = <<>>
    BY <2>2, ConcatEmptySeq, EmptySeq DEF Stream
  <2> QED
    BY <2>3, EmptyDecodes
<1> QED
  BY <1>3, <1>6, <1>7
-----------------------------------------------------------------------------
(* Sending.                                                                 *)

LEMMA SendEffect ==
    ASSUME Types, NEW e \in Ends, Send(e)
    PROVE  /\ fd[e] # 0 /\ out[e] = <<>> /\ sent[e] < MaxSent /\ sent[e] + 1 \in 1 .. MaxSent
           /\ \E size \in 1 .. MaxSize : out'[e] = Encode(sent[e] + 1, size)
           /\ out'[Peer(e)] = out[Peer(e)] /\ out' \in [Ends -> Seq(Part)]
           /\ UNCHANGED <<conns, fd, open, backlog, wire, reading, buffer, batch, ipc_error,
                          sent, delivered>>
PROOF
<1>1. /\ fd[e] # 0 /\ out[e] = <<>> /\ sent[e] < MaxSent
      /\ UNCHANGED <<conns, fd, open, backlog, wire, reading, buffer, batch, ipc_error,
                     sent, delivered>>
  BY DEF Send
<1>2. PICK size \in 1 .. MaxSize : out' = [out EXCEPT ![e] = Encode(sent[e] + 1, size)]
  BY DEF Send
<1>3. out \in [Ends -> Seq(Part)]
  BY DEF Types
<1>4. sent[e] + 1 \in 1 .. MaxSent
  BY <1>1, StateTypes, ConnectionsAre
<1>5. Encode(sent[e] + 1, size) \in Seq(Part)
  BY <1>4, EncodeLine
<1>6. /\ out'[e] = Encode(sent[e] + 1, size) /\ out'[Peer(e)] = out[Peer(e)]
      /\ out' \in [Ends -> Seq(Part)]
  BY <1>2, <1>3, <1>5, Peers
<1> QED
  BY <1>1, <1>4, <1>6

LEMMA SendInv ==
    ASSUME Types, Ordering, NEW e \in Ends, Send(e),
           \A c \in Connections, x \in Ends : Lines(c, x)
    PROVE  Types' /\ Ordering' /\ (\A c \in Connections, x \in Ends : Lines(c, x))'
PROOF
<1>0. /\ Numbered /\ \A x \in Ends : Writing(x) /\ Buffered(x)
      /\ \A c \in Connections : Opened(c) /\ Fresh(c)
  BY DEF Ordering
<1>1. /\ fd[e] # 0 /\ out[e] = <<>> /\ sent[e] < MaxSent /\ sent[e] + 1 \in 1 .. MaxSent
      /\ \E size \in 1 .. MaxSize : out'[e] = Encode(sent[e] + 1, size)
      /\ out'[Peer(e)] = out[Peer(e)] /\ out' \in [Ends -> Seq(Part)]
      /\ UNCHANGED <<conns, fd, open, backlog, wire, reading, buffer, batch, ipc_error,
                     sent, delivered>>
  BY SendEffect
<1>2. PICK size \in 1 .. MaxSize : out'[e] = Encode(sent[e] + 1, size)
  BY <1>1
<1>3. /\ out'[e] \in Seq(Part) /\ Decodes(out'[e]) /\ Ended(out'[e]) /\ out'[e] # <<>>
  BY <1>1, <1>2, EncodeLine
<1>4. Types'
  BY <1>1 DEF Types
<1>5. Ordering'
  <2>1. LineRest(out'[e], sent[e])
    BY <1>1, <1>2, StateTypes, EncodeRest
  <2>2. Writing(e)' /\ Buffered(e)'
    BY <1>0, <1>1, <2>1 DEF Writing, Buffered
  <2>3. Writing(Peer(e))' /\ Buffered(Peer(e))'
    BY <1>0, <1>1, Peers DEF Writing, Buffered
  <2>4. \A x \in Ends : Writing(x)' /\ Buffered(x)'
    BY <2>2, <2>3, Peers
  <2>5. Numbered'
    BY <1>0, <1>1 DEF Numbered
  <2>6. \A c : Queued(c)' <=> Queued(c)
    BY <1>1 DEF Queued
  <2>7. \A c \in Connections : Opened(c)' /\ Fresh(c)'
    BY <1>0, <1>1, <2>6 DEF Opened, Fresh
  <2> QED
    BY <2>4, <2>5, <2>7 DEF Ordering
<1>6. ASSUME NEW c \in Connections, NEW x \in Ends, Peer(x) \in open[c]
      PROVE  /\ Decodes(Stream(c, x)')
             /\ fd[x] = c => Ended(Stream(c, x)')
  <2>1. Decodes(Stream(c, x)) /\ (fd[x] = c => Ended(Stream(c, x)))
    BY <1>6 DEF Lines
  <2>2. Read(c, x)' = Read(c, x)
    BY <1>1 DEF Read
  <2>3. CASE x = e /\ fd[e] = c
    <3> DEFINE pre == Read(c, e) \o wire[c][e]
    <3>1. pre \in Seq(Part)
      BY StreamTypes
    <3>2. Stream(c, e) = pre
      BY <1>1, <2>3, <3>1, ConcatEmptySeq DEF Stream, ToWrite
    <3>3. Stream(c, e)' = pre \o out'[e]
      BY <1>1, <2>2, <2>3 DEF Stream, ToWrite
    <3>4. Decodes(pre) /\ Ended(pre)
      BY <2>1, <2>3, <3>2
    <3> HIDE DEF pre
    <3>5. Decodes(pre \o out'[e]) /\ Ended(pre \o out'[e])
      BY <1>3, <3>1, <3>4, DecodesJoin, EndedJoin
    <3> QED
      BY <2>3, <3>3, <3>5
  <2>4. CASE ~(x = e /\ fd[e] = c)
    <3>1. ToWrite(c, x)' = ToWrite(c, x)
      BY <1>1, <2>4, Peers DEF ToWrite
    <3>2. Stream(c, x)' = Stream(c, x)
      BY <1>1, <2>2, <3>1 DEF Stream
    <3> QED
      BY <2>1, <3>2
  <2> QED
    BY <2>3, <2>4
<1>7. (\A c \in Connections, x \in Ends : Lines(c, x))'
  BY <1>1, <1>6 DEF Lines
<1> QED
  BY <1>4, <1>5, <1>7

LEMMA WriteEffect ==
    ASSUME Types, Ordering, NEW e \in Ends, WritePiece(e)
    PROVE  /\ fd[e] \in Connections /\ Peer(e) \in open[fd[e]] /\ out[e] # <<>>
           /\ Len(wire[fd[e]][e]) < Capacity
           /\ \A c \in Connections, x \in Ends :
                wire'[c][x] = IF c = fd[e] /\ x = e THEN Append(wire[c][x], Head(out[e]))
                              ELSE wire[c][x]
           /\ wire' \in [Connections -> [Ends -> Seq(Part)]] /\ out' \in [Ends -> Seq(Part)]
           /\ out'[e] = Tail(out[e]) /\ out'[Peer(e)] = out[Peer(e)]
           /\ sent'[e] = (IF Len(out[e]) = 1 THEN sent[e] + 1 ELSE sent[e])
           /\ sent'[Peer(e)] = sent[Peer(e)] /\ sent' \in [Ends -> 0 .. MaxSent]
           /\ sent[e] + 1 \in 1 .. MaxSent
           /\ Head(out[e]) \in Part /\ Head(out[e]).number = sent[e] + 1
           /\ EndsLine(Head(out[e])) <=> Len(out[e]) = 1
           /\ UNCHANGED <<conns, fd, open, backlog, reading, buffer, batch, ipc_error, delivered>>
PROOF
<1>0. Writing(e) /\ \A x \in Ends : out[x] \in Seq(Part)
  BY StateTypes DEF Ordering
<1>1. /\ out[e] # <<>> /\ Room(e)
      /\ wire' = [wire EXCEPT ![fd[e]][e] = Append(@, Head(out[e]))]
      /\ out' = [out EXCEPT ![e] = Tail(@)]
      /\ sent' = [sent EXCEPT ![e] = IF Len(out[e]) = 1 THEN @ + 1 ELSE @]
      /\ UNCHANGED <<conns, fd, open, backlog, reading, buffer, batch, ipc_error, delivered>>
  BY DEF WritePiece
<1>2. fd[e] # 0 /\ sent[e] < MaxSent
  BY <1>0, <1>1 DEF Writing
<1>3. fd[e] \in Connections /\ sent[e] + 1 \in 1 .. MaxSent /\ sent[e] \in Nat
  BY <1>2, StateTypes, ConnectionsAre
<1>4. Peer(e) \in open[fd[e]] /\ Len(wire[fd[e]][e]) < Capacity
  BY <1>1 DEF Room
<1>5. Head(out[e]) \in Part /\ Tail(out[e]) \in Seq(Part) /\ Head(out[e]) = out[e][1]
  BY <1>0, <1>1, HeadTailProperties
<1>6. out' \in [Ends -> Seq(Part)] /\ out'[e] = Tail(out[e]) /\ out'[Peer(e)] = out[Peer(e)]
  <2>1. out \in [Ends -> Seq(Part)]
    BY DEF Types
  <2> QED
    BY <1>1, <1>5, <2>1, Peers
<1>7. /\ sent'[e] = (IF Len(out[e]) = 1 THEN sent[e] + 1 ELSE sent[e])
      /\ sent'[Peer(e)] = sent[Peer(e)] /\ sent' \in [Ends -> 0 .. MaxSent]
  <2>1. sent \in [Ends -> 0 .. MaxSent] /\ sent[e] + 1 \in 0 .. MaxSent
    BY <1>3 DEF Types
  <2> QED
    BY <1>1, <2>1, Peers
<1>8. /\ wire' \in [Connections -> [Ends -> Seq(Part)]]
      /\ \A c \in Connections, x \in Ends :
           wire'[c][x] = IF c = fd[e] /\ x = e THEN Append(wire[c][x], Head(out[e]))
                         ELSE wire[c][x]
  <2>1. wire \in [Connections -> [Ends -> Seq(Part)]]
    BY DEF Types
  <2>2. Append(wire[fd[e]][e], Head(out[e])) \in Seq(Part)
    BY <1>3, <1>5, StateTypes, AppendProperties
  <2> QED
    BY <1>1, <1>3, <2>1, <2>2
<1>9. Head(out[e]).number = sent[e] + 1 /\ (EndsLine(Head(out[e])) <=> Len(out[e]) = 1)
  <2>1. Len(out[e]) \in Nat \ {0}
    BY <1>0, <1>1, EmptySeq
  <2>2. 1 \in 1 .. Len(out[e])
    BY <2>1
  <2>3. out[e][1].number = sent[e] + 1 /\ (EndsLine(out[e][1]) <=> 1 = Len(out[e]))
    BY <1>0, <2>2 DEF Writing, LineRest
  <2> QED
    BY <1>5, <2>3
<1> QED
  BY <1>1, <1>3, <1>4, <1>5, <1>6, <1>7, <1>8, <1>9

\* Concatenation may be grouped either way.
Associative(s, t, u) == (s \o t) \o u = s \o (t \o u)

LEMMA Associates ==
    \A s, t, u \in Seq(Part) : Associative(s, t, u)
PROOF
  BY ConcatAssociative DEF Associative

\* Bytes that were split in one place are split in another.
Regrouped(b, v, w, k, r, o) ==
    /\ (b \o (v \o w)) \o o = k \o ((r \o w) \o o)
    /\ r \o w \in Seq(Part) /\ (r \o w) \o o \in Seq(Part)

LEMMA Regroup ==
    ASSUME NEW b \in Seq(Part), NEW v \in Seq(Part), NEW w \in Seq(Part),
           NEW k \in Seq(Part), NEW r \in Seq(Part), NEW o \in Seq(Part), b \o v = k \o r
    PROVE  Regrouped(b, v, w, k, r, o)
PROOF
<1>1. r \o w \in Seq(Part)
  BY ConcatProperties
<1>2. (r \o w) \o o \in Seq(Part)
  BY <1>1, ConcatProperties
<1>3. Associative(b, v, w)
  BY Associates
<1>4. Associative(k, r, w)
  BY Associates
<1>5. Associative(k, r \o w, o)
  BY <1>1, Associates
<1> QED
  BY <1>1, <1>2, <1>3, <1>4, <1>5, Zenon DEF Associative, Regrouped

\* A piece moves from the writer to the wire.
LEMMA MovePiece ==
    ASSUME NEW r \in Seq(Part), NEW w \in Seq(Part), NEW o \in Seq(Part), o # <<>>
    PROVE  (r \o Append(w, Head(o))) \o Tail(o) = (r \o w) \o o
PROOF
<1> DEFINE h == <<Head(o)>>
           t == Tail(o)
<1>1. Head(o) \in Part /\ t \in Seq(Part) /\ h \in Seq(Part)
  BY HeadTailProperties
<1>2. o = h \o t
  OBVIOUS
<1>3. Append(w, Head(o)) = w \o h
  BY <1>1, AppendIsConcat
<1> HIDE DEF h, t
<1>4. Associative(r, w, h)
  BY <1>1, Associates
<1>5. r \o w \in Seq(Part)
  BY ConcatProperties
<1>6. Associative(r \o w, h, t)
  BY <1>1, <1>5, Associates
<1>7. (r \o Append(w, Head(o))) \o t = (r \o w) \o o
  BY <1>2, <1>3, <1>4, <1>6, Zenon DEF Associative
<1> QED
  BY <1>7 DEF t

LEMMA WriteInv ==
    ASSUME Types, Ordering, NEW e \in Ends, WritePiece(e),
           \A c \in Connections, x \in Ends : Lines(c, x)
    PROVE  Types' /\ Ordering' /\ (\A c \in Connections, x \in Ends : Lines(c, x))'
PROOF
<1>0. /\ Numbered /\ \A x \in Ends : Writing(x) /\ Buffered(x)
      /\ \A c \in Connections : Opened(c) /\ Fresh(c)
  BY DEF Ordering
<1> DEFINE c0 == fd[e]
<1>1. /\ c0 \in Connections /\ Peer(e) \in open[c0] /\ out[e] # <<>>
      /\ Len(wire[c0][e]) < Capacity
      /\ \A c \in Connections, x \in Ends :
           wire'[c][x] = IF c = c0 /\ x = e THEN Append(wire[c][x], Head(out[e]))
                         ELSE wire[c][x]
      /\ wire' \in [Connections -> [Ends -> Seq(Part)]] /\ out' \in [Ends -> Seq(Part)]
      /\ out'[e] = Tail(out[e]) /\ out'[Peer(e)] = out[Peer(e)]
      /\ sent'[e] = (IF Len(out[e]) = 1 THEN sent[e] + 1 ELSE sent[e])
      /\ sent'[Peer(e)] = sent[Peer(e)] /\ sent' \in [Ends -> 0 .. MaxSent]
      /\ Head(out[e]) \in Part
      /\ UNCHANGED <<conns, fd, open, backlog, reading, buffer, batch, ipc_error, delivered>>
  BY WriteEffect
<1>2. /\ out[e] \in Seq(Part) /\ wire[c0][e] \in Seq(Part) /\ sent[e] \in Nat
      /\ Len(out[e]) \in Nat /\ Len(wire[c0][e]) \in Nat /\ c0 # 0
  <2>1. out[e] \in Seq(Part) /\ wire[c0][e] \in Seq(Part) /\ sent[e] \in Nat
    BY <1>1, StateTypes
  <2>2. Len(out[e]) \in Nat /\ Len(wire[c0][e]) \in Nat
    BY <2>1, Elements
  <2>3. c0 # 0
    BY <1>1, ConnectionsAre
  <2> QED
    BY <2>1, <2>2, <2>3
<1>3. Types'
  <2>1. \A c \in Connections, x \in Ends : Len(wire'[c][x]) =< Capacity
    <3> SUFFICES ASSUME NEW c \in Connections, NEW x \in Ends
                 PROVE  Len(wire'[c][x]) =< Capacity
      OBVIOUS
    <3>1. CASE c = c0 /\ x = e
      <4>1. wire'[c][x] = Append(wire[c0][e], Head(out[e]))
        BY <1>1, <3>1
      <4>2. Len(wire'[c][x]) = Len(wire[c0][e]) + 1
        BY <1>1, <1>2, <4>1, AppendProperties
      <4>3. Len(wire[c0][e]) < Capacity /\ Len(wire[c0][e]) \in Nat /\ Capacity \in Nat
        BY <1>1, <1>2, ConnectionsAre
      <4> QED
        BY <4>2, <4>3
    <3>2. CASE ~(c = c0 /\ x = e)
      <4>1. wire'[c][x] = wire[c][x]
        BY <1>1, <3>2
      <4> QED
        BY <4>1 DEF Types
    <3> QED
      BY <3>1, <3>2
  <2> QED
    BY <1>1, <2>1 DEF Types
<1>4. Writing(e)'
  <2>1. /\ Len(Tail(out[e])) = Len(out[e]) - 1
        /\ \A i \in 1 .. Len(Tail(out[e])) : Tail(out[e])[i] = out[e][i + 1]
    BY <1>1, <1>2, HeadTailProperties
  <2>2. /\ out[e] # <<>> => c0 # 0 /\ sent[e] < MaxSent
        /\ \A i \in 1 .. Len(out[e]) : /\ out[e][i].number = sent[e] + 1
                                       /\ EndsLine(out[e][i]) <=> i = Len(out[e])
    BY <1>0 DEF Writing, LineRest
  <2>3. CASE Len(out[e]) = 1
    <3>1. Len(out'[e]) = 0 /\ out'[e] = <<>>
      <4>1. Len(out'[e]) = 0
        BY <1>1, <2>1, <2>3
      <4>2. out'[e] \in Seq(Part)
        BY <1>1
      <4> QED
        BY <4>1, <4>2, EmptySeq
    <3> QED
      BY <3>1 DEF Writing, LineRest
  <2>4. CASE Len(out[e]) # 1
    <3>1. sent'[e] = sent[e]
      BY <1>1, <2>4
    <3>2. ASSUME NEW i \in 1 .. Len(out'[e])
          PROVE  /\ out'[e][i].number = sent[e] + 1
                 /\ EndsLine(out'[e][i]) <=> i = Len(out'[e])
      <4>1. i + 1 \in 1 .. Len(out[e]) /\ (i = Len(out'[e]) <=> i + 1 = Len(out[e]))
        BY <1>1, <1>2, <2>1
      <4>2. out'[e][i] = out[e][i + 1]
        BY <1>1, <2>1
      <4> QED
        BY <2>2, <4>1, <4>2
    <3>3. LineRest(out'[e], sent'[e])
      BY <3>1, <3>2 DEF LineRest
    <3> QED
      BY <1>1, <1>2, <2>2, <3>1, <3>3 DEF Writing
  <2> QED
    BY <2>3, <2>4
<1>5. Ordering'
  <2>1. Writing(Peer(e))' /\ Buffered(Peer(e))' /\ Buffered(e)'
    BY <1>0, <1>1, Peers DEF Writing, Buffered
  <2>2. \A x \in Ends : Writing(x)' /\ Buffered(x)'
    BY <1>4, <2>1, Peers
  <2>3. Numbered'
    BY <1>0, <1>1 DEF Numbered
  <2>4. \A c : Queued(c)' <=> Queued(c)
    BY <1>1 DEF Queued
  <2>5. \A c \in Connections : Opened(c)'
    BY <1>0, <1>1, <2>4 DEF Opened
  <2>6. c0 =< conns /\ (e = "daemon" => ~Queued(c0))
    <3>1. \A i \in 1 .. Len(backlog) : backlog[i] \in Nat
      BY StateTypes, ConnectionsAre
    <3>2. fd["daemon"] \in Nat /\ ~Queued(fd["daemon"])
      BY <1>0, <3>1, StateTypes, Peers DEF Numbered, Queued
    <3>3. c0 =< conns
      <4>1. conns \in Nat
        BY DEF Types
      <4>2. fd["session"] \in {0, conns} /\ fd["daemon"] =< conns
        BY <1>0 DEF Numbered
      <4> QED
        BY <4>1, <4>2, Peers
    <3> QED
      BY <3>2, <3>3
  <2>7. \A c \in Connections : Fresh(c)'
    <3> SUFFICES ASSUME NEW c \in Connections PROVE Fresh(c)'
      OBVIOUS
    <3>1. Fresh(c) /\ c \in Nat /\ conns \in Nat /\ c0 \in Nat
      BY <1>0, <1>1, ConnectionsAre DEF Types
    <3>2. c > conns => \A x \in Ends : wire'[c][x] = <<>>
      <4> SUFFICES ASSUME c > conns, NEW x \in Ends PROVE wire'[c][x] = <<>>
        OBVIOUS
      <4>1. c # c0
        BY <2>6, <3>1
      <4>2. wire'[c][x] = wire[c][x]
        BY <1>1, <4>1
      <4> QED
        BY <3>1, <4>2 DEF Fresh
    <3>3. Queued(c) => wire'[c]["daemon"] = <<>>
      <4> SUFFICES ASSUME Queued(c) PROVE wire'[c]["daemon"] = <<>>
        OBVIOUS
      <4>1. ~(c = c0 /\ "daemon" = e)
        BY <2>6
      <4>2. wire'[c]["daemon"] = wire[c]["daemon"]
        BY <1>1, <4>1, Peers
      <4> QED
        BY <3>1, <4>2 DEF Fresh
    <3> QED
      BY <1>1, <2>4, <3>1, <3>2, <3>3 DEF Fresh
  <2> QED
    BY <2>2, <2>3, <2>5, <2>7 DEF Ordering
<1>6. ASSUME NEW c \in Connections, NEW x \in Ends
      PROVE  Stream(c, x)' = Stream(c, x)
  <2>1. Read(c, x)' = Read(c, x)
    BY <1>1 DEF Read
  <2>2. CASE x = e /\ c = c0
    <3>1. Read(c, e) \in Seq(Part)
      BY StreamTypes
    <3>2. Stream(c, e) = (Read(c, e) \o wire[c][e]) \o out[e]
      BY <2>2 DEF Stream, ToWrite
    <3>3. Stream(c, e)' = (Read(c, e) \o Append(wire[c][e], Head(out[e]))) \o Tail(out[e])
      BY <1>1, <2>1, <2>2 DEF Stream, ToWrite
    <3>4. wire[c][e] \in Seq(Part)
      BY StateTypes
    <3> QED
      BY <1>1, <1>2, <2>2, <3>1, <3>2, <3>3, <3>4, MovePiece
  <2>3. CASE ~(x = e /\ c = c0)
    <3>1. wire'[c][x] = wire[c][x]
      BY <1>1, <2>3
    <3>2. ToWrite(c, x)' = ToWrite(c, x)
      BY <1>1, <2>3, Peers DEF ToWrite
    <3> QED
      BY <2>1, <3>1, <3>2 DEF Stream
  <2> QED
    BY <2>2, <2>3
<1>7. (\A c \in Connections, x \in Ends : Lines(c, x))'
  BY <1>1, <1>6 DEF Lines
<1> QED
  BY <1>3, <1>5, <1>7
-----------------------------------------------------------------------------
(* Receiving.                                                               *)

\* A recv by e that takes w1 from its connection and leaves w2.
Receives(e, w1, w2) ==
    /\ fd[e] \in Connections
    /\ wire[fd[e]][Peer(e)] = w1 \o w2 /\ Len(w2) =< Len(wire[fd[e]][Peer(e)])
    /\ buffer[e] \o w1 \in Seq(Part)
    /\ wire' \in [Connections -> [Ends -> Seq(Part)]]
    /\ \A c \in Connections, x \in Ends :
         wire'[c][x] = IF c = fd[e] /\ x = Peer(e) THEN w2 ELSE wire[c][x]
    /\ buffer' \in [Ends -> Seq(Part)]
    /\ buffer'[e] = Rest(buffer[e] \o w1) /\ buffer'[Peer(e)] = buffer[Peer(e)]
    /\ batch' \in [Ends -> Seq(1 .. MaxSent)]
    /\ batch'[e] = batch[e] \o Decoded(Complete(buffer[e] \o w1))
    /\ batch'[Peer(e)] = batch[Peer(e)]
    /\ ipc_error' = (ipc_error \/ ~Decodes(Complete(buffer[e] \o w1)))
    /\ reading' \in [Ends -> BOOLEAN]
    /\ UNCHANGED <<conns, fd, open, backlog, out, sent, delivered>>

LEMMA RecvEffect ==
    ASSUME Types, NEW e \in Ends, Recv(e)
    PROVE  \E w1, w2 \in Seq(Part) : Receives(e, w1, w2)
PROOF
<1> DEFINE w == wire[fd[e]][Peer(e)]
           n == Min({Chunk, Len(w)})
           w1 == SubSeq(w, 1, n)
           w2 == SubSeq(w, n + 1, Len(w))
           bytes == buffer[e] \o w1
<1>1. /\ fd[e] # 0
      /\ wire' = [wire EXCEPT ![fd[e]][Peer(e)] = SubSeq(@, n + 1, Len(@))]
      /\ buffer' = [buffer EXCEPT ![e] = Rest(bytes)]
      /\ batch' = [batch EXCEPT ![e] = @ \o Decoded(Complete(bytes))]
      /\ ipc_error' = (ipc_error \/ ~Decodes(Complete(bytes)))
      /\ reading' = [reading EXCEPT ![e] = TRUE]
      /\ UNCHANGED <<conns, fd, open, backlog, out, sent, delivered>>
  BY DEF Recv, MayRead, Incoming
<1>2. /\ fd[e] \in Connections /\ Peer(e) \in Ends /\ Peer(e) # e
      /\ buffer[e] \in Seq(Part) /\ batch[e] \in Seq(1 .. MaxSent)
  BY <1>1, StateTypes, Peers
<1>3. w \in Seq(Part) /\ Len(w) \in Nat
  BY <1>2, StateTypes, Elements
<1>4. n \in 0 .. Len(w)
  <2>1. Chunk \in Nat
    BY ConnectionsAre
  <2>2. \E x \in {Chunk, Len(w)} : \A y \in {Chunk, Len(w)} : x =< y
    BY <1>3, <2>1
  <2>3. n \in {Chunk, Len(w)} /\ \A y \in {Chunk, Len(w)} : n =< y
    BY <2>2 DEF Min
  <2> HIDE DEF n, w
  <2> QED
    BY <1>3, <2>1, <2>3
<1>5. w1 \in Seq(Part) /\ w2 \in Seq(Part) /\ w1 \o w2 = w /\ Len(w2) = Len(w) - n
  <2> HIDE DEF n, w
  <2> QED
    BY <1>3, <1>4, Cut
<1>6. Len(w2) =< Len(w)
  <2>1. Len(w2) = Len(w) - n
    BY <1>5
  <2> HIDE DEF n, w, w2
  <2> QED
    BY <1>3, <1>4, <2>1
<1>7. wire' = [wire EXCEPT ![fd[e]][Peer(e)] = w2]
  BY <1>1
<1> HIDE DEF n, w1, w2
<1>8. bytes \in Seq(Part)
  BY <1>2, <1>5, ConcatProperties
<1> HIDE DEF bytes
<1>9. Rest(bytes) \in Seq(Part) /\ Decoded(Complete(bytes)) \in Seq(1 .. MaxSent)
  BY <1>8, Split, DecodedType
<1>10. /\ wire' \in [Connections -> [Ends -> Seq(Part)]]
       /\ \A c \in Connections, x \in Ends :
            wire'[c][x] = IF c = fd[e] /\ x = Peer(e) THEN w2 ELSE wire[c][x]
  <2>1. wire \in [Connections -> [Ends -> Seq(Part)]]
    BY DEF Types
  <2> QED
    BY <1>2, <1>5, <1>7, <2>1
<1>11. /\ buffer' \in [Ends -> Seq(Part)]
       /\ buffer'[e] = Rest(bytes) /\ buffer'[Peer(e)] = buffer[Peer(e)]
  <2>1. buffer \in [Ends -> Seq(Part)]
    BY DEF Types
  <2> QED
    BY <1>1, <1>2, <1>9, <2>1
<1>12. /\ batch' \in [Ends -> Seq(1 .. MaxSent)]
       /\ batch'[e] = batch[e] \o Decoded(Complete(bytes))
       /\ batch'[Peer(e)] = batch[Peer(e)]
  <2>1. batch \in [Ends -> Seq(1 .. MaxSent)]
    BY DEF Types
  <2>2. batch[e] \o Decoded(Complete(bytes)) \in Seq(1 .. MaxSent)
    BY <1>2, <1>9, ConcatProperties
  <2> QED
    BY <1>1, <1>2, <2>1, <2>2
<1>13. reading' \in [Ends -> BOOLEAN]
  BY <1>1 DEF Types
<1>14. /\ w1 \in Seq(Part) /\ w2 \in Seq(Part)
       /\ fd[e] \in Connections /\ w = w1 \o w2 /\ Len(w2) =< Len(w)
       /\ ipc_error' = (ipc_error \/ ~Decodes(Complete(bytes)))
       /\ UNCHANGED <<conns, fd, open, backlog, out, sent, delivered>>
  BY <1>1, <1>2, <1>5, <1>6
<1>15. Receives(e, w1, w2)
  BY <1>8, <1>10, <1>11, <1>12, <1>13, <1>14, Zenon DEF Receives, bytes, w
<1> QED
  BY <1>14, <1>15

LEMMA RecvInv ==
    ASSUME LineInv, NEW e \in Ends, Recv(e)
    PROVE  LineInv'
PROOF
<1>0. /\ Types /\ Ordering /\ Numbered /\ ~ipc_error
      /\ \A x \in Ends : Writing(x) /\ Buffered(x)
      /\ \A c \in Connections : Opened(c) /\ Fresh(c)
      /\ \A c \in Connections, x \in Ends : Lines(c, x)
      /\ Peer(e) \in Ends /\ Peer(e) # e /\ Peer(Peer(e)) = e
  BY Peers DEF LineInv, Ordering, NoGarble
<1> DEFINE c0 == fd[e]
           p == Peer(e)
           w == wire[c0][p]
<1>a. PICK w1 \in Seq(Part), w2 \in Seq(Part) : Receives(e, w1, w2)
  BY <1>0, RecvEffect
<1>1. /\ c0 \in Connections /\ w = w1 \o w2 /\ Len(w2) =< Len(w)
      /\ buffer[e] \o w1 \in Seq(Part)
      /\ wire' \in [Connections -> [Ends -> Seq(Part)]]
      /\ \A c \in Connections, x \in Ends :
           wire'[c][x] = IF c = c0 /\ x = p THEN w2 ELSE wire[c][x]
      /\ buffer' \in [Ends -> Seq(Part)]
      /\ buffer'[e] = Rest(buffer[e] \o w1) /\ buffer'[p] = buffer[p]
      /\ batch' \in [Ends -> Seq(1 .. MaxSent)]
      /\ ipc_error' = (ipc_error \/ ~Decodes(Complete(buffer[e] \o w1)))
      /\ reading' \in [Ends -> BOOLEAN]
      /\ UNCHANGED <<conns, fd, open, backlog, out, sent, delivered>>
  BY <1>a DEF Receives
<1> DEFINE bytes == buffer[e] \o w1
           k == Complete(bytes)
           r == Rest(bytes)
           o == ToWrite(c0, p)
<1>2. /\ buffer[e] \in Seq(Part) /\ o \in Seq(Part) /\ c0 # 0
  <2>1. buffer[e] \in Seq(Part)
    BY <1>0, StateTypes
  <2>2. o \in Seq(Part)
    BY <1>0, <1>1, StreamTypes
  <2>3. c0 # 0
    BY <1>1, ConnectionsAre
  <2> QED
    BY <2>1, <2>2, <2>3
<1>3. /\ k \in Seq(Part) /\ r \in Seq(Part) /\ k \o r = bytes /\ Ended(k) /\ NoNewline(r)
  BY <1>1, Split
<1>4. /\ (buffer[e] \o w) \o o = k \o ((r \o w2) \o o)
      /\ r \o w2 \in Seq(Part) /\ (r \o w2) \o o \in Seq(Part)
  <2> DEFINE b == buffer[e]
  <2>1. b \in Seq(Part) /\ b \o w1 = k \o r /\ w = w1 \o w2
    BY <1>1, <1>2, <1>3
  <2>2. k \in Seq(Part) /\ r \in Seq(Part) /\ o \in Seq(Part)
    BY <1>2, <1>3
  <2>3. buffer[e] = b
    OBVIOUS
  <2> HIDE DEF o, k, r, b, w
  <2>4. b \o w1 = k \o r
    BY <2>1
  <2>5. w1 \in Seq(Part) /\ w2 \in Seq(Part)
    OBVIOUS
  <2>6. Regrouped(b, w1, w2, k, r, o)
    BY <2>1, <2>2, <2>4, <2>5, Regroup
  <2> QED
    BY <2>1, <2>3, <2>6, Zenon DEF Regrouped
<1>5. Read(c0, p) = buffer[e] /\ Read(c0, p)' = r
  BY <1>0, <1>1 DEF Read
<1>6. ToWrite(c0, p)' = o
  BY <1>1 DEF ToWrite
<1>7. Stream(c0, p) = k \o Stream(c0, p)' /\ Stream(c0, p)' = (r \o w2) \o o
  <2>1. Stream(c0, p) = (buffer[e] \o w) \o o
    BY <1>5 DEF Stream
  <2>2. Stream(c0, p)' = (r \o w2) \o o
    <3>1. wire'[c0][p] = w2
      BY <1>0, <1>1
    <3>2. fd' = fd /\ c0' = c0
      BY <1>1
    <3> QED
      BY <1>5, <1>6, <3>1, <3>2 DEF Stream
  <2> QED
    BY <1>4, <2>1, <2>2
<1>8. e \in open[c0]
  <2>1. Opened(c0)
    BY <1>0, <1>1
  <2> QED
    BY <2>1, Peers DEF Opened
<1>9. Decodes(Stream(c0, p)) /\ (fd[p] = c0 => Ended(Stream(c0, p)))
  <2>1. Lines(c0, p) /\ Peer(p) = e
    BY <1>0, <1>1
  <2> QED
    BY <1>8, <2>1 DEF Lines
<1>10. Decodes(k)
  <2>1. Decodes(k \o ((r \o w2) \o o))
    BY <1>7, <1>9
  <2> HIDE DEF k, r, o
  <2> QED
    BY <1>3, <1>4, <2>1, DecodesPrefix
<1>11. Decodes(Stream(c0, p)') /\ (fd[p] = c0 => Ended(Stream(c0, p)'))
  <2> DEFINE t == (r \o w2) \o o
  <2>1. Decodes(k \o t) /\ (fd[p] = c0 => Ended(k \o t)) /\ t \in Seq(Part)
        /\ Stream(c0, p)' = t
    BY <1>4, <1>7, <1>9
  <2> HIDE DEF k, t
  <2>2. Decodes(t)
    BY <1>3, <2>1, DecodesSuffix
  <2>3. fd[p] = c0 => Ended(t)
    BY <1>3, <2>1, EndedSuffix
  <2> QED
    BY <2>1, <2>2, <2>3
<1>12. NoGarble'
  BY <1>0, <1>1, <1>10 DEF NoGarble
<1>13. Types'
  <2>1. \A c \in Connections, x \in Ends : Len(wire'[c][x]) =< Capacity
    <3> SUFFICES ASSUME NEW c \in Connections, NEW x \in Ends
                 PROVE  Len(wire'[c][x]) =< Capacity
      OBVIOUS
    <3>1. Len(wire[c][x]) =< Capacity
      BY <1>0 DEF Types
    <3>2. CASE c = c0 /\ x = p
      <4>1. wire'[c][x] = w2 /\ Len(w2) =< Len(wire[c][x])
        BY <1>1, <3>2
      <4>2. Len(w2) \in Nat /\ Len(wire[c][x]) \in Nat /\ Capacity \in Nat
        <5>1. wire[c][x] \in Seq(Part)
          BY <1>0, StateTypes
        <5> QED
          BY <5>1, Elements, ConnectionsAre
      <4> QED
        BY <3>1, <4>1, <4>2
    <3>3. CASE ~(c = c0 /\ x = p)
      BY <1>1, <3>1, <3>3
    <3> QED
      BY <3>2, <3>3
  <2>2. ipc_error' \in BOOLEAN
    BY <1>1
  <2> QED
    BY <1>0, <1>1, <2>1, <2>2 DEF Types
<1>14. Ordering'
  <2>1. Writing(e)' /\ Writing(p)' /\ Buffered(p)'
    BY <1>0, <1>1 DEF Writing, Buffered
  <2>2. Buffered(e)'
    BY <1>1, <1>2, <1>3 DEF Buffered
  <2>3. \A x \in Ends : Writing(x)' /\ Buffered(x)'
    BY <2>1, <2>2, Peers
  <2>4. Numbered'
    BY <1>0, <1>1 DEF Numbered
  <2>5. \A c : Queued(c)' <=> Queued(c)
    BY <1>1 DEF Queued
  <2>6. \A c \in Connections : Opened(c)'
    BY <1>0, <1>1, <2>5 DEF Opened
  <2>7. \A c \in Connections : Fresh(c)'
    <3> SUFFICES ASSUME NEW c \in Connections PROVE Fresh(c)'
      OBVIOUS
    <3>1. Fresh(c)
      BY <1>0
    <3>2. w = <<>> => w2 = <<>>
      <4>1. w1 \o w2 = <<>> => w2 = <<>>
        BY ConcatEqualIffEmpty
      <4> QED
        BY <1>1, <4>1
    <3>3. \A x \in Ends : wire[c][x] = <<>> => wire'[c][x] = <<>>
      BY <1>1, <3>2
    <3>4. c > conns => \A x \in Ends : wire'[c][x] = <<>>
      BY <3>1, <3>3 DEF Fresh
    <3>5. Queued(c) => wire'[c]["daemon"] = <<>>
      BY <3>1, <3>3, Peers DEF Fresh
    <3>6. ASSUME Queued(c), fd["session"] = c PROVE buffer'["session"] = <<>>
      <4>1. buffer["session"] = <<>> /\ wire[c]["daemon"] = <<>>
        BY <3>1, <3>6 DEF Fresh
      <4>2. CASE e = "session"
        <5>1. w = <<>>
          BY <3>6, <4>1, <4>2, Peers
        <5>2. w1 = <<>>
          <6>1. w1 \o w2 = <<>>
            BY <1>1, <5>1
          <6> QED
            BY <6>1, ConcatEqualIffEmpty
        <5>3. bytes = <<>>
          BY <4>1, <4>2, <5>2, ConcatEmptySeq, EmptySeq
        <5>4. r = <<>>
          <6>1. k \o r = <<>>
            BY <1>3, <5>3
          <6> HIDE DEF k, r
          <6> QED
            BY <1>3, <6>1, ConcatEqualIffEmpty
        <5> QED
          BY <1>1, <4>2, <5>4
      <4>3. CASE e = "daemon"
        BY <1>1, <4>1, <4>3, Peers
      <4> QED
        BY <4>2, <4>3, Peers
    <3> QED
      BY <1>1, <2>5, <3>4, <3>5, <3>6 DEF Fresh
  <2> QED
    BY <2>3, <2>4, <2>6, <2>7 DEF Ordering
<1>15. ASSUME NEW c \in Connections, NEW x \in Ends PROVE Lines(c, x)'
  <2>1. CASE c = c0 /\ x = p
    <3>1. Lines(c, x)' <=> (Peer(x) \in open[c] => /\ Decodes(Stream(c, x)')
                                                  /\ (fd[x] = c => Ended(Stream(c, x)')))
      BY <1>1 DEF Lines
    <3>2. Stream(c, x)' = Stream(c0, p)'
      <4>1. fd' = fd
        BY <1>1
      <4> QED
        BY <2>1, <4>1 DEF Stream, Read, ToWrite
    <3> QED
      BY <1>11, <2>1, <3>1, <3>2
  <2>2. CASE ~(c = c0 /\ x = p)
    <3>1. wire'[c][x] = wire[c][x]
      BY <1>1, <2>2
    <3>2. Read(c, x)' = Read(c, x)
      <4>1. CASE x = p
        <5>1. Peer(x) = e /\ fd[e] # c /\ fd'[e] # c
          BY <1>0, <1>1, <2>2, <4>1
        <5> QED
          BY <5>1 DEF Read
      <4>2. CASE x = e
        BY <1>1, <4>2 DEF Read
      <4> QED
        BY <4>1, <4>2, Peers
    <3>3. ToWrite(c, x)' = ToWrite(c, x)
      BY <1>1 DEF ToWrite
    <3>4. Stream(c, x)' = Stream(c, x)
      BY <3>1, <3>2, <3>3 DEF Stream
    <3>5. Lines(c, x)
      BY <1>0
    <3> QED
      BY <1>1, <3>4, <3>5 DEF Lines
  <2> QED
    BY <2>1, <2>2
<1> QED
  BY <1>12, <1>13, <1>14, <1>15 DEF LineInv
-----------------------------------------------------------------------------
(* The steps that move no pieces, and the theorems.                         *)

\* A message handled or dropped, a recv that would block, an idle pass.
LEMMA QuietInv ==
    ASSUME LineInv, NEW e \in Ends,
           SendRefused(e) \/ WouldBlock(e) \/ Handle(e) \/ UNCHANGED vars
    PROVE  LineInv'
PROOF
<1>0. Types /\ Peer(e) \in Ends
  BY Peers DEF LineInv
<1>1. UNCHANGED lineVars
  BY DEF SendRefused, WouldBlock, Handle, vars, lineVars
<1>2. batch[e] \in Seq(1 .. MaxSent) /\ <<>> \in Seq(1 .. MaxSent)
  BY <1>0, StateTypes, EmptySeq
<1>3. /\ batch \in [Ends -> Seq(1 .. MaxSent)] /\ reading \in [Ends -> BOOLEAN]
      /\ delivered \in [Ends -> Seq(1 .. MaxSent)]
  BY <1>0 DEF Types
<1>4. /\ batch' \in [Ends -> Seq(1 .. MaxSent)] /\ reading' \in [Ends -> BOOLEAN]
      /\ delivered' \in [Ends -> Seq(1 .. MaxSent)]
  <2>1. CASE SendRefused(e)
    BY <1>2, <1>3, <2>1 DEF SendRefused
  <2>2. CASE WouldBlock(e)
    BY <1>3, <2>2 DEF WouldBlock
  <2>3. CASE Handle(e)
    <3>1. Head(batch[e]) \in 1 .. MaxSent /\ Tail(batch[e]) \in Seq(1 .. MaxSent)
      BY <1>2, <2>3, HeadTailProperties DEF Handle
    <3>2. Append(delivered[Peer(e)], Head(batch[e])) \in Seq(1 .. MaxSent)
      BY <1>0, <1>3, <3>1, AppendProperties
    <3> QED
      BY <1>0, <1>3, <2>3, <3>1, <3>2 DEF Handle
  <2>4. CASE UNCHANGED vars
    BY <1>3, <2>4 DEF vars
  <2> QED
    BY <2>1, <2>2, <2>3, <2>4
<1>5. Types'
  BY <1>0, <1>1, <1>4 DEF Types, lineVars
<1> QED
  BY <1>1, <1>5, Unmoved DEF LineInv

LEMMA InitInv ==
    ASSUME Init
    PROVE  LineInv
PROOF
<1>0. <<>> \in Seq(Part) /\ <<>> \in Seq(1 .. MaxSent) /\ <<>> \in Seq(Connections) /\ Len(<<>>) = 0
  BY EmptySeq
<1>1. /\ conns = 0 /\ backlog = <<>> /\ ~ipc_error /\ ipc_error \in BOOLEAN
      /\ \A e \in Ends : fd[e] = 0 /\ out[e] = <<>> /\ buffer[e] = <<>> /\ sent[e] = 0
      /\ \A c \in Connections : open[c] = {} /\ \A e \in Ends : wire[c][e] = <<>>
  BY DEF Init
<1>2. Types
  <2>1. \A c \in Connections, e \in Ends : Len(wire[c][e]) =< Capacity
    BY <1>0, <1>1, ConnectionsAre
  <2>2. /\ wire \in [Connections -> [Ends -> Seq(Part)]]
        /\ out \in [Ends -> Seq(Part)] /\ buffer \in [Ends -> Seq(Part)]
    BY <1>0 DEF Init
  <2>3. batch \in [Ends -> Seq(1 .. MaxSent)] /\ delivered \in [Ends -> Seq(1 .. MaxSent)]
    BY <1>0 DEF Init
  <2>4. /\ conns \in 0 .. MaxConns /\ fd \in [Ends -> 0 .. MaxConns]
        /\ sent \in [Ends -> 0 .. MaxSent]
    BY ConnectionsAre DEF Init
  <2>5. open \in [Connections -> SUBSET Ends] /\ reading \in [Ends -> BOOLEAN]
    BY DEF Init
  <2> QED
    BY <1>0, <1>1, <2>1, <2>2, <2>3, <2>4, <2>5 DEF Types
<1>3. Ordering
  <2>1. Numbered
    BY <1>0, <1>1, Peers DEF Numbered
  <2>2. \A e \in Ends : Writing(e) /\ Buffered(e)
    BY <1>0, <1>1 DEF Writing, Buffered, LineRest, NoNewline
  <2>3. \A c : ~Queued(c)
    BY <1>0, <1>1 DEF Queued
  <2>4. \A c \in Connections : c # 0
    BY ConnectionsAre
  <2>5. \A c \in Connections : Opened(c) /\ Fresh(c)
    BY <1>1, <2>3, <2>4, Peers DEF Opened, Fresh
  <2> QED
    BY <2>1, <2>2, <2>5 DEF Ordering
<1>4. \A c \in Connections, e \in Ends : Lines(c, e)
  BY <1>1 DEF Lines
<1> QED
  BY <1>1, <1>2, <1>3, <1>4 DEF LineInv, NoGarble

LEMMA StepInv ==
    ASSUME LineInv, [Next]_vars
    PROVE  LineInv'
PROOF
<1>0. /\ Types /\ Ordering /\ NoGarble /\ \A c \in Connections, x \in Ends : Lines(c, x)
      /\ \A x \in Ends : Writing(x)
  BY DEF LineInv, Ordering
<1>1. CASE Connect
  <2>1. Types' /\ Ordering'
    BY <1>0, <1>1, ConnectTypes, ConnectOrdering
  <2>2. (\A c \in Connections, x \in Ends : Lines(c, x))'
    BY <1>0, <1>1, ConnectLines
  <2>3. NoGarble'
    BY <1>0, <1>1 DEF Connect, NoGarble
  <2> QED
    BY <2>1, <2>2, <2>3 DEF LineInv
<1>2. CASE Accept
  <2>1. Types' /\ Ordering'
    BY <1>0, <1>2, AcceptTypes, AcceptOrdering
  <2>2. (\A c \in Connections, x \in Ends : Lines(c, x))'
    BY <1>0, <1>2, AcceptLines
  <2>3. NoGarble'
    BY <1>0, <1>2 DEF Accept, NoGarble
  <2> QED
    BY <2>1, <2>2, <2>3 DEF LineInv
<1>3. ASSUME NEW e \in Ends, WriteFails(e) \/ Eof(e) \/ Kill(e) PROVE LineInv'
  <2>1. PICK cs : Closes(e, cs)
    BY <1>0, <1>3, ClosingSteps
  <2>2. Types' /\ Ordering'
    BY <1>0, <2>1, ClosesTypes, ClosesOrdering
  <2>3. (\A c \in Connections, x \in Ends : Lines(c, x))'
    BY <1>0, <2>1, ClosesLines
  <2>4. NoGarble'
    BY <1>0, <2>1 DEF Closes, NoGarble
  <2> QED
    BY <2>2, <2>3, <2>4 DEF LineInv
<1>4. ASSUME NEW e \in Ends, Send(e) PROVE LineInv'
  <2>1. Types' /\ Ordering' /\ (\A c \in Connections, x \in Ends : Lines(c, x))'
    BY <1>0, <1>4, SendInv
  <2>2. NoGarble'
    BY <1>0, <1>4 DEF Send, NoGarble
  <2> QED
    BY <2>1, <2>2 DEF LineInv
<1>5. ASSUME NEW e \in Ends, WritePiece(e) PROVE LineInv'
  <2>1. Types' /\ Ordering' /\ (\A c \in Connections, x \in Ends : Lines(c, x))'
    BY <1>0, <1>5, WriteInv
  <2>2. NoGarble'
    BY <1>0, <1>5 DEF WritePiece, NoGarble
  <2> QED
    BY <2>1, <2>2 DEF LineInv
<1>6. ASSUME NEW e \in Ends, Recv(e) PROVE LineInv'
  BY <1>6, RecvInv
<1>7. ASSUME NEW e \in Ends, SendRefused(e) \/ WouldBlock(e) \/ Handle(e) \/ Idle(e)
      PROVE  LineInv'
  BY <1>7, QuietInv DEF Idle
<1>8. CASE UNCHANGED vars
  <2>1. "daemon" \in Ends
    BY Peers
  <2> QED
    BY <1>8, <2>1, QuietInv
<1> QED
  BY <1>1, <1>2, <1>3, <1>4, <1>5, <1>6, <1>7, <1>8, Zenon DEF Next, Loop

LEMMA Inductive == Spec => []LineInv
PROOF
<1>1. Init => LineInv
  BY InitInv
<1>2. LineInv /\ [Next]_vars => LineInv'
  BY StepInv
<1> QED
  BY <1>1, <1>2, PTL DEF Spec

\* Every variable keeps its type, and read_messages leaves no whole message in its
\* buffer and nothing of a closed connection, however lines are cut, chunks read
\* and connections made again.
THEOREM LineTypes == Spec => []TypeOK
PROOF
<1>1. LineInv => TypeOK
  <2> SUFFICES ASSUME Types, Ordering PROVE TypeOK
    BY DEF LineInv
  <2>1. Part \subseteq Piece
    BY DEF Part
  <2>2. \A s \in Seq(Part) : s \in Seq(Piece)
    BY <2>1, SeqMonotonic
  <2>3. \A c \in Connections, e \in Ends : wire[c][e] \in Seq(Piece)
    BY <2>2 DEF Types
  <2>4. wire \in [Connections -> [Ends -> Seq(Piece)]]
    <3>1. wire \in [Connections -> [Ends -> Seq(Part)]]
      BY DEF Types
    <3> QED
      BY <2>2, <3>1
  <2>5. out \in [Ends -> Seq(Piece)] /\ buffer \in [Ends -> Seq(Piece)]
    <3>1. out \in [Ends -> Seq(Part)] /\ buffer \in [Ends -> Seq(Part)]
      BY DEF Types
    <3> QED
      BY <2>2, <3>1
  <2>6. \A e \in Ends : Unfinished(buffer[e]) /\ (fd[e] = 0 => buffer[e] = <<>>)
    <3> TAKE e \in Ends
    <3>1. Buffered(e)
      BY DEF Ordering
    <3>2. DOMAIN buffer[e] = 1 .. Len(buffer[e])
      BY StateTypes, LenProperties
    <3> QED
      BY <3>1, <3>2 DEF Buffered, NoNewline, Unfinished
  <2> QED
    BY <2>4, <2>5, <2>6 DEF Types, TypeOK
<1> QED
  BY <1>1, Inductive, PTL

\* read_messages never meets a line that decode_message refuses, although sendall
\* may stop inside a line and both ends may be killed at any point.
THEOREM NothingGarbled == Spec => []NoGarble
PROOF
<1>1. LineInv => NoGarble
  BY DEF LineInv
<1> QED
  BY <1>1, Inductive, PTL
-----------------------------------------------------------------------------
(* Steps of MessagePipe.                                                    *)

LEMMA PipeEnds ==
    /\ Pipe!Ends = Ends
    /\ \A e \in Ends : Pipe!Peer(e) = Peer(e)
PROOF
  BY DEF Pipe!Ends, Ends, Pipe!Peer, Peer

LEMMA PipeAttaches ==
    ASSUME NEW e \in Ends, fd[e] = 0, fd'[e] # 0, fd'[Peer(e)] = fd[Peer(e)],
           \A x \in Ends : UnderWay(x)' = UnderWay(x), UNCHANGED <<sent, delivered>>
    PROVE  Pipe!Next
PROOF
<1>1. ~[x \in Ends |-> fd[x] # 0][e]
  OBVIOUS
<1>2. [x \in Ends |-> fd'[x] # 0] = [[x \in Ends |-> fd[x] # 0] EXCEPT ![e] = TRUE]
  <2>1. \A x \in Ends : x # e => x = Peer(e)
    BY Peers
  <2> QED
    BY <2>1
<1>3. [x \in Ends |-> UnderWay(x)'] = [x \in Ends |-> UnderWay(x)]
  OBVIOUS
<1>4. Pipe!Attach(e)
  BY <1>1, <1>2, <1>3 DEF Pipe!Attach
<1> QED
  BY <1>4, PipeEnds DEF Pipe!Next

LEMMA PipeDetaches ==
    ASSUME NEW e \in Ends, fd'[e] = 0, fd'[Peer(e)] = fd[Peer(e)], UnderWay(e)' = UnderWay(e),
           NEW k \in 0 .. Len(UnderWay(Peer(e))),
           UnderWay(Peer(e))' = SubSeq(UnderWay(Peer(e)), k + 1, Len(UnderWay(Peer(e)))),
           UNCHANGED <<sent, delivered>>
    PROVE  Pipe!Next
PROOF
<1> DEFINE H == [x \in Ends |-> fd[x] # 0]
           Q == [x \in Ends |-> UnderWay(x)]
           p == Peer(e)
<1>0. p \in Ends /\ p # e /\ \A x \in Ends : x # e => x = p
  BY Peers
<1>1. [x \in Ends |-> fd'[x] # 0] = [H EXCEPT ![e] = FALSE]
  BY <1>0
<1>2. [x \in Ends |-> UnderWay(x)'] = [Q EXCEPT ![p] = SubSeq(Q[p], k + 1, Len(Q[p]))]
  BY <1>0
<1>3. k \in 0 .. Len(Q[p])
  BY <1>0
<1>4. \E j \in 0 .. Len(Q[p]) :
        [x \in Ends |-> UnderWay(x)'] = [Q EXCEPT ![p] = SubSeq(@, j + 1, Len(@))]
  BY <1>2, <1>3
<1>5. Pipe!Detach(e)
  BY <1>1, <1>4, PipeEnds DEF Pipe!Detach
<1> QED
  BY <1>5, PipeEnds DEF Pipe!Next

LEMMA PipeSends ==
    ASSUME NEW e \in Ends, fd[e] # 0, fd' = fd, UnderWay(Peer(e))' = UnderWay(Peer(e)),
           UnderWay(e)' = Append(UnderWay(e), sent[e] + 1), Types,
           sent'[e] = sent[e] + 1, sent'[Peer(e)] = sent[Peer(e)], sent' \in [Ends -> 0 .. MaxSent],
           UNCHANGED delivered
    PROVE  Pipe!Next
PROOF
<1> DEFINE Q == [x \in Ends |-> UnderWay(x)]
<1>0. Peer(e) # e /\ \A x \in Ends : x # e => x = Peer(e)
  BY Peers
<1>1. sent' = [sent EXCEPT ![e] = sent[e] + 1]
  BY <1>0 DEF Types
<1>2. [x \in Ends |-> UnderWay(x)'] = [Q EXCEPT ![e] = Append(Q[e], sent[e] + 1)]
  BY <1>0
<1>3. Pipe!Send(e)
  BY <1>1, <1>2 DEF Pipe!Send
<1> QED
  BY <1>3, PipeEnds DEF Pipe!Next

LEMMA PipeDelivers ==
    ASSUME NEW e \in Ends, fd' = fd, UnderWay(Peer(e))' = UnderWay(Peer(e)),
           UnderWay(e) # <<>>, UnderWay(e)' = Tail(UnderWay(e)),
           delivered' = [delivered EXCEPT ![e] = Append(@, Head(UnderWay(e)))], UNCHANGED sent
    PROVE  Pipe!Next
PROOF
<1> DEFINE Q == [x \in Ends |-> UnderWay(x)]
<1>0. Peer(e) # e /\ \A x \in Ends : x # e => x = Peer(e)
  BY Peers
<1>1. [x \in Ends |-> UnderWay(x)'] = [Q EXCEPT ![e] = Tail(Q[e])]
  BY <1>0
<1>2. Q[e] # <<>> /\ delivered' = [delivered EXCEPT ![e] = Append(@, Head(Q[e]))]
  OBVIOUS
<1>3. Pipe!Deliver(e)
  BY <1>1, <1>2 DEF Pipe!Deliver
<1> QED
  BY <1>3, PipeEnds DEF Pipe!Next

LEMMA PipeStutters ==
    ASSUME fd' = fd, \A x \in Ends : UnderWay(x)' = UnderWay(x), UNCHANGED <<sent, delivered>>
    PROVE  UNCHANGED Pipe!pipeVars
PROOF
<1>1. [x \in Ends |-> UnderWay(x)'] = [x \in Ends |-> UnderWay(x)]
  OBVIOUS
<1> QED
  BY <1>1 DEF Pipe!pipeVars
-----------------------------------------------------------------------------
(* The messages waiting in the backlog.                                     *)

\* f joins the first i members of q, for i up to n.
Joins(q, n, f) ==
    f = [i \in 1 .. n |-> IF i = 1 THEN q[i] ELSE f[i - 1] \o q[i]]

LEMMA Flattened ==
    ASSUME NEW q, NEW n, n = Len(q), n # 0, NEW g, Joins(q, n, g)
    PROVE  \E f : Joins(q, n, f) /\ FlattenSeq(q) = f[n]
PROOF
<1> DEFINE h == CHOOSE f : Joins(q, Len(q), f)
<1>1. Joins(q, Len(q), h)
  OBVIOUS
<1>2. FlattenSeq(q) = h[Len(q)]
  BY Zenon DEF FlattenSeq, Joins
<1> HIDE DEF h
<1> QED
  BY <1>1, <1>2

LEMMA FlattenNone ==
    ASSUME NEW S, NEW q \in Seq(S), Len(q) = 0
    PROVE  FlattenSeq(q) = <<>>
PROOF
<1>1. q = <<>>
  BY EmptySeq
<1> QED
  BY <1>1, Zenon DEF FlattenSeq

LEMMA FlattenOne ==
    ASSUME NEW S, NEW q \in Seq(S), Len(q) = 1
    PROVE  FlattenSeq(q) = q[1]
PROOF
<1> DEFINE g == [i \in 1 .. 1 |-> q[1]]
<1>1. Joins(q, 1, g)
  BY DEF Joins
<1> HIDE DEF g
<1>a. 1 = Len(q) /\ 1 # 0
  OBVIOUS
<1>2. PICK f : Joins(q, 1, f) /\ FlattenSeq(q) = f[1]
  BY <1>1, <1>a, Flattened, Zenon
<1>3. f[1] = q[1]
  BY <1>2 DEF Joins
<1> QED
  BY <1>2, <1>3

LEMMA FlattenTwo ==
    ASSUME NEW S, NEW q \in Seq(S), Len(q) = 2
    PROVE  FlattenSeq(q) = q[1] \o q[2]
PROOF
<1> DEFINE g == [i \in 1 .. 2 |-> IF i = 1 THEN q[1] ELSE q[1] \o q[2]]
<1>1. Joins(q, 2, g)
  BY DEF Joins
<1> HIDE DEF g
<1>a. 2 = Len(q) /\ 2 # 0
  OBVIOUS
<1>2. PICK f : Joins(q, 2, f) /\ FlattenSeq(q) = f[2]
  BY <1>1, <1>a, Flattened, Zenon
<1>3. f[1] = q[1] /\ f[2] = f[1] \o q[2]
  BY <1>2 DEF Joins
<1> QED
  BY <1>2, <1>3

\* The messages that wait on the connections b when w is written on them.
Flat(b, w) == FlattenSeq([i \in DOMAIN b |-> Decoded(w[b[i]]["session"])])

Pieces == [Connections -> [Ends -> Seq(Part)]]

Number == 1 .. MaxSent

\* The messages on the i-th of them.
Nth(b, w, i) == Decoded(w[b[i]]["session"])

LEMMA FlatIs ==
    ASSUME NEW b \in Seq(Connections), NEW w \in Pieces, Len(b) =< 2
    PROVE  /\ Len(b) = 0 => Flat(b, w) = <<>>
           /\ Len(b) = 1 => Flat(b, w) = Nth(b, w, 1)
           /\ Len(b) = 2 => Flat(b, w) = Nth(b, w, 1) \o Nth(b, w, 2)
           /\ \A i \in 1 .. Len(b) : Nth(b, w, i) \in Seq(Number)
           /\ Flat(b, w) \in Seq(Number)
           /\ Len(b) \in {0, 1, 2}
PROOF
<1> DEFINE q == [i \in DOMAIN b |-> Nth(b, w, i)]
<1>1. Len(b) \in Nat /\ DOMAIN b = 1 .. Len(b) /\ \A i \in 1 .. Len(b) : b[i] \in Connections
  BY Elements
<1>2. \A i \in 1 .. Len(b) : Nth(b, w, i) \in Seq(Number)
  <2> SUFFICES ASSUME NEW i \in 1 .. Len(b) PROVE Nth(b, w, i) \in Seq(Number)
    OBVIOUS
  <2>1. w[b[i]]["session"] \in Seq(Part)
    BY <1>1, Peers DEF Pieces
  <2> QED
    BY <2>1, DecodedType DEF Nth, Number
<1>3. q \in Seq(Seq(Number)) /\ Len(q) = Len(b) /\ \A i \in 1 .. Len(b) : q[i] = Nth(b, w, i)
  <2> DEFINE n == Len(b)
  <2>1. q = [i \in 1 .. n |-> Nth(b, w, i)] /\ n \in Nat
    BY <1>1
  <2> HIDE DEF n
  <2>2. q \in [1 .. n -> Seq(Number)]
    BY <1>2, <2>1 DEF n
  <2>3. \A i \in 1 .. n : q[i] = Nth(b, w, i)
    BY <2>1
  <2> HIDE DEF q
  <2>4. q \in Seq(Seq(Number)) /\ Len(q) = n
    BY <2>1, <2>2, SeqDef, LenProperties
  <2> QED
    BY <2>3, <2>4 DEF n
<1>4. Flat(b, w) = FlattenSeq(q)
  BY Zenon DEF Flat, Nth
<1> HIDE DEF q
<1>5. Len(b) \in {0, 1, 2}
  BY <1>1
<1>6. Len(b) = 0 => Flat(b, w) = <<>>
  BY <1>3, <1>4, FlattenNone
<1>7. Len(b) = 1 => Flat(b, w) = Nth(b, w, 1)
  BY <1>3, <1>4, FlattenOne
<1>8. ASSUME Len(b) = 2 PROVE Flat(b, w) = Nth(b, w, 1) \o Nth(b, w, 2)
  <2>1. Len(q) = 2
    BY <1>3, <1>8
  <2>2. FlattenSeq(q) = q[1] \o q[2]
    BY <1>3, <2>1, FlattenTwo
  <2>3. q[1] = Nth(b, w, 1) /\ q[2] = Nth(b, w, 2)
    BY <1>3, <1>8
  <2> QED
    BY <1>4, <2>2, <2>3
<1>9. Flat(b, w) \in Seq(Number)
  <2>1. CASE Len(b) = 0
    BY <1>6, <2>1, EmptySeq
  <2>2. CASE Len(b) = 1
    BY <1>2, <1>7, <2>2
  <2>3. CASE Len(b) = 2
    <3>1. Nth(b, w, 1) \in Seq(Number) /\ Nth(b, w, 2) \in Seq(Number)
      BY <1>2, <2>3
    <3>2. Nth(b, w, 1) \o Nth(b, w, 2) \in Seq(Number)
      BY <3>1, ConcatProperties
    <3> QED
      BY <1>8, <2>3, <3>2
  <2> QED
    BY <1>5, <2>1, <2>2, <2>3
<1> QED
  BY <1>2, <1>5, <1>6, <1>7, <1>8, <1>9

\* They depend on what the session has written there.
LEMMA FlatSame ==
    ASSUME NEW b \in Seq(Connections), NEW w, NEW v,
           \A i \in 1 .. Len(b) : v[b[i]]["session"] = w[b[i]]["session"]
    PROVE  Flat(b, v) = Flat(b, w)
PROOF
<1>1. DOMAIN b = 1 .. Len(b)
  BY Elements
<1>2. [i \in DOMAIN b |-> Decoded(v[b[i]]["session"])]
        = [i \in DOMAIN b |-> Decoded(w[b[i]]["session"])]
  BY <1>1
<1> QED
  BY <1>2 DEF Flat

\* A connection on which nothing is written yet joins the backlog.
LEMMA FlatAppend ==
    ASSUME NEW b \in Seq(Connections), NEW w \in Pieces, Len(b) < 2,
           NEW c \in Connections, w[c]["session"] = <<>>
    PROVE  Flat(Append(b, c), w) = Flat(b, w)
PROOF
<1> DEFINE d == Append(b, c)
<1>1. /\ d \in Seq(Connections) /\ Len(d) = Len(b) + 1 /\ d[Len(b) + 1] = c
      /\ \A i \in 1 .. Len(b) : d[i] = b[i]
  BY AppendProperties
<1> HIDE DEF d
<1>2. Len(b) \in Nat /\ Len(b) =< 2
  <2>1. Len(b) \in Nat
    BY Elements
  <2> QED
    BY <2>1
<1>3. Nth(d, w, Len(b) + 1) = <<>>
  BY <1>1, DecodedEmpty DEF Nth
<1>4. CASE Len(b) = 0
  <2>1. Flat(d, w) = <<>>
    <3>1. Len(d) = 1 /\ Len(d) =< 2 /\ Nth(d, w, 1) = <<>>
      BY <1>1, <1>3, <1>4
    <3> QED
      BY <1>1, <3>1, FlatIs
  <2>2. Flat(b, w) = <<>>
    BY <1>2, <1>4, FlatIs
  <2> QED
    BY <2>1, <2>2 DEF d
<1>5. CASE Len(b) = 1
  <2>1. Len(d) = 2 /\ Len(d) =< 2 /\ Nth(d, w, 2) = <<>> /\ d[1] = b[1]
    BY <1>1, <1>3, <1>5
  <2>2. Nth(d, w, 1) = Nth(b, w, 1)
    BY <2>1 DEF Nth
  <2>3. Flat(d, w) = Nth(d, w, 1) \o Nth(d, w, 2)
    BY <1>1, <2>1, FlatIs
  <2>4. Flat(b, w) = Nth(b, w, 1) /\ Nth(b, w, 1) \in Seq(Number)
    BY <1>2, <1>5, FlatIs
  <2>5. Nth(b, w, 1) \o <<>> = Nth(b, w, 1)
    BY <2>4, ConcatEmptySeq
  <2> QED
    BY <2>1, <2>2, <2>3, <2>4, <2>5 DEF d
<1>6. Len(b) = 0 \/ Len(b) = 1
  <2> DEFINE n == Len(b)
  <2>1. n \in Nat /\ n < 2
    BY <1>2
  <2> HIDE DEF n
  <2>2. n = 0 \/ n = 1
    BY <2>1
  <2> QED
    BY <2>2 DEF n
<1> QED
  BY <1>4, <1>5, <1>6

LEMMA OneOrTwo == \A n \in 1 .. 2 : n =< 2 /\ n \in 1 .. n
PROOF
  OBVIOUS

\* The oldest connection leaves it.
LEMMA FlatTail ==
    ASSUME NEW b \in Seq(Connections), NEW w \in Pieces, Len(b) \in 1 .. 2
    PROVE  Flat(b, w) = Nth(b, w, 1) \o Flat(Tail(b), w)
PROOF
<1>0. Len(b) =< 2
  BY OneOrTwo
<1> DEFINE d == Tail(b)
<1>1. /\ d \in Seq(Connections) /\ Len(d) = Len(b) - 1
      /\ \A i \in 1 .. Len(d) : d[i] = b[i + 1]
  <2>1. b # <<>>
    BY EmptySeq
  <2> QED
    BY <2>1, HeadTailProperties
<1> HIDE DEF d
<1>2. CASE Len(b) = 1
  <2>1. Flat(b, w) = Nth(b, w, 1) /\ Nth(b, w, 1) \in Seq(Number)
    BY <1>0, <1>2, FlatIs
  <2>2. Flat(d, w) = <<>>
    <3>1. Len(d) = 0 /\ Len(d) =< 2
      BY <1>1, <1>2
    <3> QED
      BY <1>1, <3>1, FlatIs
  <2>3. Nth(b, w, 1) \o <<>> = Nth(b, w, 1)
    BY <2>1, ConcatEmptySeq
  <2> QED
    BY <2>1, <2>2, <2>3 DEF d
<1>3. CASE Len(b) = 2
  <2>1. Flat(b, w) = Nth(b, w, 1) \o Nth(b, w, 2)
    BY <1>0, <1>3, FlatIs
  <2>2. Len(d) = 1 /\ Len(d) =< 2 /\ d[1] = b[2]
    BY <1>1, <1>3
  <2>3. Flat(d, w) = Nth(d, w, 1)
    BY <1>1, <2>2, FlatIs
  <2>4. Nth(d, w, 1) = Nth(b, w, 2)
    BY <2>2 DEF Nth
  <2> QED
    BY <2>1, <2>3, <2>4 DEF d
<1> QED
  BY <1>2, <1>3

LEMMA AppendJoin ==
    ASSUME NEW S, NEW a \in Seq(S), NEW b \in Seq(S), NEW k \in S
    PROVE  a \o Append(b, k) = Append(a \o b, k)
PROOF
<1>1. a \o b \in Seq(S)
  BY ConcatProperties
<1>2. <<k>> \in Seq(S)
  OBVIOUS
<1>3. a \o (b \o <<k>>) = (a \o b) \o <<k>>
  BY <1>2, ConcatAssociative
<1>4. Append(b, k) = b \o <<k>> /\ Append(a \o b, k) = (a \o b) \o <<k>>
  BY <1>1, AppendIsConcat
<1> QED
  BY <1>3, <1>4

\* The session writes a piece on the newest.
LEMMA FlatWrite ==
    ASSUME NEW b \in Seq(Connections), NEW w \in Pieces, NEW v \in Pieces, Len(b) \in 1 .. 2,
           NEW p \in Part, v[b[Len(b)]]["session"] = Append(w[b[Len(b)]]["session"], p),
           \A i \in 1 .. Len(b) : i < Len(b) => v[b[i]]["session"] = w[b[i]]["session"]
    PROVE  Flat(b, v) = IF EndsLine(p) THEN Append(Flat(b, w), p.number) ELSE Flat(b, w)
PROOF
<1>0. Len(b) =< 2 /\ Len(b) \in 1 .. Len(b)
  BY OneOrTwo
<1>1. Nth(b, v, Len(b))
        = IF EndsLine(p) THEN Append(Nth(b, w, Len(b)), p.number) ELSE Nth(b, w, Len(b))
  <2>1. b[Len(b)] \in Connections
    BY <1>0, Elements
  <2>2. w[b[Len(b)]]["session"] \in Seq(Part)
    BY <2>1, Peers DEF Pieces
  <2> QED
    BY <2>2, DecodedAppend DEF Nth
<1>2. CASE Len(b) = 1
  <2>1. Flat(b, v) = Nth(b, v, 1) /\ Flat(b, w) = Nth(b, w, 1)
    BY <1>0, <1>2, FlatIs
  <2> QED
    BY <1>1, <1>2, <2>1
<1>3. CASE Len(b) = 2
  <2>1. Flat(b, v) = Nth(b, v, 1) \o Nth(b, v, 2)
    BY <1>0, <1>3, FlatIs
  <2>2. /\ Flat(b, w) = Nth(b, w, 1) \o Nth(b, w, 2)
        /\ Nth(b, w, 1) \in Seq(Number) /\ Nth(b, w, 2) \in Seq(Number)
    <3>1. 1 \in 1 .. Len(b) /\ 2 \in 1 .. Len(b)
      BY <1>3
    <3> QED
      BY <1>0, <1>3, <3>1, FlatIs
  <2>3. Nth(b, v, 1) = Nth(b, w, 1)
    BY <1>3 DEF Nth
  <2>4. p.number \in Number
    BY PartType DEF Number
  <2>5. Nth(b, w, 1) \o Append(Nth(b, w, 2), p.number)
          = Append(Nth(b, w, 1) \o Nth(b, w, 2), p.number)
    BY <2>2, <2>4, AppendJoin
  <2>6. Nth(b, v, 2) = IF EndsLine(p) THEN Append(Nth(b, w, 2), p.number) ELSE Nth(b, w, 2)
    BY <1>1, <1>3
  <2> QED
    BY <2>1, <2>2, <2>3, <2>5, <2>6, Zenon
<1> QED
  BY <1>2, <1>3
-----------------------------------------------------------------------------
(* What is under way to a reader.                                           *)

LEMMA UnderWayIs ==
    ASSUME NEW r \in Ends
    PROVE  /\ UnderWay(Peer(r)) = (batch[r] \o Current(r)) \o Waiting(r)
           /\ UnderWay(Peer(r))' = (batch'[r] \o Current(r)') \o Waiting(r)'
PROOF
<1>1. Peer(Peer(r)) = r
  BY Peers
<1> QED
  BY <1>1, Zenon DEF UnderWay

LEMMA WaitingIs ==
    /\ Waiting("session") = <<>> /\ Waiting("session")' = <<>>
    /\ Waiting("daemon") = Flat(backlog, wire)
    /\ Waiting("daemon")' = Flat(backlog', wire')
PROOF
<1>1. Waiting("session") = <<>> /\ Waiting("session")' = <<>>
  BY DEF Waiting
<1>2. "daemon" # "session" /\ Peer("daemon") = "session"
  BY Peers
<1>3. Waiting("daemon") = Flat(backlog, wire)
  BY <1>2, Zenon DEF Waiting, Flat
<1>4. Waiting("daemon")' = Flat(backlog', wire')
  BY <1>2, Zenon DEF Waiting, Flat
<1> QED
  BY <1>1, <1>3, <1>4

LEMMA PartTypes ==
    ASSUME LineInv, NEW r \in Ends
    PROVE  /\ batch[r] \in Seq(Number) /\ Current(r) \in Seq(Number) /\ Waiting(r) \in Seq(Number)
           /\ batch[r] \o Current(r) \in Seq(Number)
           /\ UnderWay(Peer(r)) \in Seq(Number)
PROOF
<1>0. /\ Types /\ Numbered /\ Peer(r) \in Ends
  BY Peers DEF LineInv, Ordering
<1>1. batch[r] \in Seq(Number)
  BY <1>0, StateTypes DEF Number
<1>2. Current(r) \in Seq(Number)
  <2>1. CASE fd[r] = 0
    <3>1. Current(r) = <<>>
      BY <2>1 DEF Current
    <3> QED
      BY <3>1, EmptySeq
  <2>2. CASE fd[r] # 0
    <3> DEFINE b == buffer[r]
               w == wire[fd[r]][Peer(r)]
    <3>1. b \in Seq(Part) /\ w \in Seq(Part)
      BY <1>0, <2>2, StateTypes
    <3>2. Current(r) = Decoded(b \o w)
      BY <2>2 DEF Current, Incoming
    <3> HIDE DEF b, w
    <3>3. b \o w \in Seq(Part)
      BY <3>1, ConcatProperties
    <3> QED
      BY <3>2, <3>3, DecodedType DEF Number
  <2> QED
    BY <2>1, <2>2
<1>3. Waiting(r) \in Seq(Number)
  <2>1. CASE r = "session"
    BY <2>1, WaitingIs, EmptySeq
  <2>2. CASE r = "daemon"
    <3>1. backlog \in Seq(Connections) /\ wire \in Pieces /\ Len(backlog) =< 2
      BY <1>0 DEF Types, Pieces, Numbered
    <3>2. Flat(backlog, wire) \in Seq(Number)
      BY <3>1, FlatIs
    <3> QED
      BY <2>2, <3>2, WaitingIs
  <2> QED
    BY <2>1, <2>2, Peers
<1>4. batch[r] \o Current(r) \in Seq(Number)
  BY <1>1, <1>2, ConcatProperties
<1>5. UnderWay(Peer(r)) \in Seq(Number)
  <2> DEFINE a == batch[r] \o Current(r)
  <2>1. UnderWay(Peer(r)) = a \o Waiting(r) /\ a \in Seq(Number)
    BY <1>4, UnderWayIs
  <2> HIDE DEF a
  <2> QED
    BY <1>3, <2>1, ConcatProperties
<1> QED
  BY <1>1, <1>2, <1>3, <1>4, <1>5

\* A reader that keeps its connection, and of whose connections nothing changes.
LEMMA CurrentSame ==
    ASSUME NEW r \in Ends, fd'[r] = fd[r], buffer'[r] = buffer[r],
           fd[r] # 0 => wire'[fd[r]][Peer(r)] = wire[fd[r]][Peer(r)]
    PROVE  Current(r)' = Current(r)
PROOF
<1>1. CASE fd[r] = 0
  BY <1>1 DEF Current
<1>2. CASE fd[r] # 0
  <2>1. Current(r) = Decoded(buffer[r] \o wire[fd[r]][Peer(r)])
    BY <1>2 DEF Current, Incoming
  <2>2. Current(r)' = Decoded(buffer'[r] \o wire'[fd'[r]][Peer(r)])
    BY <1>2 DEF Current, Incoming
  <2> QED
    BY <1>2, <2>1, <2>2
<1> QED
  BY <1>1, <1>2

LEMMA WaitingSame ==
    ASSUME Types, NEW r \in Ends,
           r = "daemon" =>
             /\ backlog' = backlog
             /\ \A i \in 1 .. Len(backlog) : wire'[backlog[i]]["session"] = wire[backlog[i]]["session"]
    PROVE  Waiting(r)' = Waiting(r)
PROOF
<1>1. CASE r = "session"
  BY <1>1, WaitingIs
<1>2. CASE r = "daemon"
  <2>1. backlog \in Seq(Connections)
    BY DEF Types
  <2>2. Flat(backlog, wire') = Flat(backlog, wire)
    BY <1>2, <2>1, FlatSame
  <2> QED
    BY <1>2, <2>2, WaitingIs
<1> QED
  BY <1>1, <1>2, Peers

LEMMA InboxSame ==
    ASSUME Types, NEW r \in Ends, batch'[r] = batch[r], fd'[r] = fd[r], buffer'[r] = buffer[r],
           fd[r] # 0 => wire'[fd[r]][Peer(r)] = wire[fd[r]][Peer(r)],
           r = "daemon" =>
             /\ backlog' = backlog
             /\ \A i \in 1 .. Len(backlog) : wire'[backlog[i]]["session"] = wire[backlog[i]]["session"]
    PROVE  UnderWay(Peer(r))' = UnderWay(Peer(r))
PROOF
<1>1. Current(r)' = Current(r)
  BY CurrentSame
<1>2. Waiting(r)' = Waiting(r)
  BY WaitingSame
<1> QED
  BY <1>1, <1>2, UnderWayIs
-----------------------------------------------------------------------------
(* Each step is one of MessagePipe's, or none.                              *)

LEMMA ConnectMaps ==
    ASSUME LineInv, Connect
    PROVE  Pipe!Next
PROOF
<1>0. /\ Types /\ Ordering /\ Numbered /\ Buffered("session") /\ "session" \in Ends /\ "daemon" \in Ends
      /\ \A c \in Connections : Fresh(c)
      /\ Peer("daemon") = "session" /\ Peer("session") = "daemon"
  BY Peers DEF LineInv, Ordering
<1>1. /\ conns + 1 \in Connections /\ conns \in Nat
      /\ fd["session"] = 0 /\ fd'["session"] = conns + 1 /\ fd'["daemon"] = fd["daemon"]
      /\ Len(backlog) < 2 /\ backlog' = Append(backlog, conns + 1)
      /\ UNCHANGED <<wire, buffer, sent>>
  BY <1>0, ConnectEffect
<1>2. UNCHANGED <<batch, delivered>>
  BY DEF Connect
<1>3. \A e \in Ends : wire[conns + 1][e] = <<>>
  <2>1. Fresh(conns + 1) /\ conns + 1 > conns
    BY <1>0, <1>1
  <2> QED
    BY <2>1 DEF Fresh
<1>4. UnderWay("daemon")' = UnderWay("daemon")
  <2>1. Current("session") = <<>>
    BY <1>1 DEF Current
  <2>2. Current("session")' = <<>>
    <3>1. buffer["session"] = <<>>
      BY <1>0, <1>1 DEF Buffered
    <3>2. Current("session")' = Decoded(buffer["session"] \o wire[conns + 1]["daemon"])
      <4>1. fd'["session"] # 0
        BY <1>1
      <4> QED
        BY <1>0, <1>1, <4>1 DEF Current, Incoming
    <3>3. <<>> \o <<>> = <<>>
      BY ConcatEmptySeq, EmptySeq
    <3> QED
      BY <1>0, <1>3, <3>1, <3>2, <3>3, DecodedEmpty
  <2>3. Waiting("session")' = Waiting("session")
    BY WaitingIs
  <2> QED
    BY <1>0, <1>2, <2>1, <2>2, <2>3, UnderWayIs
<1>5. UnderWay("session")' = UnderWay("session")
  <2>1. Current("daemon")' = Current("daemon")
    BY <1>0, <1>1, CurrentSame
  <2>2. Flat(Append(backlog, conns + 1), wire) = Flat(backlog, wire)
    <3>1. backlog \in Seq(Connections) /\ wire \in Pieces
      BY <1>0 DEF Types, Pieces
    <3> QED
      BY <1>0, <1>1, <1>3, <3>1, FlatAppend
  <2>3. Waiting("daemon")' = Waiting("daemon")
    BY <1>1, <2>2, WaitingIs
  <2> QED
    BY <1>0, <1>2, <2>1, <2>3, UnderWayIs
<1>6. \A x \in Ends : UnderWay(x)' = UnderWay(x)
  BY <1>4, <1>5, Peers
<1>7. fd'["session"] # 0
  BY <1>1
<1> QED
  BY <1>0, <1>1, <1>2, <1>6, <1>7, PipeAttaches

LEMMA AcceptMaps ==
    ASSUME LineInv, Accept
    PROVE  Pipe!Next
PROOF
<1>0. /\ Types /\ Ordering /\ "session" \in Ends /\ "daemon" \in Ends
      /\ Peer("daemon") = "session" /\ Peer("session") = "daemon"
  BY Peers DEF LineInv, Ordering
<1>1. /\ Len(backlog) \in 1 .. 2 /\ backlog[1] \in Connections
      /\ fd["daemon"] = 0 /\ fd'["daemon"] = backlog[1] /\ fd'["session"] = fd["session"]
      /\ buffer["daemon"] = <<>> /\ buffer' = buffer /\ batch["daemon"] = <<>>
      /\ UNCHANGED <<wire, sent>>
  BY <1>0, AcceptEffect
<1>2. backlog' = Tail(backlog) /\ UNCHANGED <<batch, delivered>>
  BY DEF Accept
<1>3. fd'["daemon"] # 0
  BY <1>1, ConnectionsAre
<1>4. UnderWay("daemon")' = UnderWay("daemon")
  BY <1>0, <1>1, <1>2, InboxSame
<1>5. UnderWay("session")' = UnderWay("session")
  <2> DEFINE N == Nth(backlog, wire, 1)
             W == Flat(Tail(backlog), wire)
  <2>1. backlog \in Seq(Connections) /\ wire \in Pieces
    BY <1>0 DEF Types, Pieces
  <2>2. Flat(backlog, wire) = N \o W
    BY <1>1, <2>1, FlatTail
  <2>3. Current("daemon") = <<>>
    BY <1>1 DEF Current
  <2>4. Current("daemon")' = N
    <3>1. Current("daemon")' = Decoded(buffer["daemon"] \o wire[backlog[1]]["session"])
      BY <1>0, <1>1, <1>3 DEF Current, Incoming
    <3>2. wire[backlog[1]]["session"] \in Seq(Part)
      BY <1>0, <1>1, StateTypes
    <3>3. <<>> \o wire[backlog[1]]["session"] = wire[backlog[1]]["session"]
      BY <3>2, ConcatEmptySeq
    <3> QED
      BY <1>1, <3>1, <3>3 DEF Nth
  <2>5. N \in Seq(Number)
    <3>1. Len(backlog) =< 2 /\ 1 \in 1 .. Len(backlog)
      <4>1. \A n \in 1 .. 2 : n =< 2 /\ 1 \in 1 .. n
        OBVIOUS
      <4> QED
        BY <1>1, <4>1
    <3> QED
      BY <2>1, <3>1, FlatIs
  <2>6. Flat(backlog, wire) \in Seq(Number)
    <3>1. Len(backlog) =< 2
      BY <1>1, OneOrTwo
    <3> QED
      BY <2>1, <3>1, FlatIs
  <2>7. Waiting("daemon") = Flat(backlog, wire) /\ Waiting("daemon")' = W
    BY <1>1, <1>2, WaitingIs
  <2>8. UnderWay("session") = (<<>> \o <<>>) \o Flat(backlog, wire)
    BY <1>0, <1>1, <2>3, <2>7, UnderWayIs
  <2>9. UnderWay("session")' = (<<>> \o N) \o W
    BY <1>0, <1>1, <1>2, <2>4, <2>7, UnderWayIs
  <2> HIDE DEF N, W
  <2>10. <<>> \o N = N
    BY <2>5, ConcatEmptySeq
  <2>11. <<>> \o <<>> = <<>>
    BY ConcatEmptySeq, EmptySeq
  <2>12. <<>> \o Flat(backlog, wire) = Flat(backlog, wire)
    BY <2>6, ConcatEmptySeq
  <2> QED
    BY <2>2, <2>8, <2>9, <2>10, <2>11, <2>12
<1>6. \A x \in Ends : UnderWay(x)' = UnderWay(x)
  BY <1>4, <1>5, Peers
<1> QED
  BY <1>0, <1>1, <1>2, <1>3, <1>6, PipeAttaches

LEMMA DropFront ==
    ASSUME NEW S, NEW a \in Seq(S), NEW w \in Seq(S)
    PROVE  /\ Len(a) \in 0 .. Len(a \o w)
           /\ SubSeq(a \o w, Len(a) + 1, Len(a \o w)) = w
PROOF
<1> DEFINE s == a \o w
           n == Len(a)
           m == Len(w)
           t == SubSeq(s, n + 1, Len(s))
<1>1. /\ s \in Seq(S) /\ Len(s) = n + m
      /\ \A i \in 1 .. n + m : s[i] = IF i <= n THEN a[i] ELSE w[i - n]
  BY ConcatProperties
<1>2. n \in Nat /\ m \in Nat /\ Len(w) = m
  BY Elements
<1> HIDE DEF n, m, s
<1>3. n \in 0 .. Len(s)
  BY <1>1, <1>2
<1>4. t \in Seq(S) /\ Len(t) = Len(s) - n /\ \A i \in 1 .. Len(s) - n : t[i] = s[n + i]
  BY <1>1, <1>3, Cut
<1> HIDE DEF t
<1>5. Len(t) = m
  BY <1>1, <1>2, <1>4
<1>6. \A i \in 1 .. m : t[i] = w[i]
  <2> SUFFICES ASSUME NEW i \in 1 .. m PROVE t[i] = w[i]
    OBVIOUS
  <2>1. n + i \in 1 .. n + m /\ ~(n + i <= n) /\ (n + i) - n = i /\ i \in 1 .. Len(s) - n
    BY <1>1, <1>2
  <2>2. s[n + i] = w[(n + i) - n]
    BY <1>1, <2>1, Zenon
  <2>3. t[i] = s[n + i]
    BY <1>4, <2>1
  <2> QED
    BY <2>1, <2>2, <2>3
<1>7. t = w
  BY <1>2, <1>4, <1>5, <1>6, SeqEqual
<1> QED
  BY <1>3, <1>7 DEF s, n, t

LEMMA DropAll ==
    ASSUME NEW S, NEW u \in Seq(S)
    PROVE  /\ Len(u) \in 0 .. Len(u) /\ SubSeq(u, Len(u) + 1, Len(u)) = <<>>
           /\ 0 \in 0 .. Len(u) /\ SubSeq(u, 0 + 1, Len(u)) = u
PROOF
<1>1. Len(u) \in Nat
  BY Elements
<1>2. Len(u) \in 0 .. Len(u) /\ 0 \in 0 .. Len(u) /\ 0 + 1 = 1
  BY <1>1
<1>3. SubSeq(u, Len(u) + 1, Len(u)) = <<>>
  <2> DEFINE n == Len(u)
  <2>1. n \in Int /\ n + 1 \in Int /\ n < n + 1
    BY <1>1
  <2> HIDE DEF n
  <2>2. SubSeq(u, n + 1, n) = <<>>
    BY <2>1, SubSeqEmpty
  <2> QED
    BY <2>2 DEF n
<1>4. SubSeq(u, 1, Len(u)) = u
  BY SubSeqFull
<1> QED
  BY <1>2, <1>3, <1>4

LEMMA HeadJoin ==
    ASSUME NEW S, NEW a \in Seq(S), NEW w \in Seq(S), a # <<>>
    PROVE  /\ a \o w \in Seq(S) /\ a \o w # <<>>
           /\ Head(a \o w) = Head(a) /\ Tail(a \o w) = Tail(a) \o w
PROOF
<1> DEFINE t == Tail(a)
           h == <<Head(a)>>
<1>1. t \in Seq(S) /\ Head(a) \in S /\ h \in Seq(S)
  BY HeadTailProperties
<1>2. a = h \o t
  OBVIOUS
<1> HIDE DEF t
<1>3. (h \o t) \o w = h \o (t \o w)
  <2> HIDE DEF h
  <2> QED
    BY <1>1, ConcatAssociative
<1>4. t \o w \in Seq(S)
  BY <1>1, ConcatProperties
<1>5. a \o w = h \o (t \o w)
  BY <1>2, <1>3
<1> DEFINE v == t \o w
<1>6. v \in Seq(S)
  BY <1>4
<1> HIDE DEF v
<1>7. h \o v # <<>> /\ Head(h \o v) = Head(a) /\ Tail(h \o v) = v /\ h \o v \in Seq(S)
  BY <1>1, <1>6
<1> QED
  BY <1>5, <1>7 DEF v, t

\* The backlog does not hold the daemon's connection.
LEMMA NotWaiting ==
    ASSUME Types, Numbered
    PROVE  \A i \in 1 .. Len(backlog) : backlog[i] # fd["daemon"]
PROOF
<1>1. fd["daemon"] \in Nat
  BY StateTypes, Peers
<1>2. \A i \in 1 .. Len(backlog) : backlog[i] \in Nat
  BY StateTypes, ConnectionsAre
<1>3. \A i \in 1 .. Len(backlog) : fd["daemon"] < backlog[i]
  BY DEF Numbered
<1> QED
  BY <1>1, <1>2, <1>3

\* Nothing moves between the ends.
LEMMA QuietMaps ==
    ASSUME LineInv, UNCHANGED <<fd, backlog, wire, buffer, batch, sent, delivered>>
    PROVE  UNCHANGED Pipe!pipeVars
PROOF
<1>0. Types
  BY DEF LineInv
<1>1. \A r \in Ends : UnderWay(Peer(r))' = UnderWay(Peer(r))
  BY <1>0, InboxSame
<1>2. \A x \in Ends : UnderWay(x)' = UnderWay(x)
  <2> SUFFICES ASSUME NEW x \in Ends PROVE UnderWay(x)' = UnderWay(x)
    OBVIOUS
  <2>1. Peer(x) \in Ends /\ Peer(Peer(x)) = x
    BY Peers
  <2> QED
    BY <1>1, <2>1
<1> QED
  BY <1>2, PipeStutters

\* handle_session_message, handle_daemon_message
LEMMA HandleMaps ==
    ASSUME LineInv, NEW e \in Ends, Handle(e)
    PROVE  Pipe!Next
PROOF
<1> DEFINE p == Peer(e)
<1>0. Types /\ p \in Ends /\ p # e /\ Peer(p) = e
  BY Peers DEF LineInv
<1>1. /\ batch[e] # <<>> /\ batch' = [batch EXCEPT ![e] = Tail(@)]
      /\ delivered' = [delivered EXCEPT ![p] = Append(@, Head(batch[e]))]
      /\ UNCHANGED <<fd, backlog, wire, buffer, sent>>
  BY DEF Handle
<1>2. batch'[e] = Tail(batch[e]) /\ batch'[p] = batch[p]
  <2>1. batch \in [Ends -> Seq(1 .. MaxSent)]
    BY <1>0 DEF Types
  <2> QED
    BY <1>0, <1>1, <2>1
<1>3. UnderWay(e)' = UnderWay(e)
  <2>1. UnderWay(Peer(p))' = UnderWay(Peer(p))
    BY <1>0, <1>1, <1>2, InboxSame
  <2> QED
    BY <1>0, <2>1
<1> DEFINE b == batch[e]
           C == Current(e)
           W == Waiting(e)
<1>4. b \in Seq(Number) /\ C \in Seq(Number) /\ W \in Seq(Number) /\ b # <<>>
  BY <1>1, PartTypes
<1>5. Current(e)' = C /\ Waiting(e)' = W
  BY <1>0, <1>1, CurrentSame, WaitingSame
<1>6. UnderWay(p) = (b \o C) \o W /\ UnderWay(p)' = (Tail(b) \o C) \o W
  BY <1>2, <1>5, UnderWayIs
<1>7. /\ (b \o C) \o W # <<>> /\ Head((b \o C) \o W) = Head(b)
      /\ Tail((b \o C) \o W) = (Tail(b) \o C) \o W
  <2> HIDE DEF b, C, W
  <2> DEFINE a == b \o C
  <2>1. a \in Seq(Number) /\ a # <<>> /\ Head(a) = Head(b) /\ Tail(a) = Tail(b) \o C
    BY <1>4, HeadJoin
  <2> HIDE DEF a
  <2>2. a \o W # <<>> /\ Head(a \o W) = Head(a) /\ Tail(a \o W) = Tail(a) \o W
    BY <1>4, <2>1, HeadJoin
  <2> QED
    BY <2>1, <2>2 DEF a
<1>8. /\ UnderWay(p) # <<>> /\ UnderWay(p)' = Tail(UnderWay(p))
      /\ delivered' = [delivered EXCEPT ![p] = Append(@, Head(UnderWay(p)))]
  BY <1>1, <1>6, <1>7
<1>9. UnderWay(Peer(p))' = UnderWay(Peer(p))
  BY <1>0, <1>3
<1> HIDE DEF p
<1> QED
  BY <1>0, <1>1, <1>8, <1>9, PipeDelivers

\* A reader drops what it has read, and what is on its connection.
LEMMA DropsFront ==
    ASSUME LineInv, NEW e \in Ends, fd'[e] = 0, fd'[Peer(e)] = fd[Peer(e)],
           UnderWay(e)' = UnderWay(e), batch'[e] = <<>>, Waiting(e)' = Waiting(e),
           UNCHANGED <<sent, delivered>>
    PROVE  Pipe!Next
PROOF
<1> DEFINE a == batch[e] \o Current(e)
           W == Waiting(e)
           u == UnderWay(Peer(e))
<1>1. a \in Seq(Number) /\ W \in Seq(Number)
  BY PartTypes
<1>2. u = a \o W
  BY UnderWayIs
<1>3. u' = (<<>> \o <<>>) \o W
  <2>1. Current(e)' = <<>>
    BY DEF Current
  <2>2. W' = W
    OBVIOUS
  <2> QED
    BY <2>1, <2>2, UnderWayIs
<1>4. (<<>> \o <<>>) \o W = W
  <2> HIDE DEF W
  <2>1. <<>> \o <<>> = <<>>
    BY ConcatEmptySeq, EmptySeq
  <2>2. <<>> \o W = W
    BY <1>1, ConcatEmptySeq
  <2> QED
    BY <2>1, <2>2
<1>5. Len(a) \in 0 .. Len(u) /\ u' = SubSeq(u, Len(a) + 1, Len(u))
  <2>1. Len(a) \in 0 .. Len(a \o W) /\ SubSeq(a \o W, Len(a) + 1, Len(a \o W)) = W
    <3> HIDE DEF a, W
    <3> QED
      BY <1>1, DropFront
  <2> QED
    BY <1>2, <1>3, <1>4, <2>1
<1> HIDE DEF a
<1> QED
  BY <1>5, PipeDetaches

LEMMA RefusedMaps ==
    ASSUME LineInv, NEW e \in Ends, SendRefused(e)
    PROVE  Pipe!Next
PROOF
<1> DEFINE p == Peer(e)
<1>0. Types /\ p \in Ends /\ p # e /\ Peer(p) = e
  BY Peers DEF LineInv
<1>1. /\ fd[e] = 0 /\ batch' = [batch EXCEPT ![e] = <<>>]
      /\ UNCHANGED <<fd, backlog, wire, buffer, sent, delivered>>
  BY DEF SendRefused
<1>2. batch'[e] = <<>> /\ batch'[p] = batch[p]
  <2>1. batch \in [Ends -> Seq(1 .. MaxSent)]
    BY <1>0 DEF Types
  <2> QED
    BY <1>0, <1>1, <2>1
<1>3. UnderWay(e)' = UnderWay(e)
  <2>1. UnderWay(Peer(p))' = UnderWay(Peer(p))
    BY <1>0, <1>1, <1>2, InboxSame
  <2> QED
    BY <1>0, <2>1
<1>4. Waiting(e)' = Waiting(e)
  BY <1>0, <1>1, WaitingSame
<1> QED
  BY <1>1, <1>2, <1>3, <1>4, DropsFront

\* WriteFails, Eof, Kill
LEMMA ClosesMaps ==
    ASSUME LineInv, NEW e \in Ends, WriteFails(e) \/ Eof(e) \/ Kill(e)
    PROVE  Pipe!Next
PROOF
<1> DEFINE p == Peer(e)
<1>0. /\ Types /\ Ordering /\ Numbered /\ Writing(e) /\ Buffered(e)
      /\ p \in Ends /\ p # e /\ Peer(p) = e
      /\ batch \in [Ends -> Seq(1 .. MaxSent)]
  BY Peers DEF LineInv, Ordering, Types
<1>1. PICK cs : Closes(e, cs)
  BY <1>0, ClosingSteps
<1>2. /\ fd[e] # 0 /\ fd'[e] = 0 /\ fd'[p] = fd[p] /\ buffer'[p] = buffer[p]
      /\ \/ backlog' = backlog /\ cs = {fd[e]}
         \/ backlog' = <<>> /\ e = "daemon"
      /\ \A c \in Connections :
           /\ wire'[c][e] = wire[c][e]
           /\ wire'[c][p] = IF c \in cs THEN <<>> ELSE wire[c][p]
  <2>1. /\ fd[e] # 0 /\ fd'[e] = 0 /\ fd'[Peer(e)] = fd[Peer(e)]
        /\ buffer'[Peer(e)] = buffer[Peer(e)]
    BY <1>0, <1>1, ClosesEffect
  <2>2. \/ backlog' = backlog /\ cs = {fd[e]}
        \/ backlog' = <<>> /\ e = "daemon"
    BY <1>1, Zenon DEF Closes
  <2>3. Hangup(e, cs)
    BY <1>1 DEF Closes
  <2>4. /\ open' \in [Connections -> SUBSET Ends]
        /\ wire' \in [Connections -> [Ends -> Seq(Part)]]
        /\ \A c \in Connections :
             /\ open'[c] = IF c \in cs THEN open[c] \ {e} ELSE open[c]
             /\ wire'[c][e] = wire[c][e]
             /\ wire'[c][Peer(e)] = IF c \in cs THEN <<>> ELSE wire[c][Peer(e)]
    BY <1>0, <2>3, HangupEffect
  <2> QED
    BY <2>1, <2>2, <2>4
<1>3. UNCHANGED <<sent, delivered>> /\ batch'[p] = batch[p]
  BY <1>0, <1>1 DEF Closes
<1>4. \A i \in 1 .. Len(backlog) : backlog[i] \in Connections
  BY <1>0, StateTypes
<1>5. UnderWay(e)' = UnderWay(e)
  <2>1. fd[p] # 0 => wire'[fd[p]][Peer(p)] = wire[fd[p]][Peer(p)]
    BY <1>0, <1>2, StateTypes
  <2>2. ASSUME p = "daemon"
        PROVE  /\ backlog' = backlog
               /\ \A i \in 1 .. Len(backlog) :
                    wire'[backlog[i]]["session"] = wire[backlog[i]]["session"]
    <3>1. e = "session"
      BY <1>0, <2>2, Peers
    <3> QED
      BY <1>2, <1>4, <3>1
  <2>3. UnderWay(Peer(p))' = UnderWay(Peer(p))
    BY <1>0, <1>2, <1>3, <2>1, <2>2, InboxSame
  <2> QED
    BY <1>0, <2>3
<1>6. ASSUME backlog' = backlog PROVE Waiting(e)' = Waiting(e)
  <2>1. e = "daemon" => /\ backlog' = backlog
                        /\ \A i \in 1 .. Len(backlog) :
                             wire'[backlog[i]]["session"] = wire[backlog[i]]["session"]
    <3> SUFFICES ASSUME e = "daemon", NEW i \in 1 .. Len(backlog)
                 PROVE  wire'[backlog[i]]["session"] = wire[backlog[i]]["session"]
      BY <1>6
    <3>1. backlog[i] # fd["daemon"] /\ p = "session"
      BY <1>0, NotWaiting, Peers
    <3>2. backlog # <<>>
      <4>1. backlog = <<>> => Len(backlog) = 0
        BY EmptySeq
      <4> QED
        BY <4>1
    <3>3. backlog[i] \notin cs
      BY <1>2, <1>6, <3>1, <3>2
    <3> QED
      BY <1>2, <1>4, <3>1, <3>3
  <2> QED
    BY <1>0, <2>1, WaitingSame
<1>a. ASSUME batch'[e] = <<>>, backlog' = backlog PROVE Pipe!Next
  BY <1>2, <1>3, <1>5, <1>6, <1>a, DropsFront
<1> DEFINE u == UnderWay(p)
<1>7. u \in Seq(Number)
  BY PartTypes
<1>8. CASE WriteFails(e)
  <2>1. batch'[e] = <<>> /\ backlog' = backlog
    BY <1>0, <1>8 DEF WriteFails
  <2> QED
    BY <1>a, <2>1
<1>9. CASE Eof(e) /\ e = "session"
  <2>1. batch'[e] = <<>> /\ backlog' = backlog
    BY <1>0, <1>9 DEF Eof
  <2> QED
    BY <1>a, <2>1
<1>10. CASE Eof(e) /\ e = "daemon"
  <2>1. batch'[e] = batch[e] /\ backlog' = backlog /\ wire[fd[e]][p] = <<>>
    BY <1>0, <1>10 DEF Eof, Incoming
  <2>2. Current(e) = <<>>
    <3>1. buffer[e] \in Seq(Part) /\ NoNewline(buffer[e])
      BY <1>0, StateTypes DEF Buffered
    <3>2. Current(e) = Decoded(buffer[e] \o <<>>)
      BY <1>2, <2>1 DEF Current, Incoming
    <3>3. buffer[e] \o <<>> = buffer[e]
      BY <3>1, ConcatEmptySeq
    <3> QED
      BY <3>1, <3>2, <3>3, DecodedPartial
  <2>3. Current(e)' = <<>>
    BY <1>2 DEF Current
  <2>4. u' = u
    BY <1>6, <2>1, <2>2, <2>3, UnderWayIs
  <2>5. 0 \in 0 .. Len(u) /\ u' = SubSeq(u, 0 + 1, Len(u))
    <3> HIDE DEF u
    <3> QED
      BY <1>7, <2>4, DropAll
  <2> QED
    BY <1>2, <1>3, <1>5, <2>5, PipeDetaches
<1>11. CASE Kill(e) /\ e # "daemon"
  <2>1. batch'[e] = <<>> /\ backlog' = backlog
    BY <1>0, <1>11 DEF Kill
  <2> QED
    BY <1>a, <2>1
<1>12. CASE Kill(e) /\ e = "daemon"
  <2>1. batch'[e] = <<>> /\ backlog' = <<>>
    BY <1>0, <1>12 DEF Kill
  <2>2. Current(e)' = <<>>
    BY <1>2 DEF Current
  <2>3. Waiting(e)' = <<>>
    <3>1. Types'
      BY <1>0, <1>1, ClosesTypes
    <3>2. backlog' \in Seq(Connections) /\ wire' \in Pieces /\ Len(backlog') = 0 /\ Len(backlog') =< 2
      BY <2>1, <3>1, EmptySeq DEF Types, Pieces
    <3>3. Flat(backlog', wire') = <<>>
      BY <3>2, FlatIs
    <3> QED
      BY <1>12, <3>3, WaitingIs
  <2>4. u' = <<>>
    <3>1. <<>> \o <<>> = <<>>
      BY ConcatEmptySeq, EmptySeq
    <3>2. u' = (<<>> \o <<>>) \o <<>>
      BY <2>1, <2>2, <2>3, UnderWayIs
    <3> QED
      BY <3>1, <3>2
  <2>5. Len(u) \in 0 .. Len(u) /\ u' = SubSeq(u, Len(u) + 1, Len(u))
    <3> HIDE DEF u
    <3> QED
      BY <1>7, <2>4, DropAll
  <2> QED
    BY <1>2, <1>3, <1>5, <2>5, PipeDetaches
<1> QED
  BY <1>8, <1>9, <1>10, <1>11, <1>12, Peers

\* recv moves messages from the wire to the batch.
LEMMA RecvMaps ==
    ASSUME LineInv, NEW e \in Ends, Recv(e)
    PROVE  UNCHANGED Pipe!pipeVars
PROOF
<1> DEFINE p == Peer(e)
           c0 == fd[e]
<1>0. Types /\ Numbered /\ p \in Ends /\ p # e /\ Peer(p) = e
  BY Peers DEF LineInv, Ordering
<1>a. PICK w1 \in Seq(Part), w2 \in Seq(Part) : Receives(e, w1, w2)
  BY <1>0, RecvEffect
<1> DEFINE b == buffer[e]
           bytes == b \o w1
           k == Complete(bytes)
           r == Rest(bytes)
<1>1. /\ c0 \in Connections /\ wire[c0][p] = w1 \o w2 /\ bytes \in Seq(Part)
      /\ \A c \in Connections, x \in Ends :
           wire'[c][x] = IF c = c0 /\ x = p THEN w2 ELSE wire[c][x]
      /\ buffer'[e] = r /\ buffer'[p] = buffer[p]
      /\ batch'[e] = batch[e] \o Decoded(k) /\ batch'[p] = batch[p]
      /\ UNCHANGED <<conns, fd, open, backlog, out, sent, delivered>>
  BY <1>a DEF Receives
<1>2. c0 # 0 /\ b \in Seq(Part)
  BY <1>0, <1>1, ConnectionsAre, StateTypes
<1>3. k \in Seq(Part) /\ r \in Seq(Part) /\ k \o r = bytes
  BY <1>1, Split
<1>4. \A i \in 1 .. Len(backlog) : backlog[i] \in Connections
  BY <1>0, StateTypes
<1>5. UnderWay(e)' = UnderWay(e)
  <2>1. fd[p] # 0 => wire'[fd[p]][Peer(p)] = wire[fd[p]][Peer(p)]
    BY <1>0, <1>1, StateTypes
  <2>2. ASSUME p = "daemon"
        PROVE  /\ backlog' = backlog
               /\ \A i \in 1 .. Len(backlog) :
                    wire'[backlog[i]]["session"] = wire[backlog[i]]["session"]
    <3>1. p # "session" /\ "session" \in Ends
      BY <2>2, Peers
    <3> QED
      BY <1>1, <1>4, <3>1
  <2>3. UnderWay(Peer(p))' = UnderWay(Peer(p))
    BY <1>0, <1>1, <2>1, <2>2, InboxSame
  <2> QED
    BY <1>0, <2>3
<1>6. Waiting(e)' = Waiting(e)
  <2>1. ASSUME e = "daemon"
        PROVE  /\ backlog' = backlog
               /\ \A i \in 1 .. Len(backlog) :
                    wire'[backlog[i]]["session"] = wire[backlog[i]]["session"]
    <3>1. \A i \in 1 .. Len(backlog) : backlog[i] # c0
      BY <1>0, <2>1, NotWaiting
    <3>2. "session" \in Ends
      BY Peers
    <3> QED
      BY <1>1, <1>4, <3>1, <3>2
  <2> QED
    BY <1>0, <2>1, WaitingSame
<1>7. Current(e) = Decoded(b \o (w1 \o w2)) /\ Current(e)' = Decoded(r \o w2)
  <2>1. Current(e) = Decoded(b \o wire[c0][p])
    BY <1>2 DEF Current, Incoming
  <2>2. Current(e)' = Decoded(buffer'[e] \o wire'[fd'[e]][p])
    <3>1. fd'[e] # 0
      BY <1>1, <1>2
    <3> QED
      BY <3>1 DEF Current, Incoming
  <2>3. wire'[fd'[e]][p] = w2
    BY <1>0, <1>1
  <2> QED
    BY <1>1, <2>1, <2>2, <2>3
<1>8. Current(e) = Decoded(k) \o Current(e)'
  <2>1. b \in Seq(Part) /\ b \o w1 = k \o r /\ k \in Seq(Part) /\ r \in Seq(Part)
    BY <1>2, <1>3
  <2> HIDE DEF b, k, r
  <2>2. Associative(b, w1, w2)
    BY <2>1, Associates
  <2>3. Associative(k, r, w2)
    BY <2>1, Associates
  <2>4. b \o (w1 \o w2) = k \o (r \o w2)
    BY <2>1, <2>2, <2>3, Zenon DEF Associative
  <2> DEFINE t == r \o w2
  <2>5. t \in Seq(Part)
    BY <2>1, ConcatProperties
  <2>6. Current(e) = Decoded(k \o t) /\ Current(e)' = Decoded(t)
    BY <1>7, <2>4
  <2> HIDE DEF t
  <2>7. Decoded(k \o t) = Decoded(k) \o Decoded(t)
    BY <2>1, <2>5, DecodedConcat
  <2> QED
    BY <2>6, <2>7
<1>9. UnderWay(p)' = UnderWay(p)
  <2> DEFINE a == batch[e]
             d == Decoded(k)
             C == Current(e)'
             W == Waiting(e)
  <2>1. a \in Seq(Number) /\ d \in Seq(Number) /\ C \in Seq(Number)
    <3>1. a \in Seq(Number)
      BY PartTypes
    <3>2. d \in Seq(Number)
      <4> HIDE DEF k
      <4> QED
        BY <1>3, DecodedType DEF Number
    <3>3. r \o w2 \in Seq(Part)
      <4> HIDE DEF r
      <4> QED
        BY <1>3, ConcatProperties
    <3>4. C \in Seq(Number)
      <4> HIDE DEF r
      <4> QED
        BY <1>7, <3>3, DecodedType DEF Number
    <3> QED
      BY <3>1, <3>2, <3>4
  <2>2. UnderWay(p) = (a \o (d \o C)) \o W
    BY <1>8, UnderWayIs
  <2>3. UnderWay(p)' = ((a \o d) \o C) \o W
    BY <1>1, <1>6, UnderWayIs
  <2> HIDE DEF a, d, C, W
  <2>4. (a \o d) \o C = a \o (d \o C)
    BY <2>1, ConcatAssociative, SMTT(30)
  <2> QED
    BY <2>2, <2>3, <2>4
<1>10. \A x \in Ends : UnderWay(x)' = UnderWay(x)
  BY <1>5, <1>9, Peers
<1> QED
  BY <1>1, <1>10, PipeStutters

\* A piece reaches the reader's connection, or the newest one of the backlog.
LEMMA PieceArrives ==
    ASSUME LineInv, NEW e \in Ends, WritePiece(e)
    PROVE  UnderWay(e)' = IF EndsLine(Head(out[e])) THEN Append(UnderWay(e), sent[e] + 1)
                          ELSE UnderWay(e)
PROOF
<1> DEFINE p == Peer(e)
           c0 == fd[e]
           h == Head(out[e])
           n == sent[e] + 1
<1>0. /\ Types /\ Ordering /\ Numbered /\ p \in Ends /\ p # e /\ Peer(p) = e
      /\ \A c \in Connections : Opened(c)
  BY Peers DEF LineInv, Ordering
<1>1. /\ c0 \in Connections /\ p \in open[c0]
      /\ \A c \in Connections, x \in Ends :
           wire'[c][x] = IF c = c0 /\ x = e THEN Append(wire[c][x], h) ELSE wire[c][x]
      /\ wire' \in [Connections -> [Ends -> Seq(Part)]]
      /\ n \in Number /\ h \in Part /\ h.number = n
  BY <1>0, WriteEffect DEF Number
<1>2. UNCHANGED <<conns, fd, open, backlog, buffer, batch>>
  BY DEF WritePiece
<1>3. /\ conns \in Nat /\ c0 \in Nat /\ c0 # 0 /\ fd["daemon"] \in Nat /\ Len(backlog) \in Nat
      /\ \A i \in 1 .. Len(backlog) : backlog[i] \in Connections /\ backlog[i] \in Nat
  <2>1. conns \in Nat
    BY <1>0 DEF Types
  <2>2. c0 \in Nat /\ c0 # 0
    BY <1>1, ConnectionsAre
  <2>3. fd["daemon"] \in Nat /\ Len(backlog) \in Nat
    BY <1>0, StateTypes, Peers
  <2>4. \A i \in 1 .. Len(backlog) : backlog[i] \in Connections /\ backlog[i] \in Nat
    BY <1>0, StateTypes, ConnectionsAre
  <2> QED
    BY <2>1, <2>2, <2>3, <2>4
<1>4. e = "session" => c0 = conns
  BY <1>0, <1>3 DEF Numbered
<1> DEFINE b == batch[p]
           C == Current(p)
           W == Waiting(p)
<1>5. b \in Seq(Number) /\ C \in Seq(Number) /\ W \in Seq(Number) /\ b \o C \in Seq(Number)
  BY <1>0, PartTypes
<1>6. UnderWay(e) = (b \o C) \o W /\ UnderWay(e)' = (b \o Current(p)') \o Waiting(p)'
  BY <1>0, <1>2, UnderWayIs
<1>7. CASE fd[p] = c0
  <2>1. Current(p)' = IF EndsLine(h) THEN Append(C, n) ELSE C
    <3> DEFINE f == buffer[p]
               w == wire[c0][e]
    <3>1. f \in Seq(Part) /\ w \in Seq(Part)
      BY <1>0, <1>1, StateTypes
    <3>2. C = Decoded(f \o w)
      BY <1>0, <1>3, <1>7 DEF Current, Incoming
    <3>3. Current(p)' = Decoded(f \o Append(w, h))
      <4>1. Current(p)' = Decoded(buffer'[p] \o wire'[fd'[p]][Peer(p)])
        <5>1. fd'[p] # 0
          BY <1>2, <1>3, <1>7
        <5> QED
          BY <5>1 DEF Current, Incoming
      <4>2. wire'[fd'[p]][Peer(p)] = Append(w, h)
        BY <1>0, <1>1, <1>2, <1>7
      <4> QED
        BY <1>2, <4>1, <4>2
    <3> HIDE DEF f, w, h, n, C
    <3>4. f \o Append(w, h) = Append(f \o w, h) /\ f \o w \in Seq(Part)
      BY <1>1, <3>1, AppendJoin, ConcatProperties
    <3> DEFINE g == f \o w
    <3>5. g \in Seq(Part) /\ C = Decoded(g) /\ Current(p)' = Decoded(Append(g, h))
      BY <3>2, <3>3, <3>4
    <3> HIDE DEF g
    <3>6. Decoded(Append(g, h)) = IF EndsLine(h) THEN Append(Decoded(g), h.number) ELSE Decoded(g)
      BY <1>1, <3>5, DecodedAppend
    <3> QED
      BY <1>1, <3>5, <3>6, Zenon
  <2>2. W = <<>> /\ Waiting(p)' = <<>>
    <3>1. CASE p = "session"
      BY <3>1, WaitingIs
    <3>2. CASE p = "daemon"
      <4>1. e = "session"
        BY <1>0, <3>2, Peers
      <4>2. Len(backlog) = 0
        <5>1. \A i \in 1 .. Len(backlog) : fd["daemon"] < backlog[i] /\ backlog[i] =< conns
          BY <1>0 DEF Numbered
        <5>2. fd["daemon"] = conns
          BY <1>4, <1>7, <3>2, <4>1
        <5>3. \A i \in 1 .. Len(backlog) : FALSE
          BY <1>3, <5>1, <5>2
        <5>4. Len(backlog) # 0 => 1 \in 1 .. Len(backlog)
          BY <1>3
        <5> QED
          BY <5>3, <5>4
      <4>3. backlog \in Seq(Connections) /\ wire \in Pieces /\ wire' \in Pieces /\ Len(backlog) =< 2
        BY <1>0, <1>1, <4>2, SMTT(30) DEF Types, Pieces
      <4>a. Flat(backlog, wire) = <<>>
        BY <4>2, <4>3, FlatIs
      <4>b. Flat(backlog, wire') = <<>>
        BY <4>2, <4>3, FlatIs
      <4>4. Flat(backlog, wire) = <<>> /\ Flat(backlog, wire') = <<>>
        BY <4>a, <4>b
      <4> QED
        BY <1>2, <3>2, <4>4, WaitingIs
    <3> QED
      BY <1>0, <3>1, <3>2, Peers
  <2>3. UnderWay(e) = b \o C
    <3>1. UnderWay(e) = (b \o C) \o <<>>
      BY <1>6, <2>2
    <3> DEFINE a == b \o C
    <3>2. a \in Seq(Number)
      BY <1>5
    <3> HIDE DEF a
    <3>3. a \o <<>> = a
      BY <3>2, ConcatEmptySeq
    <3> QED
      BY <3>1, <3>3 DEF a
  <2> HIDE DEF h, n, b, C, W
  <2>4. CASE EndsLine(h)
    <3>1. UnderWay(e)' = (b \o Append(C, n)) \o <<>>
      BY <1>6, <2>1, <2>2, <2>4
    <3>2. b \o Append(C, n) = Append(b \o C, n)
      BY <1>1, <1>5, AppendJoin
    <3> DEFINE a == Append(b \o C, n)
    <3>3. a \in Seq(Number)
      BY <1>1, <1>5, AppendProperties
    <3> HIDE DEF a
    <3>4. a \o <<>> = a
      BY <3>3, ConcatEmptySeq
    <3>5. UnderWay(e)' = Append(UnderWay(e), n)
      BY <2>3, <3>1, <3>2, <3>4 DEF a
    <3> QED
      BY <2>4, <3>5 DEF h, n
  <2>5. CASE ~EndsLine(h)
    <3>1. UnderWay(e)' = UnderWay(e)
      BY <1>6, <2>1, <2>2, <2>5
    <3> QED
      BY <2>5, <3>1 DEF h, n
  <2> QED
    BY <2>4, <2>5
<1>8. CASE fd[p] # c0
  <2>1. p = "daemon" /\ e = "session" /\ Queued(c0)
    <3>1. Opened(c0)
      BY <1>0, <1>1
    <3> QED
      BY <1>0, <1>1, <1>8, <3>1, Peers DEF Opened
  <2>2. PICK i \in 1 .. Len(backlog) : backlog[i] = c0
    BY <2>1 DEF Queued
  <2> DEFINE m == Len(backlog)
  <2>3. /\ m \in Nat /\ i \in 1 .. m /\ m =< 2 /\ c0 = conns
        /\ \A j, l \in 1 .. m : j < l => backlog[j] < backlog[l]
        /\ \A j \in 1 .. m : backlog[j] =< conns /\ backlog[j] \in Nat
    BY <1>0, <1>3, <1>4, <2>1, <2>2 DEF Numbered
  <2>4. backlog[m] = c0 /\ \A j \in 1 .. m : j < m => backlog[j] # c0
    <3> HIDE DEF m, c0
    <3>1. m \in 1 .. m
      BY <2>3
    <3>2. ~(i < m)
      BY <1>3, <2>2, <2>3, <3>1
    <3>3. i = m
      BY <2>3, <3>2
    <3> QED
      BY <1>3, <2>2, <2>3, <3>1, <3>3
  <2>5. Flat(backlog, wire') = IF EndsLine(h) THEN Append(Flat(backlog, wire), h.number)
                               ELSE Flat(backlog, wire)
    <3>1. backlog \in Seq(Connections) /\ wire \in Pieces /\ wire' \in Pieces
      BY <1>0, <1>1 DEF Types, Pieces
    <3>2. m \in 1 .. 2
      <4> HIDE DEF m
      <4> QED
        BY <2>3
    <3>3. wire'[backlog[m]]["session"] = Append(wire[backlog[m]]["session"], h)
      BY <1>0, <1>1, <2>1, <2>4
    <3>4. \A j \in 1 .. m : j < m => wire'[backlog[j]]["session"] = wire[backlog[j]]["session"]
      <4> SUFFICES ASSUME NEW j \in 1 .. m, j < m
                   PROVE  wire'[backlog[j]]["session"] = wire[backlog[j]]["session"]
        OBVIOUS
      <4>1. backlog[j] \in Connections /\ backlog[j] # c0 /\ "session" \in Ends
        BY <1>3, <2>4, Peers
      <4> QED
        BY <1>1, <4>1
    <3> HIDE DEF h
    <3> QED
      BY <1>1, <3>1, <3>2, <3>3, <3>4, FlatWrite
  <2>6. Waiting(p)' = IF EndsLine(h) THEN Append(W, n) ELSE W
    <3>1. W = Flat(backlog, wire) /\ Waiting(p)' = Flat(backlog, wire')
      BY <1>2, <2>1, WaitingIs
    <3> HIDE DEF h, n, W, p
    <3> QED
      BY <1>1, <2>5, <3>1
  <2>7. Current(p)' = C
    <3>1. fd[p] # 0 => wire'[fd[p]][Peer(p)] = wire[fd[p]][Peer(p)]
      BY <1>0, <1>1, <1>8, StateTypes
    <3> QED
      BY <1>0, <1>2, <3>1, CurrentSame
  <2> DEFINE a == b \o C
  <2>8. UnderWay(e) = a \o W /\ UnderWay(e)' = a \o Waiting(p)' /\ a \in Seq(Number)
    BY <1>5, <1>6, <2>7
  <2> HIDE DEF a, h, n, W
  <2>9. a \o Append(W, n) = Append(a \o W, n)
    BY <1>1, <1>5, <2>8, AppendJoin, SMTT(30)
  <2>10. UnderWay(e)' = IF EndsLine(h) THEN Append(UnderWay(e), n) ELSE UnderWay(e)
    <3>1. CASE EndsLine(h)
      BY <2>6, <2>8, <2>9, <3>1
    <3>2. CASE ~EndsLine(h)
      BY <2>6, <2>8, <3>2
    <3> QED
      BY <3>1, <3>2
  <2> QED
    BY <2>10 DEF h, n
<1> QED
  BY <1>7, <1>8

LEMMA WriteMaps ==
    ASSUME LineInv, NEW e \in Ends, WritePiece(e)
    PROVE  Pipe!Next \/ UNCHANGED Pipe!pipeVars
PROOF
<1> DEFINE p == Peer(e)
           h == Head(out[e])
<1>0. Types /\ Ordering /\ p \in Ends /\ p # e /\ Peer(p) = e
  BY Peers DEF LineInv, Ordering
<1>1. /\ fd[e] \in Connections
      /\ \A c \in Connections, x \in Ends :
           wire'[c][x] = IF c = fd[e] /\ x = e THEN Append(wire[c][x], h) ELSE wire[c][x]
      /\ sent'[e] = (IF Len(out[e]) = 1 THEN sent[e] + 1 ELSE sent[e])
      /\ sent'[p] = sent[p] /\ sent' \in [Ends -> 0 .. MaxSent]
      /\ EndsLine(h) <=> Len(out[e]) = 1
  BY <1>0, WriteEffect
<1>2. UNCHANGED <<fd, backlog, buffer, batch, delivered>>
  BY DEF WritePiece
<1>3. UnderWay(p)' = UnderWay(p)
  <2>1. fd[e] # 0 => wire'[fd[e]][Peer(e)] = wire[fd[e]][Peer(e)]
    BY <1>0, <1>1
  <2>2. ASSUME e = "daemon"
        PROVE  /\ backlog' = backlog
               /\ \A i \in 1 .. Len(backlog) :
                    wire'[backlog[i]]["session"] = wire[backlog[i]]["session"]
    <3>1. e # "session" /\ "session" \in Ends
      BY <2>2, Peers
    <3>2. \A i \in 1 .. Len(backlog) : backlog[i] \in Connections
      BY <1>0, StateTypes
    <3> QED
      BY <1>1, <1>2, <3>1, <3>2
  <2> QED
    BY <1>0, <1>2, <2>1, <2>2, InboxSame
<1>4. UnderWay(e)' = IF EndsLine(h) THEN Append(UnderWay(e), sent[e] + 1) ELSE UnderWay(e)
  BY PieceArrives
<1>5. fd[e] # 0
  BY <1>1, ConnectionsAre
<1>6. CASE EndsLine(h)
  <2>1. sent'[e] = sent[e] + 1 /\ UnderWay(e)' = Append(UnderWay(e), sent[e] + 1)
    BY <1>1, <1>4, <1>6
  <2> QED
    BY <1>0, <1>1, <1>2, <1>3, <1>5, <2>1, PipeSends
<1>7. CASE ~EndsLine(h)
  <2>1. sent'[e] = sent[e] /\ UnderWay(e)' = UnderWay(e)
    BY <1>1, <1>4, <1>7
  <2>2. sent' = sent
    <3>1. sent \in [Ends -> 0 .. MaxSent] /\ \A x \in Ends : x = e \/ x = p
      BY <1>0, Peers DEF Types
    <3>2. \A x \in Ends : sent'[x] = sent[x]
      BY <1>1, <2>1, <3>1
    <3> QED
      BY <1>1, <3>1, <3>2
  <2>3. \A x \in Ends : UnderWay(x)' = UnderWay(x)
    BY <1>3, <2>1, Peers
  <2> QED
    BY <1>2, <2>2, <2>3, PipeStutters
<1> QED
  BY <1>6, <1>7

LEMMA StepMaps ==
    ASSUME LineInv, [Next]_vars
    PROVE  Pipe!Next \/ UNCHANGED Pipe!pipeVars
PROOF
<1>1. CASE Connect
  BY <1>1, ConnectMaps
<1>2. CASE Accept
  BY <1>2, AcceptMaps
<1>3. ASSUME NEW e \in Ends, WriteFails(e) \/ Eof(e) \/ Kill(e) PROVE Pipe!Next
  BY <1>3, ClosesMaps
<1>4. ASSUME NEW e \in Ends, Send(e) \/ WouldBlock(e) \/ Idle(e) PROVE UNCHANGED Pipe!pipeVars
  <2>1. UNCHANGED <<fd, backlog, wire, buffer, batch, sent, delivered>>
    BY <1>4 DEF Send, WouldBlock, Idle, vars
  <2> QED
    BY <2>1, QuietMaps
<1>5. ASSUME NEW e \in Ends, WritePiece(e) PROVE Pipe!Next \/ UNCHANGED Pipe!pipeVars
  BY <1>5, WriteMaps
<1>6. ASSUME NEW e \in Ends, Recv(e) PROVE UNCHANGED Pipe!pipeVars
  BY <1>6, RecvMaps
<1>7. ASSUME NEW e \in Ends, SendRefused(e) PROVE Pipe!Next
  BY <1>7, RefusedMaps
<1>8. ASSUME NEW e \in Ends, Handle(e) PROVE Pipe!Next
  BY <1>8, HandleMaps
<1>9. ASSUME UNCHANGED vars PROVE UNCHANGED Pipe!pipeVars
  <2>1. UNCHANGED <<fd, backlog, wire, buffer, batch, sent, delivered>>
    BY <1>9 DEF vars
  <2> QED
    BY <2>1, QuietMaps
<1> QED
  BY <1>1, <1>2, <1>3, <1>4, <1>5, <1>6, <1>7, <1>8, <1>9, Zenon DEF Next, Loop

LEMMA InitMaps ==
    ASSUME Init
    PROVE  Pipe!Init
PROOF
<1>0. LineInv /\ Types /\ "session" \in Ends /\ "daemon" \in Ends
      /\ Peer("session") = "daemon" /\ Peer("daemon") = "session"
  BY InitInv, Peers DEF LineInv
<1>1. /\ backlog = <<>> /\ sent = [e \in Ends |-> 0] /\ delivered = [e \in Ends |-> <<>>]
      /\ \A e \in Ends : fd[e] = 0 /\ batch[e] = <<>>
  BY DEF Init
<1>2. \A r \in Ends : Waiting(r) = <<>>
  <2>1. backlog \in Seq(Connections) /\ wire \in Pieces /\ Len(backlog) = 0 /\ Len(backlog) =< 2
    BY <1>0, <1>1, EmptySeq DEF Types, Pieces
  <2>2. Flat(backlog, wire) = <<>>
    BY <2>1, FlatIs
  <2> QED
    BY <2>2, WaitingIs, Peers
<1>3. \A r \in Ends : Current(r) = <<>>
  BY <1>1 DEF Current
<1>4. \A r \in Ends : UnderWay(Peer(r)) = <<>>
  <2> SUFFICES ASSUME NEW r \in Ends PROVE UnderWay(Peer(r)) = <<>>
    OBVIOUS
  <2>1. UnderWay(Peer(r)) = (<<>> \o <<>>) \o <<>>
    BY <1>1, <1>2, <1>3, UnderWayIs
  <2>2. <<>> \o <<>> = <<>>
    BY ConcatEmptySeq, EmptySeq
  <2> QED
    BY <2>1, <2>2
<1>5. \A x \in Ends : UnderWay(x) = <<>>
  BY <1>0, <1>4, Peers
<1>6. [e \in Ends |-> fd[e] # 0] = [e \in Ends |-> FALSE]
  BY <1>1
<1>7. [e \in Ends |-> UnderWay(e)] = [e \in Ends |-> <<>>]
  BY <1>5
<1> QED
  BY <1>1, <1>6, <1>7, PipeEnds DEF Pipe!Init

\* The byte stream keeps the promise of MessagePipe, short of its liveness: each
\* end handles the other's messages whole, in order and at most once, and misses
\* messages only with its own connection, the oldest first.
THEOREM KeepsPromise == Spec => Pipe!Safety
PROOF
<1>1. Init => Pipe!Init
  BY InitMaps
<1>2. LineInv /\ [Next]_vars => [Pipe!Next]_(Pipe!pipeVars)
  BY StepMaps
<1> QED
  BY <1>1, <1>2, Inductive, PTL DEF Spec, Pipe!Safety

\* What MessagePipeProofs shows of every pipe, said of this one.
PipeFacts == INSTANCE MessagePipeProofs
               WITH holds <- [e \in Ends |-> fd[e] # 0],
                    queue <- [e \in Ends |-> UnderWay(e)]

\* Whatever sendall leaves unfinished, a closed peer drops or a restart throws
\* away, neither end handles a message twice or before one sent earlier.
THEOREM HandledInOrder == Spec => []Pipe!InOrder
PROOF
<1>1. Pipe!Init => PipeFacts!Init
  BY Zenon DEF Pipe!Init, PipeFacts!Init, Pipe!Ends, PipeFacts!Ends
<1>2. [Pipe!Next]_(Pipe!pipeVars) => [PipeFacts!Next]_(PipeFacts!pipeVars)
  BY Zenon DEF Pipe!Next, Pipe!Ends, Pipe!Peer, Pipe!Attach, Pipe!Send, Pipe!Deliver, Pipe!Detach,
               Pipe!pipeVars, PipeFacts!Next, PipeFacts!Ends, PipeFacts!Peer, PipeFacts!Attach,
               PipeFacts!Send, PipeFacts!Deliver, PipeFacts!Detach, PipeFacts!pipeVars
<1>3. PipeFacts!InOrder => Pipe!InOrder
  BY Zenon DEF Pipe!InOrder, Pipe!Ends, Pipe!Increasing,
               PipeFacts!InOrder, PipeFacts!Ends, PipeFacts!Increasing
<1>4. PipeFacts!Safety => []PipeFacts!InOrder
  BY PipeFacts!PipeInOrder
<1> QED
  BY <1>1, <1>2, <1>3, <1>4, KeepsPromise, PTL DEF Pipe!Safety, PipeFacts!Safety
=============================================================================

-------------------------- MODULE PacketCodec_proofs --------------------------
(***************************************************************************)
(* Proofs about PacketCodec, for any base, any length of the buffer and    *)
(* any set of packets that fit into it: fromBytes undoes toBytes, packets  *)
(* arrive as they were sent as long as every recv returns one frame, cuts  *)
(* in the padding invent nothing and lose nothing until a recv reads on    *)
(* from there into the next frame, and fromBytes leaves its buffer only if *)
(* a recv began inside a frame.                                            *)
(***************************************************************************)
EXTENDS PacketCodec, SequenceLemmas

B == BASE
L == PACKET_BUFFER_LEN
Limit == B * B   \* what a word cannot hold

LEMMA Sizes ==
  /\ B \in Nat \ {0} /\ B > 1 /\ L \in Nat \ {0} /\ Limit \in Nat /\ L < Limit
  <1>1. B \in Nat \ {0} /\ B > 1
    BY SizesAssumption DEF B
  <1>2. Limit \in Int
    BY <1>1 DEF Limit
  <1>3. L \in 1 .. Limit - 1
    BY SizesAssumption DEF B, L, Limit
  <1> QED BY <1>1, <1>2, <1>3

-----------------------------------------------------------------------------
(* Division.                                                                *)

LEMMA DivMod ==
  ASSUME NEW m \in Nat, NEW d \in Nat \ {0}
  PROVE  /\ m % d \in 0 .. d - 1 /\ m \div d \in Nat
         /\ m = d * (m \div d) + (m % d)
         /\ m % d <= m
  <1>1. m % d \in 0 .. d - 1
    OBVIOUS
  <1>2. m \div d \in Int
    OBVIOUS
  <1>3. m = d * (m \div d) + (m % d)
    OBVIOUS
  <1> DEFINE q == m \div d
             r == m % d
  <1> HIDE DEF q, r
  <1>4. m = d * q + r /\ q \in Int /\ r \in 0 .. d - 1
    BY <1>1, <1>2, <1>3 DEF q, r
  <1>5. q >= 0
    <2> SUFFICES ASSUME q <= 0 - 1 PROVE FALSE
      BY <1>4
    <2>1. d * q <= d * (0 - 1)
      BY <1>4
    <2> QED BY <2>1, <1>4
  <1>6. d * q >= 0
    BY <1>4, <1>5
  <1>7. r <= m
    BY <1>4, <1>6
  <1>8. m \div d \in Nat
    BY <1>2, <1>5 DEF q
  <1>9. m % d <= m
    BY <1>7 DEF r
  <1> QED BY <1>1, <1>3, <1>8, <1>9

LEMMA DivModUnique ==
  ASSUME NEW d \in Nat \ {0}, NEW k \in Nat, NEW r \in 0 .. d - 1
  PROVE  (k * d + r) \div d = k /\ (k * d + r) % d = r
  OBVIOUS

(* A number of two digits has a quotient of one. *)
LEMMA DivSmall ==
  ASSUME NEW m \in Nat, NEW d \in Nat \ {0}, m < d * d
  PROVE  m \div d \in 0 .. d - 1
  <1>1. m \div d \in Nat /\ d * (m \div d) <= m /\ d * d \in Int /\ d * (m \div d) \in Int
    BY DivMod
  <1> SUFFICES ASSUME m \div d >= d PROVE FALSE
    BY <1>1
  <1>2. d * (m \div d) >= d * d
    BY <1>1
  <1> QED BY <1>1, <1>2

(* The word of a number: two bytes, from which it can be computed. *)
LEMMA WordOK ==
  ASSUME NEW n \in Nat, n < Limit
  PROVE  /\ WordBytes(n) \in Seq(Bytes) /\ Len(WordBytes(n)) = 2
         /\ WordBytes(n)[1] = n % B /\ WordBytes(n)[2] = n \div B
         /\ n % B \in Bytes /\ n \div B \in Bytes
         /\ (n % B) + B * (n \div B) = n
         /\ n % B <= n
  <1>1. B \in Nat \ {0}
    BY Sizes
  <1>2. n % B \in 0 .. B - 1 /\ n = B * (n \div B) + (n % B) /\ n \div B \in Nat /\ n % B <= n
    BY <1>1, DivMod
  <1>3. n \div B \in 0 .. B - 1
    BY <1>1, DivSmall DEF Limit
  <1>4. B * (n \div B) \in Int
    BY <1>1, <1>2
  <1> QED BY <1>1, <1>2, <1>3, <1>4 DEF WordBytes, Bytes, B

-----------------------------------------------------------------------------
(* A frame.                                                                 *)

Frames == {b \in Seq(Bytes) : Len(b) = L}

LEMMA PacketFacts ==
  ASSUME NEW p \in Packets
  PROVE  /\ p = [cmd |-> p.cmd, timestamp |-> p.timestamp, payload |-> p.payload, sender |-> p.sender]
         /\ p.cmd \in Bytes \ {0}
         /\ p.timestamp \in Nat /\ p.timestamp < Limit
         /\ p.payload \in Seq(Bytes \ {0}) /\ p.sender \in Seq(Bytes \ {0})
         /\ p.payload \in Seq(Bytes) /\ p.sender \in Seq(Bytes)
         /\ Len(p.payload) \in Nat /\ Len(p.sender) \in Nat
         /\ 7 + Len(p.payload) + Len(p.sender) <= L
  <1>1. p \in [cmd : Bytes \ {0}, timestamp : 0 .. Limit - 1, payload : Strings, sender : Strings]
    BY PacketsAssumption DEF B, Limit
  <1>2. Limit \in Int
    BY Sizes
  <1>3. Len(p.payload) \in Nat /\ Len(p.sender) \in Nat
    BY <1>1, LenProperties DEF Strings
  <1>4. 7 + Len(p.payload) + Len(p.sender) <= L
    <2>1. ContentLength(p) <= L
      BY PacketsAssumption DEF L
    <2>2. ContentLength(p) = 7 + Len(p.payload) + Len(p.sender)
      BY <1>3 DEF ContentLength, WORD
    <2> QED BY <2>1, <2>2
  <1>5. \A s \in Seq(Bytes \ {0}) : s \in Seq(Bytes)
    OBVIOUS
  <1> QED BY <1>1, <1>2, <1>3, <1>4, <1>5 DEF Strings

(* A concatenation of sequences of bytes. *)
Joins(a, s, t) ==
  /\ a \in Seq(Bytes) /\ Len(a) = Len(s) + Len(t)
  /\ \A j \in 1 .. Len(a) : a[j] = IF j <= Len(s) THEN s[j] ELSE t[j - Len(s)]

LEMMA Cat ==
  ASSUME NEW s \in Seq(Bytes), NEW t \in Seq(Bytes)
  PROVE  Joins(s \o t, s, t)
  BY DEF Joins

(* Where toBytes puts what. *)
LEMMA FrameLayout ==
  ASSUME NEW p \in Packets
  PROVE  LET T == toBytes(p)
             P == Len(p.payload)
             Q == Len(p.sender)
         IN  /\ T \in Frames
             /\ T[1] = p.cmd
             /\ T[2] = p.timestamp % B /\ T[3] = p.timestamp \div B
             /\ T[4] = P % B /\ T[5] = P \div B
             /\ \A j \in 1 .. P : T[5 + j] = p.payload[j]
             /\ T[5 + P + 1] = Q % B /\ T[5 + P + 2] = Q \div B
             /\ \A j \in 1 .. Q : T[7 + P + j] = p.sender[j]
             /\ \A j \in 7 + P + Q + 1 .. L : T[j] = 0
  <1> DEFINE P == Len(p.payload)
             Q == Len(p.sender)
             s1 == <<p.cmd>>
             s2 == WordBytes(p.timestamp)
             s3 == WordBytes(P)
             s4 == p.payload
             s5 == WordBytes(Q)
             s6 == p.sender
             s7 == Zeros(L - (7 + P + Q))
             a2 == s1 \o s2
             a3 == a2 \o s3
             a4 == a3 \o s4
             a5 == a4 \o s5
             a6 == a5 \o s6
             a7 == a6 \o s7
  <1>1. P \in Nat /\ Q \in Nat /\ 7 + P + Q <= L
    BY PacketFacts
  <1>a. L \in Nat /\ L < Limit /\ Limit \in Nat
    BY Sizes
  <1>b. /\ p.cmd \in Bytes /\ p.timestamp \in Nat /\ p.timestamp < Limit
        /\ s4 \in Seq(Bytes) /\ Len(s4) = P /\ s6 \in Seq(Bytes) /\ Len(s6) = Q
    BY PacketFacts
  <1>c. toBytes(p) = a7
    BY DEF toBytes, Content, ContentLength, WORD, L
  <1> HIDE DEF P, Q, s4, s6
  <1>2. P < Limit /\ Q < Limit /\ L - (7 + P + Q) \in Nat
    BY <1>1, <1>a
  <1>3. s1 \in Seq(Bytes) /\ Len(s1) = 1 /\ s1[1] = p.cmd
    BY <1>b
  <1>4. /\ s2 \in Seq(Bytes) /\ Len(s2) = 2
        /\ s2[1] = p.timestamp % B /\ s2[2] = p.timestamp \div B
    BY <1>b, WordOK
  <1>5. s3 \in Seq(Bytes) /\ Len(s3) = 2 /\ s3[1] = P % B /\ s3[2] = P \div B
    BY <1>1, <1>2, WordOK
  <1>6. s5 \in Seq(Bytes) /\ Len(s5) = 2 /\ s5[1] = Q % B /\ s5[2] = Q \div B
    BY <1>1, <1>2, WordOK
  <1>8. /\ s7 \in Seq(Bytes) /\ Len(s7) = L - (7 + P + Q)
        /\ \A j \in 1 .. L - (7 + P + Q) : s7[j] = 0
    <2> DEFINE n == L - (7 + P + Q)
    <2>1. n \in Nat /\ 0 \in Bytes
      BY <1>2, SizesAssumption DEF Bytes
    <2> HIDE DEF n
    <2>2. Zeros(n) \in Seq(Bytes) /\ Len(Zeros(n)) = n /\ \A j \in 1 .. n : Zeros(n)[j] = 0
      BY <2>1 DEF Zeros
    <2> QED BY <2>2 DEF n
  <1> HIDE DEF s1, s2, s3, s5, s7
  <1>10. Joins(a2, s1, s2)
    BY <1>3, <1>4, Cat
  <1> HIDE DEF a2
  <1>10a. a2 \in Seq(Bytes) /\ Len(a2) = 3
    BY <1>3, <1>4, <1>10 DEF Joins
  <1>10b. a2[1] = s1[1]
    BY <1>3, <1>4, <1>10, <1>10a DEF Joins
  <1>10c. a2[2] = s2[1] /\ a2[3] = s2[2]
    BY <1>3, <1>4, <1>10, <1>10a DEF Joins
  <1>11. Joins(a3, a2, s3)
    BY <1>5, <1>10a, Cat
  <1> HIDE DEF a3
  <1>11a. a3 \in Seq(Bytes) /\ Len(a3) = 5
    BY <1>5, <1>10a, <1>11 DEF Joins
  <1>11b. \A j \in 1 .. 3 : a3[j] = a2[j]
    BY <1>5, <1>10a, <1>11, <1>11a DEF Joins
  <1>11c. a3[4] = s3[1] /\ a3[5] = s3[2]
    BY <1>5, <1>10a, <1>11, <1>11a DEF Joins
  <1>12. Joins(a4, a3, s4)
    BY <1>1, <1>b, <1>11a, Cat
  <1> HIDE DEF a4
  <1>12a. a4 \in Seq(Bytes) /\ Len(a4) = 5 + P
    BY <1>1, <1>b, <1>11a, <1>12 DEF Joins
  <1>12b. \A j \in 1 .. 5 : a4[j] = a3[j]
    BY <1>1, <1>b, <1>11a, <1>12, <1>12a DEF Joins
  <1>12c. \A j \in 1 .. P : a4[5 + j] = s4[j]
    BY <1>1, <1>b, <1>11a, <1>12, <1>12a DEF Joins
  <1>13. Joins(a5, a4, s5)
    BY <1>1, <1>6, <1>12a, Cat
  <1> HIDE DEF a5
  <1>13a. a5 \in Seq(Bytes) /\ Len(a5) = 7 + P
    BY <1>1, <1>6, <1>12a, <1>13 DEF Joins
  <1>13b. \A j \in 1 .. 5 + P : a5[j] = a4[j]
    BY <1>1, <1>6, <1>12a, <1>13, <1>13a DEF Joins
  <1>13c. a5[5 + P + 1] = s5[1] /\ a5[5 + P + 2] = s5[2]
    BY <1>1, <1>6, <1>12a, <1>13, <1>13a DEF Joins
  <1>14. Joins(a6, a5, s6)
    BY <1>1, <1>b, <1>13a, Cat
  <1> HIDE DEF a6
  <1>14a. a6 \in Seq(Bytes) /\ Len(a6) = 7 + P + Q
    BY <1>1, <1>b, <1>13a, <1>14 DEF Joins
  <1>14b. \A j \in 1 .. 7 + P : a6[j] = a5[j]
    BY <1>1, <1>b, <1>13a, <1>14, <1>14a DEF Joins
  <1>14c. \A j \in 1 .. Q : a6[7 + P + j] = s6[j]
    BY <1>1, <1>b, <1>13a, <1>14, <1>14a DEF Joins
  <1>15. Joins(a7, a6, s7)
    BY <1>1, <1>a, <1>2, <1>8, <1>14a, Cat
  <1> HIDE DEF a7
  <1>15a. a7 \in Seq(Bytes) /\ Len(a7) = L
    BY <1>1, <1>a, <1>2, <1>8, <1>14a, <1>15 DEF Joins
  <1>15b. \A j \in 1 .. 7 + P + Q : a7[j] = a6[j]
    BY <1>1, <1>a, <1>2, <1>8, <1>14a, <1>15, <1>15a DEF Joins
  <1>15c. \A j \in 7 + P + Q + 1 .. L : a7[j] = 0
    BY <1>1, <1>a, <1>2, <1>8, <1>14a, <1>15, <1>15a DEF Joins
  <1>16. a7 \in Frames
    BY <1>15a DEF Frames
  <1>17. /\ a7[1] = p.cmd
         /\ a7[2] = p.timestamp % B /\ a7[3] = p.timestamp \div B
         /\ a7[4] = P % B /\ a7[5] = P \div B
    <2>1. \A j \in 1 .. 5 : a7[j] = a3[j]
      BY <1>1, <1>12b, <1>13b, <1>14b, <1>15b
    <2>2. a3[1] = s1[1] /\ a3[2] = s2[1] /\ a3[3] = s2[2]
      BY <1>10b, <1>10c, <1>11b
    <2> QED BY <2>1, <2>2, <1>3, <1>4, <1>5, <1>11c
  <1>18. \A j \in 1 .. P : a7[5 + j] = p.payload[j]
    BY <1>1, <1>12c, <1>13b, <1>14b, <1>15b DEF s4
  <1>19. a7[5 + P + 1] = Q % B /\ a7[5 + P + 2] = Q \div B
    BY <1>1, <1>6, <1>13c, <1>14b, <1>15b
  <1>20. \A j \in 1 .. Q : a7[7 + P + j] = p.sender[j]
    BY <1>1, <1>14c, <1>15b DEF s6
  <1> QED
    BY <1>c, <1>15c, <1>16, <1>17, <1>18, <1>19, <1>20 DEF P, Q

(* Two frames with the same bytes are the same. *)
LEMMA SameFrame ==
  ASSUME NEW a \in Frames, NEW b \in Frames, \A j \in 1 .. L : a[j] = b[j]
  PROVE  a = b
  BY DEF Frames

LEMMA FrameByte ==
  ASSUME NEW b \in Frames, NEW j \in 1 .. L
  PROVE  b[j] \in Bytes
  BY DEF Frames

(* What is cut short and filled up with zeros still fits: a word that is cut
   gives a shorter string, or none. *)
LEMMA CutFits ==
  ASSUME NEW p \in Packets, NEW n \in 1 .. L, NEW b \in Frames,
         \A j \in 1 .. L : b[j] = IF j <= n THEN toBytes(p)[j] ELSE 0
  PROVE  ~Overruns(b)
  <1> DEFINE T == toBytes(p)
             P == Len(p.payload)
             Q == Len(p.sender)
  <1>1. /\ T[4] = P % B /\ T[5] = P \div B
        /\ T[5 + P + 1] = Q % B /\ T[5 + P + 2] = Q \div B
    BY FrameLayout
  <1>2. P \in Nat /\ Q \in Nat /\ 7 + P + Q <= L
    BY PacketFacts
  <1>3. L \in Nat /\ Limit \in Nat /\ L < Limit /\ B \in Nat
    BY Sizes
  <1>4. \A j \in 1 .. L : b[j] = IF j <= n THEN T[j] ELSE 0
    OBVIOUS
  <1> HIDE DEF T, P, Q
  <1>5. P < Limit /\ Q < Limit
    BY <1>2, <1>3
  <1>6. (P % B) + B * (P \div B) = P /\ P % B <= P /\ P % B \in Nat
    BY <1>2, <1>5, WordOK DEF Bytes
  <1>7. (Q % B) + B * (Q \div B) = Q /\ Q % B <= Q /\ Q % B \in Nat
    BY <1>2, <1>5, WordOK DEF Bytes
  <1>8. B * 0 = 0
    BY <1>3
  <1> DEFINE pos == SenderSizePos(b)
             word == Word(b, pos)
  <1>9. pos = 5 + (b[4] + B * b[5])
    BY DEF SenderSizePos, PayloadPos, Word, WORD, B
  <1>10. word = b[pos + 1] + B * b[pos + 2]
    BY DEF Word, B
  <1>11. Overruns(b) <=> (pos + 2 > L \/ pos + 2 + word > L)
    BY DEF Overruns, WORD, L
  <1> HIDE DEF pos, word
  <1>12. CASE n >= 5
    <2>1. b[4] = P % B /\ b[5] = P \div B
      BY <1>1, <1>2, <1>3, <1>4, <1>12
    <2>2. pos = 5 + P
      BY <1>6, <1>9, <2>1
    <2>3. word \in 0 .. Q
      <3>1. word = b[6 + P] + B * b[7 + P]
        BY <1>2, <1>10, <2>2
      <3>2. CASE n >= 7 + P
        <4>1. b[6 + P] = Q % B /\ b[7 + P] = Q \div B
          BY <1>1, <1>2, <1>3, <1>4, <3>2
        <4> QED BY <1>2, <1>7, <3>1, <4>1
      <3>3. CASE n = 6 + P
        <4>1. b[6 + P] = Q % B /\ b[7 + P] = 0
          BY <1>1, <1>2, <1>3, <1>4, <3>3
        <4> QED BY <1>2, <1>7, <1>8, <3>1, <4>1
      <3>4. CASE n < 6 + P
        <4>1. b[6 + P] = 0 /\ b[7 + P] = 0
          BY <1>2, <1>3, <1>4, <3>4
        <4> QED BY <1>2, <1>8, <3>1, <4>1
      <3> QED BY <1>2, <3>2, <3>3, <3>4
    <2> QED BY <1>2, <1>3, <1>11, <2>2, <2>3
  <1>13. CASE n < 5
    <2>1. b[5] = 0 /\ (b[4] = P % B \/ b[4] = 0)
      BY <1>1, <1>2, <1>3, <1>4, <1>13
    <2>2. pos \in 5 .. 5 + P
      BY <1>2, <1>6, <1>8, <1>9, <2>1
    <2>3. b[pos + 1] = 0 /\ b[pos + 2] = 0
      BY <1>2, <1>3, <1>4, <1>13, <2>2
    <2>4. word = 0
      BY <1>8, <1>10, <2>3
    <2> QED BY <1>2, <1>3, <1>11, <2>2, <2>4
  <1> QED BY <1>12, <1>13

(* The string in bytes without a NUL is all of them. *)
LEMMA StringRead ==
  ASSUME NEW b \in Frames, NEW pos \in Nat, NEW s \in Seq(Bytes \ {0}),
         pos + Len(s) <= L, \A j \in 1 .. Len(s) : b[pos + j] = s[j]
  PROVE  CString(b, pos, Len(s)) = s
  <1> DEFINE N == Len(s)
             t == SubSeq(b, pos + 1, pos + N)
  <1>1. N \in Nat /\ \A j \in 1 .. N : s[j] # 0
    OBVIOUS
  <1>2. {j \in 1 .. N : b[pos + j] = 0} = {}
    BY <1>1
  <1>3. CString(b, pos, N) = t
    BY <1>2 DEF CString
  <1>4. b \in Seq(Bytes) /\ Len(b) = L /\ L \in Nat
    BY Sizes DEF Frames
  <1>5. t = s
    <2>1. t = [j \in 1 .. (pos + N) - (pos + 1) + 1 |-> b[j + (pos + 1) - 1]]
      BY <1>1, <1>4
    <2>2. (pos + N) - (pos + 1) + 1 = N
      BY <1>1
    <2>3. \A j \in 1 .. N : b[j + (pos + 1) - 1] = s[j]
      BY <1>1
    <2>4. s = [j \in 1 .. N |-> s[j]]
      OBVIOUS
    <2> QED BY <2>1, <2>2, <2>3, <2>4
  <1> QED BY <1>3, <1>5

(* fromBytes undoes toBytes, for every packet that fits into the buffer: the
   lengths of the two strings are found where they were put. *)
THEOREM RoundTrip ==
  \A p \in Packets : fromBytes(toBytes(p)) = p /\ ~Overruns(toBytes(p))
  <1> SUFFICES ASSUME NEW p \in Packets
               PROVE  fromBytes(toBytes(p)) = p /\ ~Overruns(toBytes(p))
    OBVIOUS
  <1> DEFINE T == toBytes(p)
             P == Len(p.payload)
             Q == Len(p.sender)
             ts == p.timestamp
             pl == p.payload
             sd == p.sender
  <1>1. /\ T \in Frames /\ T[1] = p.cmd
        /\ T[2] = p.timestamp % B /\ T[3] = p.timestamp \div B
        /\ T[4] = P % B /\ T[5] = P \div B
        /\ \A j \in 1 .. P : T[5 + j] = p.payload[j]
        /\ T[5 + P + 1] = Q % B /\ T[5 + P + 2] = Q \div B
        /\ \A j \in 1 .. Q : T[7 + P + j] = p.sender[j]
    BY FrameLayout
  <1>2. P \in Nat /\ Q \in Nat /\ 7 + P + Q <= L
    BY PacketFacts
  <1>3. L \in Nat /\ L > 0 /\ Limit \in Nat /\ L < Limit
    BY Sizes
  <1>4. ~Overruns(T)
    <2>1. L \in 1 .. L /\ \A j \in 1 .. L : T[j] = IF j <= L THEN T[j] ELSE 0
      BY <1>3
    <2> QED BY <1>1, <2>1, CutFits
  <1>a. /\ ts \in Nat /\ ts < Limit
        /\ pl \in Seq(Bytes \ {0}) /\ Len(pl) = P
        /\ sd \in Seq(Bytes \ {0}) /\ Len(sd) = Q
    BY PacketFacts
  <1>b. /\ T \in Frames /\ T[1] = p.cmd
        /\ T[2] = ts % B /\ T[3] = ts \div B
        /\ T[4] = P % B /\ T[5] = P \div B
        /\ \A j \in 1 .. P : T[5 + j] = pl[j]
        /\ T[5 + P + 1] = Q % B /\ T[5 + P + 2] = Q \div B
        /\ \A j \in 1 .. Q : T[7 + P + j] = sd[j]
    BY <1>1
  <1> HIDE DEF T, P, Q, ts, pl, sd
  <1>5. P < Limit /\ Q < Limit
    BY <1>2, <1>3
  <1>6. Word(T, 1) = ts
    BY <1>a, <1>b, WordOK DEF Word, B
  <1>7. Word(T, 3) = P
    BY <1>b, <1>2, <1>5, WordOK DEF Word, B
  <1>8. SenderSizePos(T) = 5 + P
    BY <1>7 DEF SenderSizePos, PayloadPos, WORD
  <1>9. Word(T, 5 + P) = Q
    BY <1>b, <1>2, <1>5, WordOK DEF Word, B
  <1>10. CString(T, 5, P) = pl
    <2>1. 5 \in Nat /\ 5 + Len(pl) <= L /\ \A j \in 1 .. Len(pl) : T[5 + j] = pl[j]
      BY <1>2, <1>3, <1>a, <1>b
    <2>2. CString(T, 5, Len(pl)) = pl
      BY <1>a, <1>b, <2>1, StringRead
    <2> QED BY <1>a, <2>2
  <1>11. CString(T, 5 + P + 2, Q) = sd
    <2> DEFINE pos == 5 + P + 2
    <2>1. pos \in Nat /\ pos = 7 + P
      BY <1>2
    <2> HIDE DEF pos
    <2>2. pos + Len(sd) <= L /\ \A j \in 1 .. Len(sd) : T[pos + j] = sd[j]
      BY <1>2, <1>3, <1>a, <1>b, <2>1
    <2>3. CString(T, pos, Len(sd)) = sd
      BY <1>a, <1>b, <2>1, <2>2, StringRead
    <2> QED BY <1>a, <2>3 DEF pos
  <1>12. fromBytes(T) = [cmd |-> p.cmd, timestamp |-> p.timestamp,
                         payload |-> p.payload, sender |-> p.sender]
    BY <1>b, <1>6, <1>7, <1>8, <1>9, <1>10, <1>11 DEF fromBytes, PayloadPos, WORD, ts, pl, sd
  <1> QED BY <1>4, <1>12, PacketFacts DEF T

-----------------------------------------------------------------------------
(* The stream.                                                              *)

(* What receivePacket may return. *)
Results == {fromBytes(b) : b \in Frames}

(* Every byte that is under way is the one that the numbers of its frame and
   of its place there lead to. *)
StreamOK ==
  \A x \in 1 .. Len(stream) :
    stream[x] = toBytes(sent[FrameOf(position + x)])[InFrame(position + x)]

Types ==
  /\ sent \in Seq(Packets)
  /\ stream \in Seq(Bytes)
  /\ received \in Seq(Results)
  /\ position \in Nat
  /\ position + Len(stream) = Len(sent) * L
  /\ reads \in 0 .. MaxReads
  /\ whole \in BOOLEAN /\ clean \in BOOLEAN /\ straddled \in BOOLEAN /\ overrun \in BOOLEAN

(* While every recv returns a frame, one has been read for every packet that
   was received, and it was that packet's. *)
FrameByFrame ==
  whole =>
    /\ ~overrun
    /\ position = Len(received) * L
    /\ Len(received) <= Len(sent)
    /\ \A j \in 1 .. Len(received) : received[j] = sent[j]

IInv == Types /\ StreamOK /\ FrameByFrame

-----------------------------------------------------------------------------
(* Where a byte lies.                                                       *)

LEMMA Product ==
  ASSUME NEW a \in Nat, NEW c \in Nat
  PROVE  /\ a * L \in Nat /\ c * L \in Nat /\ (a + 1) * L = a * L + L
         /\ a < c => a * L + L <= c * L
  <1>1. L \in Nat
    BY Sizes
  <1>2. a * L \in Nat /\ c * L \in Nat /\ (a + 1) * L = a * L + L
    BY <1>1
  <1>3. ASSUME a < c PROVE a * L + L <= c * L
    <2>1. PICK d \in Nat : c = (a + 1) + d
      <3>1. c - (a + 1) \in Nat /\ c = (a + 1) + (c - (a + 1))
        BY <1>3
      <3> QED BY <3>1
    <2>2. c * L = (a + 1) * L + d * L /\ d * L \in Nat
      BY <1>1, <2>1
    <2> QED BY <1>1, <1>2, <2>2
  <1> QED BY <1>2, <1>3

(* The bytes of the first k frames lie in these. *)
LEMMA ByteIndex ==
  ASSUME NEW k \in Nat, NEW y \in 1 .. k * L
  PROVE  FrameOf(y) \in 1 .. k /\ InFrame(y) \in 1 .. L
  <1>1. L \in Nat \ {0} /\ k * L \in Nat
    BY Sizes
  <1> DEFINE q == (y - 1) \div L
             r == (y - 1) % L
  <1>2. y \in Nat /\ y <= k * L /\ y - 1 \in Nat
    BY <1>1
  <1>3. r \in 0 .. L - 1 /\ q \in Nat /\ y - 1 = L * q + r
    BY <1>1, <1>2, DivMod
  <1>4. FrameOf(y) = 1 + q /\ InFrame(y) = 1 + r
    BY DEF FrameOf, InFrame, L
  <1> HIDE DEF q, r
  <1>5. q < k
    <2> SUFFICES ASSUME k <= q PROVE FALSE
      BY <1>3
    <2>1. PICK d \in Nat : q = k + d
      <3>1. q - k \in Nat /\ q = k + (q - k)
        BY <1>3
      <3> QED BY <3>1
    <2>2. L * q = k * L + d * L /\ d * L \in Nat
      BY <1>1, <2>1
    <2> QED BY <1>1, <1>2, <1>3, <2>2
  <1> QED BY <1>1, <1>3, <1>4, <1>5

(* Byte r of the frame behind the first k. *)
LEMMA ByteNumber ==
  ASSUME NEW k \in Nat, NEW r \in 1 .. L
  PROVE  FrameOf(k * L + r) = k + 1 /\ InFrame(k * L + r) = r
  <1>1. L \in Nat \ {0} /\ k * L \in Nat
    BY Sizes
  <1>2. r - 1 \in 0 .. L - 1 /\ (k * L + r) - 1 = k * L + (r - 1)
    BY <1>1
  <1>3. (k * L + (r - 1)) \div L = k /\ (k * L + (r - 1)) % L = r - 1
    BY <1>1, <1>2, DivModUnique
  <1>4. /\ FrameOf(k * L + r) = 1 + (((k * L + r) - 1) \div L)
        /\ InFrame(k * L + r) = 1 + (((k * L + r) - 1) % L)
    BY DEF FrameOf, InFrame, L
  <1> QED BY <1>1, <1>2, <1>3, <1>4

-----------------------------------------------------------------------------
(* What recv puts into the buffer.                                          *)

LEMMA MinFacts ==
  ASSUME NEW a \in Nat, NEW c \in Nat, NEW n \in 1 .. Min({a, c})
  PROVE  n \in Nat /\ 1 <= n /\ n <= a /\ n <= c
  <1>1. \E x \in {a, c} : \A y \in {a, c} : x <= y
    OBVIOUS
  <1>2. Min({a, c}) \in {a, c} /\ \A y \in {a, c} : Min({a, c}) <= y
    BY <1>1 DEF Min
  <1> QED BY <1>2

LEMMA BufferOK ==
  ASSUME stream \in Seq(Bytes), NEW n \in 1 .. L, n <= Len(stream)
  PROVE  /\ Buffer(n) \in Frames
         /\ \A j \in 1 .. L : Buffer(n)[j] = IF j <= n THEN stream[j] ELSE 0
  <1>1. L \in Nat /\ n \in Nat /\ L - n \in Nat /\ Len(stream) \in Nat /\ 0 \in Bytes
    BY Sizes, SizesAssumption DEF Bytes
  <1> DEFINE s == SubSeq(stream, 1, n)
             z == Zeros(L - n)
  <1>2. s \in Seq(Bytes) /\ Len(s) = n /\ \A j \in 1 .. n : s[j] = stream[j]
    BY <1>1
  <1>3. z \in Seq(Bytes) /\ Len(z) = L - n /\ \A j \in 1 .. L - n : z[j] = 0
    <2> DEFINE m == L - n
    <2>1. m \in Nat
      BY <1>1
    <2> HIDE DEF m
    <2>2. Zeros(m) \in Seq(Bytes) /\ Len(Zeros(m)) = m /\ \A j \in 1 .. m : Zeros(m)[j] = 0
      BY <1>1, <2>1 DEF Zeros
    <2> QED BY <2>2 DEF m
  <1>4. Joins(s \o z, s, z)
    BY <1>2, <1>3, Cat
  <1>5. Buffer(n) = s \o z
    BY DEF Buffer, L
  <1> HIDE DEF s, z
  <1>6. Buffer(n) \in Frames
    BY <1>1, <1>2, <1>3, <1>4, <1>5 DEF Joins, Frames
  <1>7. \A j \in 1 .. L : Buffer(n)[j] = IF j <= n THEN stream[j] ELSE 0
    BY <1>1, <1>2, <1>3, <1>4, <1>5 DEF Joins
  <1> QED BY <1>6, <1>7

-----------------------------------------------------------------------------
(* The invariant.                                                           *)

LEMMA FrameResult ==
  ASSUME NEW b \in Frames
  PROVE  fromBytes(b) \in Results /\ fromBytes(b).cmd \in Bytes
  <1>1. 1 \in 1 .. L
    BY Sizes
  <1> QED BY <1>1, FrameByte DEF Results, fromBytes

LEMMA IInvTypeOK == Types => TypeOK
  <1> SUFFICES ASSUME Types PROVE TypeOK
    OBVIOUS
  <1>1. \A j \in DOMAIN received : received[j].cmd \in Bytes
    <2> TAKE j \in DOMAIN received
    <2>1. received[j] \in Results
      BY DEF Types
    <2> QED BY <2>1, FrameResult DEF Results
  <1> QED BY <1>1 DEF TypeOK, Types, L

LEMMA InitIInv == Init => IInv
  <1> SUFFICES ASSUME Init PROVE IInv
    OBVIOUS
  <1>1. L \in Nat /\ 0 * L = 0
    BY Sizes
  <1>2. Types
    <2>1. sent \in Seq(Packets) /\ stream \in Seq(Bytes) /\ received \in Seq(Results)
      BY DEF Init
    <2>2. position \in Nat /\ position + Len(stream) = Len(sent) * L
      BY <1>1 DEF Init
    <2>3. reads \in 0 .. MaxReads
      BY SizesAssumption DEF Init
    <2> QED BY <2>1, <2>2, <2>3 DEF Init, Types
  <1>3. StreamOK
    BY DEF Init, StreamOK
  <1>4. FrameByFrame
    BY <1>1 DEF Init, FrameByFrame
  <1> QED BY <1>2, <1>3, <1>4 DEF IInv

(* A packet that is sent puts its frame behind the bytes under way. *)
LEMMA SendKeeps ==
  ASSUME IInv, NEW p \in Packets, SendPacket(p)
  PROVE  IInv'
  <1> DEFINE T == toBytes(p)
             k == Len(sent)
             n == Len(stream)
  <1>1. /\ sent \in Seq(Packets) /\ stream \in Seq(Bytes) /\ received \in Seq(Results)
        /\ position \in Nat /\ position + n = k * L /\ k \in Nat /\ n \in Nat
    BY DEF IInv, Types
  <1>2. /\ sent' = Append(sent, p) /\ stream' = stream \o T
        /\ UNCHANGED <<received, position, reads, whole, clean, straddled, overrun>>
    BY DEF SendPacket
  <1>3. T \in Seq(Bytes) /\ Len(T) = L /\ L \in Nat
    BY FrameLayout, Sizes DEF Frames
  <1> HIDE DEF T
  <1>4. /\ sent' \in Seq(Packets) /\ Len(sent') = k + 1
        /\ \A j \in 1 .. k : sent'[j] = sent[j]
        /\ sent'[k + 1] = p
    BY <1>1, <1>2
  <1>5. /\ stream' \in Seq(Bytes) /\ Len(stream') = n + L
        /\ \A x \in 1 .. n + L : stream'[x] = IF x <= n THEN stream[x] ELSE T[x - n]
    <2>1. Joins(stream', stream, T)
      BY <1>1, <1>2, <1>3, Cat
    <2> QED BY <1>1, <1>3, <2>1 DEF Joins
  <1>6. k * L \in Nat /\ (k + 1) * L = k * L + L
    BY <1>1, Product
  <1>7. Types'
    <2>1. Len(sent') * L = k * L + L
      BY <1>4, <1>6
    <2> DEFINE kL == k * L
    <2>2. kL \in Nat /\ position + n = kL /\ Len(sent') * L = kL + L
      BY <1>1, <1>6, <2>1
    <2> DEFINE sL == Len(sent') * L
    <2> HIDE DEF kL, sL
    <2>a. /\ position \in Nat /\ n \in Nat /\ kL \in Nat /\ L \in Nat /\ position + n = kL
          /\ sL = kL + L /\ Len(stream') = n + L /\ position' = position
      BY <1>1, <1>2, <1>3, <1>5, <2>2 DEF sL
    <2>b. position' + Len(stream') = sL
      BY ONLY <2>a
    <2>3. position' + Len(stream') = Len(sent') * L
      BY <2>b DEF sL
    <2> QED BY <1>1, <1>2, <1>4, <1>5, <2>3 DEF IInv, Types
  <1>8. StreamOK'
    <2> SUFFICES ASSUME NEW x \in 1 .. n + L
                 PROVE  stream'[x] = toBytes(sent'[FrameOf(position + x)])[InFrame(position + x)]
      BY <1>2, <1>5 DEF StreamOK, FrameOf, InFrame
    <2>1. x \in Nat /\ 1 <= x /\ x <= n + L
      BY <1>1, <1>3
    <2>2. CASE x <= n
      <3>1. x \in 1 .. n /\ position + x \in 1 .. k * L
        BY <1>1, <1>6, <2>1, <2>2
      <3>2. FrameOf(position + x) \in 1 .. k
        BY <1>1, <3>1, ByteIndex
      <3>3. stream[x] = toBytes(sent[FrameOf(position + x)])[InFrame(position + x)]
        BY <3>1 DEF IInv, StreamOK
      <3>4. sent'[FrameOf(position + x)] = sent[FrameOf(position + x)]
        BY <1>4, <3>2
      <3> QED BY <1>5, <2>2, <3>3, <3>4
    <2>3. CASE n < x
      <3> DEFINE r == x - n
      <3>1. r \in 1 .. L /\ position + x = k * L + r
        <4> DEFINE kL == k * L
        <4>1. kL \in Nat /\ position + n = kL
          BY <1>1, <1>6
        <4> HIDE DEF kL
        <4>2. r \in 1 .. L /\ position + x = kL + r
          <5>1. position \in Nat /\ n \in Nat /\ L \in Nat
            BY <1>1, <1>3
          <5> QED BY ONLY <2>1, <2>3, <4>1, <5>1 DEF r
        <4> QED BY <4>2 DEF kL
      <3> HIDE DEF r
      <3>2. FrameOf(position + x) = k + 1 /\ InFrame(position + x) = r
        BY <1>1, <3>1, ByteNumber
      <3>3. stream'[x] = T[r]
        BY <1>1, <1>5, <2>1, <2>3 DEF r
      <3> QED BY <1>4, <3>2, <3>3 DEF T
    <2> QED BY <1>1, <2>1, <2>2, <2>3
  <1>9. FrameByFrame'
    <2> SUFFICES ASSUME whole
                 PROVE  /\ ~overrun /\ position = Len(received) * L
                        /\ Len(received) <= k + 1
                        /\ \A j \in 1 .. Len(received) : received[j] = sent'[j]
      BY <1>2, <1>4 DEF FrameByFrame
    <2>1. /\ ~overrun /\ position = Len(received) * L /\ Len(received) <= k
          /\ \A j \in 1 .. Len(received) : received[j] = sent[j]
      BY DEF IInv, FrameByFrame
    <2>2. Len(received) \in Nat
      BY <1>1
    <2> QED BY <1>1, <1>4, <2>1, <2>2
  <1> QED BY <1>7, <1>8, <1>9 DEF IInv

(* What a recv finds that begins at a frame's start: what that frame's packet
   was written as, up to the place where the recv stops. *)
LEMMA FrameStart ==
  ASSUME IInv, NEW k \in Nat, position = k * L, NEW n \in 1 .. L, n <= Len(stream)
  PROVE  /\ k + 1 \in 1 .. Len(sent) /\ sent[k + 1] \in Packets
         /\ Buffer(n) \in Frames
         /\ \A j \in 1 .. L : Buffer(n)[j] = IF j <= n THEN toBytes(sent[k + 1])[j] ELSE 0
  <1>1. /\ sent \in Seq(Packets) /\ stream \in Seq(Bytes) /\ Len(sent) \in Nat
        /\ Len(stream) \in Nat /\ position + Len(stream) = Len(sent) * L
    BY DEF IInv, Types
  <1>2. L \in Nat /\ n \in Nat /\ 1 <= n
    BY Sizes
  <1>3. /\ Buffer(n) \in Frames
        /\ \A j \in 1 .. L : Buffer(n)[j] = IF j <= n THEN stream[j] ELSE 0
    BY <1>1, BufferOK
  <1>4. \A j \in 1 .. n : stream[j] = toBytes(sent[k + 1])[j]
    <2> TAKE j \in 1 .. n
    <2>1. j \in 1 .. L /\ j \in 1 .. Len(stream)
      BY <1>1, <1>2
    <2>2. stream[j] = toBytes(sent[FrameOf(position + j)])[InFrame(position + j)]
      BY <2>1 DEF IInv, StreamOK
    <2>3. FrameOf(k * L + j) = k + 1 /\ InFrame(k * L + j) = j
      BY <2>1, ByteNumber
    <2> QED BY <2>2, <2>3
  <1>5. k + 1 \in 1 .. Len(sent)
    <2>1. position + 1 \in 1 .. Len(sent) * L /\ 1 \in 1 .. L
      BY <1>1, <1>2, Product
    <2>2. FrameOf(position + 1) \in 1 .. Len(sent)
      BY <1>1, <2>1, ByteIndex
    <2> QED BY <2>1, <2>2, ByteNumber
  <1>6. sent[k + 1] \in Packets
    BY <1>1, <1>5
  <1> QED BY <1>2, <1>3, <1>4, <1>5, <1>6

(* A recv takes n bytes from the front. *)
LEMMA ReceiveTypes ==
  ASSUME IInv, NEW n \in 1 .. Min({Len(stream), PACKET_BUFFER_LEN}), ReceivePacket(n)
  PROVE  Types' /\ StreamOK'
  <1> DEFINE m == Len(stream)
  <1>1. /\ sent \in Seq(Packets) /\ stream \in Seq(Bytes) /\ received \in Seq(Results)
        /\ position \in Nat /\ position + m = Len(sent) * L /\ m \in Nat /\ Len(sent) \in Nat
        /\ reads \in 0 .. MaxReads /\ whole \in BOOLEAN /\ clean \in BOOLEAN
    BY DEF IInv, Types
  <1>2. n \in Nat /\ 1 <= n /\ n <= m /\ n <= L
    BY <1>1, Sizes, MinFacts DEF L
  <1>3. /\ reads < MaxReads /\ reads' = reads + 1 /\ position' = position + n
        /\ stream' = SubSeq(stream, n + 1, m) /\ sent' = sent
        /\ overrun' = Overruns(Buffer(n))
        /\ received' = IF overrun' THEN received ELSE Append(received, fromBytes(Buffer(n)))
        /\ whole' = (whole /\ n = PACKET_BUFFER_LEN)
        /\ clean' = (clean /\ InFrame(position + n) >= ContentLength(sent[FrameOf(position + n)]))
        /\ straddled' = (straddled \/ (position % PACKET_BUFFER_LEN) + n > PACKET_BUFFER_LEN)
    BY DEF ReceivePacket
  <1>4. Len(sent) * L \in Nat /\ L \in Nat
    BY <1>1, Product, Sizes
  <1>5. /\ stream' \in Seq(Bytes) /\ Len(stream') = m - n
        /\ \A x \in 1 .. m - n : stream'[x] = stream[n + x]
    <2>1. \A x \in (n + 1) .. m : stream[x] \in Bytes
      BY <1>1, <1>2
    <2>2. /\ SubSeq(stream, n + 1, m) \in Seq(Bytes)
          /\ SubSeq(stream, n + 1, m) = [x \in 1 .. m - (n + 1) + 1 |-> stream[x + (n + 1) - 1]]
      BY <1>1, <1>2, <2>1
    <2>3. m - (n + 1) + 1 = m - n /\ \A x \in 1 .. m - n : x + (n + 1) - 1 = n + x
      BY <1>1, <1>2
    <2> HIDE DEF m
    <2>4. m - n \in Nat
      BY <1>1, <1>2
    <2> QED BY <1>3, <2>2, <2>3, <2>4
  <1>6. Buffer(n) \in Frames
    BY <1>1, <1>2, <1>4, BufferOK
  <1>7. received' \in Seq(Results)
    BY <1>1, <1>3, <1>6, FrameResult
  <1>8. reads' \in 0 .. MaxReads
    BY <1>1, <1>3, SizesAssumption
  <1>9. overrun' \in BOOLEAN /\ whole' \in BOOLEAN /\ clean' \in BOOLEAN /\ straddled' \in BOOLEAN
    <2>a. Overruns(Buffer(n)) \in BOOLEAN
      BY DEF Overruns
    <2>1. overrun' \in BOOLEAN
      BY <1>3, <2>a
    <2>2. whole' \in BOOLEAN
      BY <1>3
    <2>3. clean' \in BOOLEAN
      BY <1>3
    <2>4. straddled' \in BOOLEAN
      BY <1>3
    <2> QED BY <2>1, <2>2, <2>3, <2>4
  <1>10. position' \in Nat /\ position' + Len(stream') = Len(sent') * L
    <2> DEFINE kL == Len(sent) * L
    <2>1. kL \in Nat /\ position \in Nat /\ m \in Nat /\ position + m = kL
      BY <1>1, <1>4
    <2>2. position' = position + n /\ Len(stream') = m - n /\ Len(sent') * L = kL
      BY <1>3, <1>5
    <2> HIDE DEF kL, m
    <2>3. position' \in Nat /\ position' + Len(stream') = kL
      BY <1>2, <2>1, <2>2
    <2> QED BY <2>2, <2>3
  <1>11. Types'
    BY <1>1, <1>3, <1>5, <1>7, <1>8, <1>9, <1>10 DEF Types
  <1>12. StreamOK'
    <2> SUFFICES ASSUME NEW x \in 1 .. m - n
                 PROVE  stream'[x] = toBytes(sent[FrameOf(position' + x)])[InFrame(position' + x)]
      BY <1>3, <1>5 DEF StreamOK, FrameOf, InFrame
    <2>1. n + x \in 1 .. m /\ position + (n + x) = position' + x
      BY <1>1, <1>2, <1>3
    <2>2. stream[n + x] = toBytes(sent[FrameOf(position + (n + x))])[InFrame(position + (n + x))]
      BY <2>1 DEF IInv, StreamOK
    <2> QED BY <1>5, <2>1, <2>2
  <1> QED BY <1>11, <1>12

(* A whole frame that was read is the next packet. *)
LEMMA ReceiveInOrder ==
  ASSUME IInv, NEW n \in 1 .. Min({Len(stream), PACKET_BUFFER_LEN}), ReceivePacket(n)
  PROVE  FrameByFrame'
  <1> DEFINE k == Len(received)
  <1>1. /\ sent \in Seq(Packets) /\ received \in Seq(Results) /\ k \in Nat
        /\ Len(sent) \in Nat /\ Len(stream) \in Nat
    BY DEF IInv, Types
  <1>2. /\ overrun' = Overruns(Buffer(n)) /\ sent' = sent /\ position' = position + n
        /\ received' = IF overrun' THEN received ELSE Append(received, fromBytes(Buffer(n)))
        /\ whole' = (whole /\ n = L)
    BY DEF ReceivePacket, L
  <1> SUFFICES ASSUME whole, n = L
               PROVE  /\ ~overrun' /\ position' = Len(received') * L
                      /\ Len(received') <= Len(sent)
                      /\ \A j \in 1 .. Len(received') : received'[j] = sent[j]
    BY <1>2 DEF FrameByFrame
  <1>3. /\ position = k * L /\ k <= Len(sent)
        /\ \A j \in 1 .. k : received[j] = sent[j]
    BY DEF IInv, FrameByFrame
  <1>4. L \in Nat /\ L \in 1 .. L /\ L <= Len(stream)
    BY <1>1, Sizes, MinFacts DEF L
  <1>5. /\ k + 1 \in 1 .. Len(sent) /\ sent[k + 1] \in Packets
        /\ Buffer(L) \in Frames
        /\ \A j \in 1 .. L : Buffer(L)[j] = IF j <= L THEN toBytes(sent[k + 1])[j] ELSE 0
    BY <1>1, <1>3, <1>4, FrameStart
  <1>6. Buffer(L) = toBytes(sent[k + 1])
    <2>1. toBytes(sent[k + 1]) \in Frames
      BY <1>5, FrameLayout
    <2>2. \A j \in 1 .. L : Buffer(L)[j] = toBytes(sent[k + 1])[j]
      BY <1>4, <1>5
    <2> QED BY <1>5, <2>1, <2>2, SameFrame
  <1>7. fromBytes(Buffer(n)) = sent[k + 1] /\ ~Overruns(Buffer(n))
    BY <1>5, <1>6, RoundTrip
  <1>8. ~overrun' /\ received' = Append(received, sent[k + 1])
    BY <1>2, <1>7
  <1>9. /\ Len(received') = k + 1 /\ received'[k + 1] = sent[k + 1]
        /\ \A j \in 1 .. k : received'[j] = received[j]
    BY <1>1, <1>8
  <1>10. position' = (k + 1) * L
    BY <1>1, <1>2, <1>3, Product
  <1>11. \A j \in 1 .. k + 1 : received'[j] = sent[j]
    <2> TAKE j \in 1 .. k + 1
    <2>1. CASE j = k + 1
      BY <1>9, <2>1
    <2>2. CASE j \in 1 .. k
      BY <1>3, <1>9, <2>2
    <2> QED BY <1>1, <2>1, <2>2
  <1> QED BY <1>1, <1>5, <1>8, <1>9, <1>10, <1>11

LEMMA NextIInv == IInv /\ [Next]_vars => IInv'
  <1> SUFFICES ASSUME IInv, [Next]_vars PROVE IInv'
    OBVIOUS
  <1>1. ASSUME NEW p \in Packets, SendPacket(p) PROVE IInv'
    BY <1>1, SendKeeps
  <1>2. ASSUME NEW n \in 1 .. Min({Len(stream), PACKET_BUFFER_LEN}), ReceivePacket(n)
        PROVE  IInv'
    BY <1>2, ReceiveTypes, ReceiveInOrder DEF IInv
  <1>3. CASE UNCHANGED vars
    BY <1>3 DEF vars, IInv, Types, StreamOK, FrameByFrame
  <1> QED BY <1>1, <1>2, <1>3 DEF Next

LEMMA Inductive == Spec => []IInv
  <1> QED BY InitIInv, NextIInv, PTL DEF Spec

(* What is sent, under way and received is of the kinds that Packet and the
   buffer can hold, and every byte that was written is either read or under
   way (Packet.cpp, Connection.cpp:28, ClientConnection.cpp:28). *)
THEOREM TypeCorrect == Spec => []TypeOK
  <1>1. IInv => TypeOK
    BY IInvTypeOK DEF IInv
  <1> QED BY <1>1, Inductive, PTL

(* As long as every recv returns a frame, receivePacket returns the packets
   that were handed to sendPacket, in their order, and never leaves its
   buffer (Packet.cpp:46, 77; Connection.cpp:48). *)
THEOREM WholeFramesAreExact == Spec => []WholeIsExact
  <1>1. IInv => WholeIsExact
    <2> SUFFICES ASSUME IInv, whole
                 PROVE  ~overrun /\ received = SubSeq(sent, 1, Len(received))
      BY DEF WholeIsExact
    <2> DEFINE k == Len(received)
    <2>1. /\ ~overrun /\ k <= Len(sent) /\ k \in Nat /\ Len(sent) \in Nat
          /\ \A j \in 1 .. k : received[j] = sent[j]
          /\ sent \in Seq(Packets) /\ received \in Seq(Results)
      BY DEF IInv, FrameByFrame, Types
    <2>2. SubSeq(sent, 1, k) = [j \in 1 .. k |-> sent[j]]
      BY <2>1
    <2>3. received = [j \in 1 .. k |-> received[j]]
      BY <2>1
    <2> QED BY <2>1, <2>2, <2>3
  <1> QED BY <1>1, Inductive, PTL

(* fromBytes leaves its buffer only if the recv began inside a frame: at a
   frame's start the buffer holds a packet that fits or the beginning of one,
   with zeros behind it (Packet.cpp:77, ClientConnection.cpp:35). *)
THEOREM OverrunsOnlyInsideFrames == Spec => OverrunOnlyInsideFrame
  <1>1. ASSUME IInv, [Next]_vars, ~overrun, overrun' PROVE ~AtFrameStart
    <2> SUFFICES ASSUME AtFrameStart PROVE FALSE
      OBVIOUS
    <2>1. PICK n \in 1 .. Min({Len(stream), PACKET_BUFFER_LEN}) : ReceivePacket(n)
      BY <1>1 DEF Next, SendPacket, vars
    <2>2. /\ position \in Nat /\ Len(stream) \in Nat /\ L \in Nat \ {0}
      BY <1>1, Sizes DEF IInv, Types
    <2>3. n \in 1 .. L /\ n <= Len(stream)
      BY <2>2, MinFacts DEF L
    <2>4. PICK k \in Nat : position = k * L
      <3>1. position \div L \in Nat /\ position = L * (position \div L) + (position % L)
        BY <2>2, DivMod
      <3>2. position % L = 0
        BY DEF AtFrameStart, L
      <3>3. position = (position \div L) * L
        BY <2>2, <3>1, <3>2
      <3> QED BY <3>1, <3>3
    <2>5. /\ sent[k + 1] \in Packets /\ Buffer(n) \in Frames
          /\ \A j \in 1 .. L : Buffer(n)[j] = IF j <= n THEN toBytes(sent[k + 1])[j] ELSE 0
      BY <1>1, <2>3, <2>4, FrameStart
    <2>6. ~Overruns(Buffer(n))
      BY <2>3, <2>5, CutFits
    <2> QED BY <1>1, <2>1, <2>6 DEF ReceivePacket
  <1>2. IInv /\ [Next]_vars => [~overrun /\ overrun' => ~AtFrameStart]_vars
    BY <1>1
  <1> QED BY <1>2, Inductive, PTL DEF Spec, OverrunOnlyInsideFrame
-----------------------------------------------------------------------------
(* Cuts in the padding.                                                     *)

(* As long as every recv has stopped at a frame's end or in its padding, what
   comes next is a frame or padding; and every command that was received is the
   packet of a frame that has been begun, a later one of a later frame.  As long
   as no recv has read on from the padding into the next frame, the packet of
   every frame that has been begun was received. *)
AtPadding == position = 0 \/ InFrame(position) >= ContentLength(sent[FrameOf(position)])

Comes(origin) ==
  /\ \A j \in Commands : received[j] = sent[origin[j]] /\ (origin[j] - 1) * L < position
  /\ \A j, k \in Commands : j < k => origin[j] < origin[k]
  /\ ~straddled =>
       /\ ~overrun
       /\ \A i \in DOMAIN sent : (i - 1) * L < position => \E j \in Commands : origin[j] = i

CleanInv == clean => AtPadding /\ \E origin \in [Commands -> DOMAIN sent] : Comes(origin)

(* Where the bytes that were read end: in a frame that was sent. *)
LEMMA LastByte ==
  ASSUME Types, position # 0
  PROVE  \E k \in Nat : \E r \in 1 .. L :
           /\ position = k * L + r /\ k + 1 \in 1 .. Len(sent)
           /\ FrameOf(position) = k + 1 /\ InFrame(position) = r
  <1>1. /\ position \in Nat /\ Len(sent) \in Nat /\ Len(stream) \in Nat
        /\ position + Len(stream) = Len(sent) * L /\ L \in Nat \ {0}
    BY Sizes DEF Types
  <1>2. Len(sent) * L \in Nat
    BY <1>1
  <1>3. position \in 1 .. Len(sent) * L
    <2> DEFINE a == Len(sent) * L
    <2>1. a \in Nat /\ position + Len(stream) = a
      BY <1>1, <1>2
    <2> HIDE DEF a
    <2>2. position \in 1 .. a
      BY <1>1, <2>1
    <2> QED BY <2>2 DEF a
  <1>4. FrameOf(position) \in 1 .. Len(sent) /\ InFrame(position) \in 1 .. L
    BY <1>1, <1>3, ByteIndex
  <1> DEFINE q == (position - 1) \div L
             r == (position - 1) % L
  <1>5. r \in 0 .. L - 1 /\ q \in Nat /\ position - 1 = L * q + r
    <2>1. position - 1 \in Nat
      BY <1>1
    <2> QED BY <1>1, <2>1, DivMod
  <1>6. FrameOf(position) = 1 + q /\ InFrame(position) = 1 + r
    BY DEF FrameOf, InFrame, L
  <1> HIDE DEF q, r
  <1>7. L * q = q * L /\ q * L \in Nat
    BY <1>1, <1>5
  <1>8. position = q * L + (r + 1)
    BY <1>1, <1>5, <1>7
  <1> QED BY <1>1, <1>4, <1>5, <1>6, <1>8

(* A packet that is sent moves no frame. *)
LEMMA SendClean ==
  ASSUME IInv, CleanInv, NEW p \in Packets, SendPacket(p)
  PROVE  CleanInv'
  <1>1. /\ sent \in Seq(Packets) /\ sent' = Append(sent, p)
        /\ UNCHANGED <<received, position, clean, straddled, overrun>>
    BY DEF IInv, Types, SendPacket
  <1>2. /\ Len(sent) \in Nat /\ DOMAIN sent = 1 .. Len(sent)
        /\ DOMAIN sent \subseteq DOMAIN sent'
        /\ \A j \in DOMAIN sent : sent'[j] = sent[j]
        /\ \A j \in DOMAIN sent' : j \in DOMAIN sent \/ j = Len(sent) + 1
    BY <1>1
  <1> SUFFICES ASSUME clean
               PROVE  AtPadding' /\ \E origin \in [Commands -> DOMAIN sent'] : Comes(origin)'
    BY <1>1 DEF CleanInv, Commands
  <1>3. AtPadding /\ \E origin \in [Commands -> DOMAIN sent] : Comes(origin)
    BY DEF CleanInv
  <1>4. AtPadding'
    <2>1. CASE position = 0
      BY <1>1, <2>1 DEF AtPadding
    <2>2. CASE position # 0
      <3>1. FrameOf(position) \in DOMAIN sent
        BY <1>2, <2>2, LastByte DEF IInv
      <3> QED BY <1>1, <1>2, <1>3, <2>2, <3>1 DEF AtPadding, FrameOf, InFrame
    <2> QED BY <2>1, <2>2
  <1>5. PICK origin \in [Commands -> DOMAIN sent] : Comes(origin)
    BY <1>3
  <1>6. origin \in [Commands -> DOMAIN sent'] /\ Commands' = Commands
    BY <1>1, <1>2 DEF Commands
  <1>8. ASSUME NEW i \in DOMAIN sent', (i - 1) * L < position PROVE i \in DOMAIN sent
    <2>1. /\ position \in Nat /\ Len(stream) \in Nat /\ position + Len(stream) = Len(sent) * L
          /\ Len(sent) * L \in Nat
      BY <1>2, Product DEF IInv, Types
    <2>2. i # Len(sent) + 1
      <3> SUFFICES ASSUME i = Len(sent) + 1 PROVE FALSE
        OBVIOUS
      <3>1. i - 1 = Len(sent)
        BY <1>2
      <3>2. Len(sent) * L < position
        BY <1>8, <3>1
      <3> DEFINE a == Len(sent) * L
      <3> HIDE DEF a
      <3>3. a \in Nat /\ position + Len(stream) = a /\ a < position
        BY <2>1, <3>2 DEF a
      <3> QED BY <2>1, <3>3
    <2> QED BY <1>2, <2>2
  <1>7. Comes(origin)'
    BY <1>1, <1>2, <1>5, <1>6, <1>8 DEF Comes
  <1> QED BY <1>4, <1>6, <1>7

(* Behind its content a frame is padding. *)
LEMMA Padding ==
  ASSUME NEW p \in Packets
  PROVE  /\ ContentLength(p) \in Nat /\ p.cmd # 0 /\ toBytes(p) \in Frames
         /\ \A j \in 1 .. L : j > ContentLength(p) => toBytes(p)[j] = 0
  <1> DEFINE P == Len(p.payload)
             Q == Len(p.sender)
  <1>1. P \in Nat /\ Q \in Nat /\ p.cmd # 0
    BY PacketFacts
  <1>2. toBytes(p) \in Frames /\ \A j \in 7 + P + Q + 1 .. L : toBytes(p)[j] = 0
    BY FrameLayout
  <1>3. ContentLength(p) = 7 + P + Q
    BY <1>1 DEF ContentLength, WORD
  <1> HIDE DEF P, Q
  <1>4. \A j \in 1 .. L : j > 7 + P + Q => toBytes(p)[j] = 0
    BY <1>1, <1>2, Sizes
  <1> QED BY <1>1, <1>2, <1>3, <1>4

(* A recv that begins at a frame and does not stop in its content finds all of
   the packet. *)
LEMMA CoveredIsExact ==
  ASSUME NEW p \in Packets, NEW n \in 1 .. L, n >= ContentLength(p), NEW b \in Frames,
         \A j \in 1 .. L : b[j] = IF j <= n THEN toBytes(p)[j] ELSE 0
  PROVE  fromBytes(b) = p /\ ~Overruns(b) /\ p.cmd # 0
  <1>1. L \in Nat
    BY Sizes
  <1>2. /\ ContentLength(p) \in Nat /\ p.cmd # 0 /\ toBytes(p) \in Frames
        /\ \A j \in 1 .. L : j > ContentLength(p) => toBytes(p)[j] = 0
    BY Padding
  <1>3. \A j \in 1 .. L : b[j] = toBytes(p)[j]
    <2> TAKE j \in 1 .. L
    <2>1. CASE j <= n
      BY <2>1
    <2>2. CASE j > n
      BY <1>1, <1>2, <2>2
    <2> QED BY <1>1, <2>1, <2>2
  <1>4. b = toBytes(p)
    BY <1>2, <1>3, SameFrame
  <1> QED BY <1>2, <1>4, RoundTrip

(* A recv that begins in padding finds no command. *)
LEMMA PaddingIsNoCommand ==
  ASSUME IInv, AtPadding, NEW k \in Nat, NEW r \in 1 .. L - 1, position = k * L + r,
         NEW n \in 1 .. L, n <= Len(stream)
  PROVE  fromBytes(Buffer(n)).cmd = 0
  <1>1. /\ position \in Nat /\ L \in Nat \ {0} /\ stream \in Seq(Bytes) /\ Len(stream) \in Nat
        /\ k * L \in Nat /\ r \in 1 .. L /\ r + 1 \in 1 .. L /\ position # 0
        /\ sent \in Seq(Packets)
    BY Sizes, Product DEF IInv, Types
  <1>2. FrameOf(position) = k + 1 /\ InFrame(position) = r
    BY <1>1, ByteNumber
  <1>3. k + 1 \in 1 .. Len(sent) /\ sent[k + 1] \in Packets
    <2>1. FrameOf(position) \in 1 .. Len(sent)
      BY <1>1, LastByte DEF IInv
    <2> QED BY <1>1, <1>2, <2>1
  <1> DEFINE p == sent[k + 1]
  <1>4. r >= ContentLength(p)
    BY <1>1, <1>2 DEF AtPadding
  <1>5. toBytes(p)[r + 1] = 0
    <2>1. ContentLength(p) \in Nat /\ \A j \in 1 .. L : j > ContentLength(p) => toBytes(p)[j] = 0
      BY <1>3, Padding
    <2> QED BY <1>1, <1>4, <2>1
  <1>6. stream[1] = 0
    <2>1. 1 \in 1 .. Len(stream) /\ position + 1 = k * L + (r + 1)
      BY <1>1
    <2>2. stream[1] = toBytes(sent[FrameOf(position + 1)])[InFrame(position + 1)]
      BY <2>1 DEF IInv, StreamOK
    <2>3. FrameOf(k * L + (r + 1)) = k + 1 /\ InFrame(k * L + (r + 1)) = r + 1
      BY <1>1, ByteNumber
    <2> QED BY <1>5, <2>1, <2>2, <2>3
  <1>7. Buffer(n)[1] = stream[1]
    <2>1. \A j \in 1 .. L : Buffer(n)[j] = IF j <= n THEN stream[j] ELSE 0
      BY <1>1, BufferOK
    <2> QED BY <1>1, <2>1
  <1> QED BY <1>6, <1>7 DEF fromBytes

(* A recv that stays in the padding finds nothing but zeros. *)
LEMMA PaddingStaysInside ==
  ASSUME IInv, AtPadding, NEW k \in Nat, NEW r \in 1 .. L - 1, position = k * L + r,
         NEW n \in 1 .. L, n <= Len(stream), r + n <= L
  PROVE  ~Overruns(Buffer(n))
  <1>1. /\ position \in Nat /\ L \in Nat \ {0} /\ stream \in Seq(Bytes) /\ Len(stream) \in Nat
        /\ k * L \in Nat /\ r \in 1 .. L /\ position # 0 /\ sent \in Seq(Packets)
    BY Sizes, Product DEF IInv, Types
  <1>2. FrameOf(position) = k + 1 /\ InFrame(position) = r
    BY <1>1, ByteNumber
  <1>3. k + 1 \in 1 .. Len(sent) /\ sent[k + 1] \in Packets
    <2>1. FrameOf(position) \in 1 .. Len(sent)
      BY <1>1, LastByte DEF IInv
    <2> QED BY <1>1, <1>2, <2>1
  <1> DEFINE p == sent[k + 1]
  <1>4. /\ ContentLength(p) \in Nat /\ r >= ContentLength(p)
        /\ \A j \in 1 .. L : j > ContentLength(p) => toBytes(p)[j] = 0
    BY <1>1, <1>2, <1>3, Padding DEF AtPadding
  <1>5. \A j \in 1 .. n : stream[j] = 0
    <2> TAKE j \in 1 .. n
    <2>1. j \in 1 .. Len(stream) /\ r + j \in 1 .. L /\ r + j > ContentLength(p)
      BY <1>1, <1>4
    <2>2. position + j = k * L + (r + j)
      BY <1>1, <2>1
    <2>3. stream[j] = toBytes(sent[FrameOf(position + j)])[InFrame(position + j)]
      BY <2>1 DEF IInv, StreamOK
    <2>4. FrameOf(k * L + (r + j)) = k + 1 /\ InFrame(k * L + (r + j)) = r + j
      BY <2>1, ByteNumber
    <2>5. toBytes(p)[r + j] = 0
      BY <1>4, <2>1
    <2> QED BY <2>2, <2>3, <2>4, <2>5
  <1> DEFINE b == Buffer(n)
  <1>6. \A j \in 1 .. L : b[j] = 0
    <2>1. \A j \in 1 .. L : b[j] = IF j <= n THEN stream[j] ELSE 0
      BY <1>1, BufferOK
    <2> QED BY <1>1, <1>5, <2>1
  <1>7. L >= 7
    <2>1. /\ Len(p.payload) \in Nat /\ Len(p.sender) \in Nat
          /\ 7 + Len(p.payload) + Len(p.sender) <= L
      BY <1>3, PacketFacts
    <2> DEFINE P == Len(p.payload)
               Q == Len(p.sender)
    <2>2. P \in Nat /\ Q \in Nat /\ 7 + P + Q <= L
      BY <2>1
    <2> HIDE DEF P, Q
    <2> QED BY <1>1, <2>2
  <1> HIDE DEF b, p
  <1>8. b[4] = 0 /\ b[5] = 0 /\ b[6] = 0 /\ b[7] = 0
    BY <1>1, <1>6, <1>7
  <1>9. B * 0 = 0 /\ BASE = B
    BY Sizes DEF B
  <1>10. SenderSizePos(b) = 5 /\ Word(b, 5) = 0
    BY <1>8, <1>9 DEF SenderSizePos, PayloadPos, Word, WORD
  <1>11. ~Overruns(b)
    BY <1>1, <1>7, <1>10 DEF Overruns, WORD, L
  <1> QED BY <1>11 DEF b

(* Where in its frame the next byte lies. *)
LEMMA Offset ==
  ASSUME NEW k \in Nat, NEW r \in 0 .. L - 1, position = k * L + r
  PROVE  position % PACKET_BUFFER_LEN = r
  BY Sizes, DivModUnique DEF L

(* Which frames have been begun when x bytes of one have been read. *)
LEMMA Begun ==
  ASSUME NEW k \in Nat, NEW x \in 1 .. L, NEW i \in Nat \ {0}, (i - 1) * L < k * L + x
  PROVE  (i - 1) * L < k * L \/ i = k + 1
  <1> DEFINE a == i - 1
  <1>1. a \in Nat /\ i = a + 1 /\ k + 1 \in Nat /\ L \in Nat \ {0}
    BY Sizes
  <1> SUFFICES ASSUME a * L < k * L + x PROVE a * L < k * L \/ a = k
    BY <1>1
  <1> HIDE DEF a
  <1>2. /\ a * L \in Nat /\ k * L \in Nat
        /\ a < k => a * L + L <= k * L
        /\ k < a => k * L + L <= a * L
    BY <1>1, Product
  <1>3. a < k \/ a = k \/ k < a
    BY <1>1
  <1>4. CASE a < k
    BY <1>1, <1>2, <1>4
  <1>5. CASE k < a
    BY <1>1, <1>2, <1>5
  <1> QED BY <1>3, <1>4, <1>5

(* Further bytes that bring no command. *)
LEMMA StillComes ==
  ASSUME Types, NEW origin \in [Commands -> DOMAIN sent], Comes(origin), sent' = sent,
         position' \in Nat, position < position',
         Commands' = Commands, \A j \in Commands : received'[j] = received[j],
         ~straddled' =>
           /\ ~straddled /\ ~overrun'
           /\ \A i \in DOMAIN sent : (i - 1) * L < position' => (i - 1) * L < position
  PROVE  \E new \in [Commands' -> DOMAIN sent'] : Comes(new)'
  <1>1. position \in Nat /\ L \in Nat /\ DOMAIN sent \subseteq Nat
    BY Sizes DEF Types
  <1>2. ASSUME NEW j \in Commands
        PROVE  received'[j] = sent'[origin[j]] /\ (origin[j] - 1) * L < position'
    <2>1. received[j] = sent[origin[j]] /\ (origin[j] - 1) * L < position
      BY DEF Comes
    <2> DEFINE a == (origin[j] - 1) * L
    <2>2. a \in Int /\ a < position
      BY <1>1, <2>1
    <2> HIDE DEF a
    <2>3. a < position'
      BY <1>1, <2>2
    <2> QED BY <2>1, <2>3 DEF a
  <1>3. \A j, k \in Commands : j < k => origin[j] < origin[k]
    BY DEF Comes
  <1>5. ~straddled' =>
          /\ ~overrun'
          /\ \A i \in DOMAIN sent : (i - 1) * L < position' => \E j \in Commands : origin[j] = i
    BY DEF Comes
  <1>4. Comes(origin)'
    BY <1>2, <1>3, <1>5 DEF Comes
  <1> QED BY <1>4

(* What is received behind the commands that have an origin: a packet of a later
   frame, or no command. *)
LEMMA OneMoreCommand ==
  ASSUME Types, NEW origin \in [Commands -> DOMAIN sent], Comes(origin), sent' = sent,
         position' \in Nat, position < position', NEW o,
         received' = Append(received, o),
         o.cmd = 0 \/ \E k \in Nat : /\ position = k * L /\ k + 1 \in DOMAIN sent
                                     /\ o = sent[k + 1] /\ o.cmd # 0,
         ~straddled' =>
           /\ ~straddled /\ ~overrun'
           /\ \A i \in DOMAIN sent : (i - 1) * L < position' =>
                \/ (i - 1) * L < position
                \/ o.cmd # 0 /\ (i - 1) * L = position
  PROVE  \E new \in [Commands' -> DOMAIN sent'] : Comes(new)'
  <1> DEFINE m == Len(received) + 1
  <1>1. /\ m \in Nat /\ DOMAIN received = 1 .. m - 1 /\ DOMAIN received' = 1 .. m
        /\ received'[m] = o /\ \A j \in 1 .. m - 1 : received'[j] = received[j]
        /\ position \in Nat /\ L \in Nat \ {0} /\ Len(sent) \in Nat /\ DOMAIN sent = 1 .. Len(sent)
    <2>1. received \in Seq(Results) /\ sent \in Seq(Packets) /\ position \in Nat
      BY DEF Types
    <2> QED BY <2>1, Sizes
  <1> HIDE DEF m
  <1>2. /\ Commands \subseteq 1 .. m - 1
        /\ Commands' = Commands \cup (IF o.cmd = 0 THEN {} ELSE {m})
    BY <1>1 DEF Commands
  <1>3. \A j \in Commands : (origin[j] - 1) * L \in Int
    BY <1>1
  <1>4. CASE o.cmd = 0
    <2>1. Commands' = Commands /\ \A j \in Commands : received'[j] = received[j]
      BY <1>1, <1>2, <1>4
    <2>2. ~straddled' =>
            /\ ~straddled /\ ~overrun'
            /\ \A i \in DOMAIN sent : (i - 1) * L < position' => (i - 1) * L < position
      BY <1>4
    <2> QED BY <2>1, <2>2, StillComes
  <1>5. CASE o.cmd # 0
    <2>1. PICK k \in Nat : /\ position = k * L /\ k + 1 \in DOMAIN sent /\ o = sent[k + 1]
      BY <1>5
    <2>2. PICK new : new = [j \in Commands' |-> IF j = m THEN k + 1 ELSE origin[j]]
      OBVIOUS
    <2>3. Commands' = Commands \cup {m} /\ m \notin Commands
      BY <1>1, <1>2, <1>5
    <2>4. new \in [Commands' -> DOMAIN sent']
      BY <2>1, <2>3, <2>2
    <2>5. new[m] = k + 1 /\ \A j \in Commands : new[j] = origin[j]
      BY <2>3, <2>2
    <2>6. \A j \in Commands : origin[j] < k + 1
      <3> TAKE j \in Commands
      <3>1. origin[j] - 1 \in Nat /\ (origin[j] - 1) * L < k * L
        BY <1>1, <2>1 DEF Comes
      <3> DEFINE a == origin[j] - 1
      <3> HIDE DEF a
      <3>2. a \in Nat /\ a * L < k * L
        BY <3>1 DEF a
      <3>3. a < k
        <4> SUFFICES ASSUME k <= a PROVE FALSE
          BY <3>2
        <4>1. k = a \/ k < a
          BY <3>2
        <4>2. k < a => k * L + L <= a * L /\ k * L \in Nat /\ a * L \in Nat
          BY <3>2, Product
        <4> QED BY <1>1, <3>2, <4>1, <4>2
      <3> QED BY <1>1, <3>1, <3>3 DEF a
    <2>7. ASSUME NEW j \in Commands'
          PROVE  received'[j] = sent'[new[j]] /\ (new[j] - 1) * L < position'
      <3>1. CASE j = m
        <4>1. (new[j] - 1) * L = position
          BY <2>1, <2>5, <3>1
        <4> QED BY <1>1, <2>1, <2>5, <3>1, <4>1
      <3>2. CASE j # m
        <4>1. j \in Commands /\ new[j] = origin[j] /\ received'[j] = received[j]
          BY <1>1, <1>2, <2>3, <2>5, <2>7, <3>2
        <4>2. received[j] = sent[origin[j]] /\ (origin[j] - 1) * L < position
          BY <4>1 DEF Comes
        <4> DEFINE a == (origin[j] - 1) * L
        <4>3. a \in Int /\ a < position
          BY <1>3, <4>1, <4>2
        <4> HIDE DEF a
        <4>4. a < position'
          BY <1>1, <4>3
        <4> QED BY <4>1, <4>2, <4>4 DEF a
      <3> QED BY <3>1, <3>2
    <2>8. ASSUME NEW j \in Commands', NEW h \in Commands', j < h PROVE new[j] < new[h]
      <3>1. j \in Commands
        BY <1>1, <1>2, <2>3, <2>8
      <3>2. CASE h = m
        BY <2>5, <2>6, <3>1, <3>2
      <3>3. CASE h # m
        BY <2>3, <2>5, <2>8, <3>1, <3>3 DEF Comes
      <3> QED BY <3>2, <3>3
    <2>10. ASSUME ~straddled', NEW i \in DOMAIN sent, (i - 1) * L < position'
           PROVE  \E j \in Commands' : new[j] = i
      <3>1. CASE (i - 1) * L < position
        <4>1. PICK j \in Commands : origin[j] = i
          BY <2>10, <3>1 DEF Comes
        <4> QED BY <2>3, <2>5, <4>1
      <3>2. CASE (i - 1) * L = position
        <4>1. i = k + 1
          <5> DEFINE a == i - 1
          <5>1. a \in Nat /\ i = a + 1 /\ L \in Nat \ {0}
            BY <1>1
          <5> HIDE DEF a
          <5>2. a * L = k * L
            BY <2>1, <3>2 DEF a
          <5>3. /\ a < k => a * L + L <= k * L
                /\ k < a => k * L + L <= a * L
                /\ a * L \in Nat
            BY <5>1, Product
          <5> QED BY <5>1, <5>2, <5>3
        <4> QED BY <2>3, <2>5, <4>1
      <3> QED BY <2>10, <3>1, <3>2
    <2>9. Comes(new)'
      BY <2>7, <2>8, <2>10 DEF Comes
    <2> QED BY <2>4, <2>9
  <1> QED BY <1>4, <1>5

(* A recv that stops where the code's packets let it. *)
LEMMA ReceiveClean ==
  ASSUME IInv, CleanInv, NEW n \in 1 .. Min({Len(stream), PACKET_BUFFER_LEN}), ReceivePacket(n)
  PROVE  CleanInv'
  <1>1. /\ sent \in Seq(Packets) /\ stream \in Seq(Bytes) /\ position \in Nat
        /\ Len(sent) \in Nat /\ Len(stream) \in Nat /\ L \in Nat \ {0} /\ Types
    BY Sizes DEF IInv, Types
  <1>2. n \in 1 .. L /\ n <= Len(stream) /\ n \in Nat /\ 1 <= n
    BY <1>1, MinFacts DEF L
  <1>3. /\ sent' = sent /\ position' = position + n /\ overrun' = Overruns(Buffer(n))
        /\ received' = IF overrun' THEN received ELSE Append(received, fromBytes(Buffer(n)))
        /\ clean' = (clean /\ InFrame(position + n) >= ContentLength(sent[FrameOf(position + n)]))
        /\ straddled' = (straddled \/ (position % PACKET_BUFFER_LEN) + n > PACKET_BUFFER_LEN)
    BY DEF ReceivePacket
  <1> SUFFICES ASSUME clean, InFrame(position + n) >= ContentLength(sent[FrameOf(position + n)])
               PROVE  AtPadding' /\ \E origin \in [Commands' -> DOMAIN sent'] : Comes(origin)'
    BY <1>3 DEF CleanInv
  <1>4. AtPadding'
    BY <1>3 DEF AtPadding, InFrame, FrameOf
  <1>5. AtPadding
    BY DEF CleanInv
  <1>6. PICK origin \in [Commands -> DOMAIN sent] : Comes(origin)
    BY DEF CleanInv
  <1>7. position' \in Nat /\ position < position'
    BY <1>1, <1>2, <1>3
  <1> DEFINE o == fromBytes(Buffer(n))
  <1>8. /\ \/ o.cmd = 0
           \/ \E k \in Nat : position = k * L /\ k + 1 \in DOMAIN sent /\ o = sent[k + 1] /\ o.cmd # 0
        /\ ~straddled' =>
             /\ ~straddled /\ ~overrun'
             /\ \A i \in DOMAIN sent : (i - 1) * L < position' =>
                  (i - 1) * L < position \/ (o.cmd # 0 /\ (i - 1) * L = position)
    <2>1. CASE \E k \in Nat : position = k * L
      <3>1. PICK k \in Nat : position = k * L
        BY <2>1
      <3>2. /\ k + 1 \in 1 .. Len(sent) /\ sent[k + 1] \in Packets /\ Buffer(n) \in Frames
            /\ \A j \in 1 .. L : Buffer(n)[j] = IF j <= n THEN toBytes(sent[k + 1])[j] ELSE 0
        BY <1>2, <3>1, FrameStart
      <3>3. FrameOf(position + n) = k + 1 /\ InFrame(position + n) = n
        BY <1>2, <3>1, ByteNumber
      <3>4. n >= ContentLength(sent[k + 1])
        BY <3>3
      <3>5. o = sent[k + 1] /\ sent[k + 1].cmd # 0 /\ ~Overruns(Buffer(n))
        BY <1>2, <3>2, <3>4, CoveredIsExact
      <3>6. k + 1 \in DOMAIN sent
        BY <1>1, <3>2
      <3>7. \A i \in DOMAIN sent : (i - 1) * L < position' =>
              (i - 1) * L < position \/ (i - 1) * L = position
        <4> TAKE i \in DOMAIN sent
        <4>1. i \in Nat \ {0} /\ position' = k * L + n
          BY <1>1, <1>3, <3>1
        <4>2. i = k + 1 => i - 1 = k
          BY <4>1
        <4> QED BY <1>2, <3>1, <4>1, <4>2, Begun
      <3> HIDE DEF o
      <3> QED BY <1>3, <3>1, <3>5, <3>6, <3>7
    <2>2. CASE \A k \in Nat : position # k * L
      <3>1. position # 0
        <4>1. 0 * L = 0
          BY <1>1
        <4> QED BY <2>2, <4>1
      <3>2. PICK k \in Nat, r \in 1 .. L : position = k * L + r
        BY <1>1, <3>1, LastByte
      <3>3. r # L
        BY <2>2, <3>2, Product
      <3>4. r \in 1 .. L - 1
        BY <1>1, <3>3
      <3>5. o.cmd = 0
        BY <1>2, <1>5, <3>2, <3>4, PaddingIsNoCommand
      <3>6. ASSUME ~straddled'
            PROVE  /\ ~straddled /\ ~overrun'
                   /\ \A i \in DOMAIN sent : (i - 1) * L < position' => (i - 1) * L < position
        <4>1. r \in 0 .. L - 1 /\ position % PACKET_BUFFER_LEN = r
          BY <1>1, <3>2, <3>4, Offset
        <4>2. ~straddled /\ r + n <= L
          <5>1. ~straddled /\ ~((position % PACKET_BUFFER_LEN) + n > PACKET_BUFFER_LEN)
            BY <1>3, <3>6
          <5>2. ~(r + n > L)
            BY <4>1, <5>1 DEF L
          <5> QED BY <1>1, <1>2, <5>1, <5>2
        <4>3. ~overrun'
          BY <1>2, <1>3, <1>5, <3>2, <3>4, <4>2, PaddingStaysInside
        <4>4. ASSUME NEW i \in DOMAIN sent, (i - 1) * L < position' PROVE (i - 1) * L < position
          <5>1. k * L \in Nat /\ r + n \in 1 .. L /\ i \in Nat \ {0} /\ position' = k * L + (r + n)
            <6>1. k * L \in Nat /\ r + n \in 1 .. L /\ i \in Nat \ {0}
              BY <1>1, <1>2, <3>2, <4>2, Product
            <6>2. position' = (k * L + r) + n
              BY <1>3, <3>2
            <6> DEFINE c == k * L
            <6> HIDE DEF c
            <6>3. c \in Nat /\ position' = (c + r) + n
              BY <6>1, <6>2 DEF c
            <6>4. position' = c + (r + n)
              BY <1>2, <3>2, <6>3
            <6> QED BY <6>1, <6>4 DEF c
          <5>2. (i - 1) * L < k * L \/ i = k + 1
            BY <4>4, <5>1, Begun
          <5>3. i = k + 1 => (i - 1) * L = k * L
            BY <5>1
          <5> DEFINE a == (i - 1) * L
          <5>4. a \in Int /\ (a < k * L \/ a = k * L)
            BY <1>1, <5>1, <5>2, <5>3
          <5> HIDE DEF a
          <5>5. a < position
            BY <1>1, <3>2, <5>1, <5>4
          <5> QED BY <5>5 DEF a
        <4> QED BY <4>2, <4>3, <4>4
      <3> HIDE DEF o
      <3> QED BY <3>5, <3>6
    <2> QED BY <2>1, <2>2
  <1> HIDE DEF o
  <1>9. CASE overrun'
    <2>1. received' = received
      BY <1>3, <1>9
    <2>2. Commands' = Commands
      BY <2>1 DEF Commands
    <2>3. straddled'
      BY <1>8, <1>9
    <2> QED BY <1>1, <1>3, <1>4, <1>6, <1>7, <2>1, <2>2, <2>3, StillComes
  <1>10. CASE ~overrun'
    <2>1. received' = Append(received, o)
      BY <1>3, <1>10 DEF o
    <2> QED BY <1>1, <1>3, <1>4, <1>6, <1>7, <1>8, <2>1, OneMoreCommand
  <1> QED BY <1>9, <1>10

LEMMA CleanInductive == Spec => [](IInv /\ CleanInv)
  <1>1. Init => IInv /\ CleanInv
    <2> SUFFICES ASSUME Init PROVE CleanInv
      BY InitIInv
    <2>1. position = 0 /\ Commands = {} /\ DOMAIN sent = {} /\ ~overrun
      BY DEF Init, Commands
    <2>2. [j \in Commands |-> 0] \in [Commands -> DOMAIN sent] /\ Comes([j \in Commands |-> 0])
      BY <2>1 DEF Comes
    <2> QED BY <2>1, <2>2 DEF CleanInv, AtPadding
  <1>2. IInv /\ CleanInv /\ [Next]_vars => (IInv /\ CleanInv)'
    <2> SUFFICES ASSUME IInv, CleanInv, [Next]_vars PROVE CleanInv'
      BY NextIInv
    <2>1. CASE UNCHANGED vars
      <3>1. /\ sent' = sent /\ received' = received /\ position' = position /\ clean' = clean
            /\ straddled' = straddled /\ overrun' = overrun
        BY <2>1 DEF vars
      <3>2. AtPadding' <=> AtPadding
        BY <3>1 DEF AtPadding, InFrame, FrameOf
      <3>3. Commands' = Commands /\ \A origin : Comes(origin)' <=> Comes(origin)
        BY <3>1 DEF Comes, Commands
      <3> QED BY <3>1, <3>2, <3>3 DEF CleanInv
    <2> QED BY <2>1, SendClean, ReceiveClean DEF Next
  <1> QED BY <1>1, <1>2, PTL DEF Spec

(* As long as recv stops only at a frame's end or in its padding, a command that
   is received is one that was sent, a later one was sent later, and hence none
   is received twice: a frame that is cut there is whole, and what is left of it
   reads as no command, since it begins with a zero.  Nothing is lost, and
   fromBytes stays in its buffer, until a recv reads on from the padding into
   the next frame (Packet.cpp:46, Connection.cpp:48, ClientConnection.cpp:35). *)
THEOREM CleanCutsNeverInvent == Spec => []CleanCutsInventNothing
  <1>1. IInv /\ CleanInv => CleanCutsInventNothing
    BY DEF CleanInv, CleanCutsInventNothing, Comes, L
  <1> QED BY <1>1, CleanInductive, PTL
=============================================================================

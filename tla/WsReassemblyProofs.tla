-------------------------- MODULE WsReassemblyProofs --------------------------
(***************************************************************************)
(* Proofs about WsReassembly, for all streams of frames, cut into reads in *)
(* every way: its types; and, on a connection that carries JSON texts only *)
(* and has the byte 0x81 nowhere but in front of a frame, that the texts   *)
(* are returned whole and in order, and that the process dies only inside  *)
(* a header.                                                               *)
(***************************************************************************)
EXTENDS WsReassembly, SequenceTheorems, FiniteSetTheorems, WellFoundedInduction, TLAPS

\* A connection of JSON texts, with 0x81 only in front of a frame.
JsonStream ==
  \A i \in DOMAIN frames :
    /\ frames[i].op = Text /\ frames[i].body \in JsonText
    /\ \A j \in 2 .. Len(Encoded[i]) : Encoded[i][j] # Text

\* The texts of the first frames have been returned, and the ring buffer holds
\* what has arrived behind them.
Done == Len(parsed)
Returned == Done <= Len(frames) /\ \A i \in 1 .. Done : parsed[i] = frames[i].body
Buffered == End(Done) <= received /\ ring = SubSeq(Stream, End(Done) + 1, received)

\* Between two calls the next frame is incomplete, and JBXL_INCOMPLETE says
\* whether a part of it is in the ring buffer.
InCall == busy => state = "normal" /\ ~crashed
Between ==
  ~busy /\ ~crashed => /\ Done < Len(frames) => received < End(Done + 1)
                       /\ state = "incomplete" <=> received > End(Done)
Dead ==
  crashed => /\ Done < Len(frames)
             /\ received - End(Done) \in 1 .. 1 + frames[Done + 1].ext

JsonInv == Returned /\ Buffered /\ InCall /\ Between /\ Dead

IInv == TypeOK /\ (JsonStream => JsonInv)

-------------------------------------------------------------------------------
(* Recursive definitions: by the smallest counterexample. *)

LEMMA Smallest ==
  ASSUME NEW S, S \subseteq Nat, S # {}
  PROVE  \E m \in S : \A n \in S : m <= n
  <1>1. PICK m \in S : \A n \in S : <<n, m>> \notin OpToRel(<, Nat)
    BY NatLessThanWellFounded, WFMin, Zenon
  <1>2. OpToRel(<, Nat) = {ss \in Nat \X Nat : ss[1] < ss[2]}
    BY Zenon DEF OpToRel
  <1>3. ASSUME NEW n \in S PROVE m <= n
    <2>1. <<n, m>> \notin {ss \in Nat \X Nat : ss[1] < ss[2]}
      BY <1>1, <1>2, Zenon
    <2> QED BY <2>1
  <1> QED BY <1>3

-------------------------------------------------------------------------------
(* The stream is its frames, one behind the other. *)

\* The function that FlattenSeq defines.
Flat(ss, f) ==
  f = [i \in 1 .. Len(ss) |-> IF i = 1 THEN ss[i] ELSE f[i - 1] \o ss[i]]

LEMMA FlatExists ==
  ASSUME NEW T, NEW ss \in Seq(T)
  PROVE  \E f : Flat(ss, f)
  <1> DEFINE Bad == {n \in Nat : \E tt \in Seq(T) : Len(tt) = n /\ ~ \E f : Flat(tt, f)}
  <1>1. ASSUME Bad # {} PROVE FALSE
    <2>1. PICK m \in Bad : \A n \in Bad : m <= n
      BY <1>1, Smallest
    <2>2. PICK tt \in Seq(T) : Len(tt) = m /\ ~ \E f : Flat(tt, f)
      BY <2>1
    <2>3. m # 0
      <3>1. SUFFICES ASSUME m = 0 PROVE FALSE
        OBVIOUS
      <3>2. Flat(tt, [i \in 1 .. Len(tt) |-> tt[i]])
        BY <2>2, <3>1 DEF Flat
      <3> QED BY <2>2, <3>2
    <2> DEFINE uu == SubSeq(tt, 1, m - 1)
    <2>4. uu \in Seq(T) /\ Len(uu) = m - 1 /\ \A i \in 1 .. m - 1 : uu[i] = tt[i]
      BY <2>1, <2>2, <2>3, SubSeqProperties
    <2>5. m - 1 \in Nat /\ m - 1 \notin Bad
      BY <2>1, <2>3
    <2>6. PICK f : Flat(uu, f)
      BY <2>4, <2>5
    <2> DEFINE g == [i \in 1 .. m |-> IF i = m THEN (IF m = 1 THEN tt[m] ELSE f[m - 1] \o tt[m])
                                      ELSE f[i]]
    <2> HIDE DEF uu
    <2>7. \A i \in 1 .. m - 1 : f[i] = IF i = 1 THEN tt[i] ELSE f[i - 1] \o tt[i]
      BY <2>4, <2>6, <2>3 DEF Flat
    <2>8. ASSUME NEW i \in 1 .. m
          PROVE  g[i] = IF i = 1 THEN tt[i] ELSE g[i - 1] \o tt[i]
      <3>1. CASE i = m
        BY <3>1, <2>3
      <3>2. CASE i # m
        BY <3>2, <2>7
      <3> QED BY <3>1, <3>2
    <2>9. Flat(tt, g)
      <3>1. g = [i \in 1 .. m |-> g[i]]
        OBVIOUS
      <3> HIDE DEF g
      <3> QED BY <3>1, <2>8, <2>2 DEF Flat
    <2> QED BY <2>2, <2>9
  <1> QED BY <1>1, LenProperties

\* Two sequences with the same beginning are flattened alike so far.
LEMMA FlatUnique ==
  ASSUME NEW ss, NEW tt, NEW f, NEW g, Flat(ss, f), Flat(tt, g),
         Len(ss) \in Nat, Len(tt) \in Nat,
         NEW n \in Nat, n <= Len(ss), n <= Len(tt), \A i \in 1 .. n : ss[i] = tt[i]
  PROVE  \A i \in 1 .. n : f[i] = g[i]
  <1> DEFINE Bad == {i \in 1 .. n : f[i] # g[i]}
  <1>1. ASSUME Bad # {} PROVE FALSE
    <2>1. PICK m \in Bad : \A i \in Bad : m <= i
      <3>1. Bad \subseteq Nat
        OBVIOUS
      <3> HIDE DEF Bad
      <3> QED BY <1>1, <3>1, Smallest
    <2>2. m \in 1 .. Len(ss) /\ m \in 1 .. Len(tt)
      OBVIOUS
    <2>3. /\ f[m] = IF m = 1 THEN ss[m] ELSE f[m - 1] \o ss[m]
          /\ g[m] = IF m = 1 THEN tt[m] ELSE g[m - 1] \o tt[m]
      BY <2>2, Zenon DEF Flat
    <2>4. m # 1 => f[m - 1] = g[m - 1]
      <3>1. m # 1 => m - 1 \in 1 .. n /\ ~(m <= m - 1)
        OBVIOUS
      <3> QED BY <3>1, <2>1
    <2> QED BY <2>3, <2>4
  <1> QED BY <1>1

LEMMA FlattenIsFlat ==
  ASSUME NEW T, NEW ss \in Seq(T), ss # <<>>
  PROVE  \E f : Flat(ss, f) /\ FlattenSeq(ss) = f[Len(ss)]
  <1> DEFINE h == CHOOSE f : f = [i \in 1 .. Len(ss) |-> IF i = 1 THEN ss[i] ELSE f[i - 1] \o ss[i]]
  <1>1. Flat(ss, h)
    BY FlatExists, Zenon DEF Flat
  <1>2. Len(ss) # 0
    BY EmptySeq
  <1>3. FlattenSeq(ss) = h[Len(ss)]
    BY <1>2 DEF FlattenSeq
  <1> QED BY <1>1, <1>3

\* Flattening one sequence more appends it.
LEMMA FlattenFront ==
  ASSUME NEW T, NEW ss \in Seq(Seq(T)), NEW n \in 1 .. Len(ss)
  PROVE  FlattenSeq(SubSeq(ss, 1, n)) = FlattenSeq(SubSeq(ss, 1, n - 1)) \o ss[n]
  <1> DEFINE tt == SubSeq(ss, 1, n)
             uu == SubSeq(ss, 1, n - 1)
  <1> SUFFICES FlattenSeq(tt) = FlattenSeq(uu) \o ss[n]
    OBVIOUS
  <1>1. Len(ss) \in Nat /\ \A i \in 1 .. Len(ss) : ss[i] \in Seq(T)
    BY LenProperties
  <1>2. tt \in Seq(Seq(T)) /\ Len(tt) = n /\ \A i \in 1 .. n : tt[i] = ss[i]
    BY <1>1, SubSeqProperties
  <1>3. uu \in Seq(Seq(T)) /\ Len(uu) = n - 1 /\ \A i \in 1 .. n - 1 : uu[i] = ss[i]
    BY <1>1, SubSeqProperties
  <1> HIDE DEF tt, uu
  <1>4. tt # <<>>
    BY <1>2
  <1>5. PICK f : Flat(tt, f) /\ FlattenSeq(tt) = f[n]
    BY <1>2, <1>4, FlattenIsFlat
  <1>6. /\ f[n] = IF n = 1 THEN tt[n] ELSE f[n - 1] \o tt[n]
        /\ tt[n] = ss[n] /\ ss[n] \in Seq(T)
    <2>1. n \in 1 .. n
      BY <1>1
    <2> QED BY <1>1, <1>2, <1>5, <2>1 DEF Flat
  <1>7. CASE n = 1
    <2>1. uu = <<>>
      BY <1>3, <1>7, EmptySeq
    <2>2. FlattenSeq(uu) = <<>>
      BY <2>1 DEF FlattenSeq
    <2>3. ss[n] = <<>> \o ss[n]
      BY <1>6, ConcatEmptySeq
    <2> QED BY <1>5, <1>6, <1>7, <2>2, <2>3
  <1>8. CASE n # 1
    <2>0. n - 1 \in Nat /\ n - 1 # 0 /\ n - 1 \in 1 .. n - 1 /\ n - 1 <= n
      BY <1>1, <1>8
    <2>1. uu # <<>>
      BY <1>3, <2>0, EmptySeq
    <2>2. PICK g : Flat(uu, g) /\ FlattenSeq(uu) = g[n - 1]
      BY <1>3, <2>1, FlattenIsFlat
    <2>3. ASSUME NEW i \in 1 .. n - 1 PROVE tt[i] = uu[i]
      <3>1. i \in 1 .. n
        BY <1>1
      <3> QED BY <3>1, <1>2, <1>3
    <2>4. \A i \in 1 .. n - 1 : f[i] = g[i]
      <3> DEFINE k == n - 1
      <3>1. k \in Nat /\ k <= Len(tt) /\ k <= Len(uu) /\ \A i \in 1 .. k : tt[i] = uu[i]
        BY <1>1, <1>2, <1>3, <2>0, <2>3
      <3>2. Flat(tt, f) /\ Flat(uu, g) /\ Len(tt) \in Nat /\ Len(uu) \in Nat
        BY <1>1, <1>2, <1>3, <1>5, <2>0, <2>2
      <3> HIDE DEF k
      <3>3. \A i \in 1 .. k : f[i] = g[i]
        BY <3>1, <3>2, FlatUnique
      <3> QED BY <3>3 DEF k
    <2> QED BY <1>5, <1>6, <1>8, <2>0, <2>2, <2>4
  <1> QED BY <1>7, <1>8

\* The first k sequences, flattened.
Upto(ss, k) == FlattenSeq(SubSeq(ss, 1, k))

\* Where the frames end, and which bytes lie between.
LEMMA FlattenWhere ==
  ASSUME NEW T, NEW ss \in Seq(Seq(T))
  PROVE  /\ Upto(ss, 0) = <<>>
         /\ Upto(ss, Len(ss)) = FlattenSeq(ss)
         /\ \A k \in 0 .. Len(ss) : Upto(ss, k) \in Seq(T)
         /\ \A k \in 1 .. Len(ss) : Upto(ss, k) = Upto(ss, k - 1) \o ss[k]
  <1>1. Len(ss) \in Nat /\ \A i \in 1 .. Len(ss) : ss[i] \in Seq(T)
    BY LenProperties
  <1>2. Upto(ss, 0) = <<>>
    <2>1. SubSeq(ss, 1, 0) = <<>>
      BY SubSeqEmpty
    <2> QED BY <2>1 DEF Upto, FlattenSeq
  <1>3. Upto(ss, Len(ss)) = FlattenSeq(ss)
    BY SubSeqFull DEF Upto
  <1>4. \A k \in 1 .. Len(ss) : Upto(ss, k) = Upto(ss, k - 1) \o ss[k]
    BY FlattenFront DEF Upto
  <1>5. \A k \in 0 .. Len(ss) : Upto(ss, k) \in Seq(T)
    <2> DEFINE Bad == {k \in 0 .. Len(ss) : Upto(ss, k) \notin Seq(T)}
    <2>1. ASSUME Bad # {} PROVE FALSE
      <3>1. PICK m \in Bad : \A n \in Bad : m <= n
        <4>1. Bad \subseteq Nat
          BY <1>1
        <4> HIDE DEF Bad
        <4> QED BY <2>1, <4>1, Smallest
      <3>2. m # 0
        BY <1>2, <3>1, EmptySeq
      <3>3. m - 1 \in 0 .. Len(ss) /\ m \in 1 .. Len(ss) /\ ~(m <= m - 1)
        BY <1>1, <3>1, <3>2
      <3>4. Upto(ss, m - 1) \in Seq(T)
        BY <3>1, <3>3
      <3>5. Upto(ss, m) = Upto(ss, m - 1) \o ss[m] /\ ss[m] \in Seq(T)
        BY <1>1, <1>4, <3>3
      <3>6. Upto(ss, m) \in Seq(T)
        BY <3>4, <3>5, ConcatProperties
      <3> QED BY <3>1, <3>6
    <2> QED BY <2>1
  <1> QED BY <1>2, <1>3, <1>4, <1>5

\* What is flattened begins with what its first sequences are flattened to.
LEMMA FlattenPrefix ==
  ASSUME NEW T, NEW ss \in Seq(Seq(T))
  PROVE  \A n \in 0 .. Len(ss) : \A k \in 0 .. n :
               /\ Len(Upto(ss, k)) <= Len(Upto(ss, n))
               /\ \A j \in 1 .. Len(Upto(ss, k)) : Upto(ss, n)[j] = Upto(ss, k)[j]
  <1> DEFINE Like(n) == \A k \in 0 .. n :
                          /\ Len(Upto(ss, k)) <= Len(Upto(ss, n))
                          /\ \A j \in 1 .. Len(Upto(ss, k)) : Upto(ss, n)[j] = Upto(ss, k)[j]
             Bad == {n \in 0 .. Len(ss) : ~Like(n)}
  <1>1. Len(ss) \in Nat /\ \A i \in 1 .. Len(ss) : ss[i] \in Seq(T)
    BY LenProperties
  <1>2. /\ \A k \in 0 .. Len(ss) : Upto(ss, k) \in Seq(T)
        /\ \A k \in 1 .. Len(ss) : Upto(ss, k) = Upto(ss, k - 1) \o ss[k]
    BY FlattenWhere
  <1>3. \A k \in 0 .. Len(ss) : Len(Upto(ss, k)) \in Nat
    BY <1>2, LenProperties
  <1>4. ASSUME Bad # {} PROVE FALSE
    <2>1. PICK m \in Bad : \A n \in Bad : m <= n
      <3>1. Bad \subseteq Nat
        BY <1>1
      <3> HIDE DEF Bad
      <3> QED BY <1>4, <3>1, Smallest
    <2>2. m # 0
      <3>1. Like(0)
        BY <1>1, <1>3
      <3> HIDE DEF Like
      <3> QED BY <2>1, <3>1
    <2>3. m - 1 \in 0 .. Len(ss) /\ m \in 1 .. Len(ss) /\ ~(m <= m - 1)
      BY <1>1, <2>1, <2>2
    <2>4. Like(m - 1)
      <3> HIDE DEF Like
      <3> QED BY <2>1, <2>3
    <2>5. /\ Len(Upto(ss, m)) = Len(Upto(ss, m - 1)) + Len(ss[m])
          /\ \A j \in 1 .. Len(Upto(ss, m - 1)) : Upto(ss, m)[j] = Upto(ss, m - 1)[j]
          /\ Len(Upto(ss, m - 1)) \in Nat /\ Len(ss[m]) \in Nat
      <3>1. /\ Upto(ss, m) = Upto(ss, m - 1) \o ss[m]
            /\ Upto(ss, m - 1) \in Seq(T) /\ ss[m] \in Seq(T)
        BY <1>1, <1>2, <2>3
      <3>2. Len(Upto(ss, m - 1)) \in Nat /\ Len(ss[m]) \in Nat
        BY <3>1, LenProperties
      <3> QED BY <3>1, <3>2, ConcatProperties
    <2>6. ASSUME NEW k \in 0 .. m
          PROVE  /\ Len(Upto(ss, k)) <= Len(Upto(ss, m))
                 /\ \A j \in 1 .. Len(Upto(ss, k)) : Upto(ss, m)[j] = Upto(ss, k)[j]
      <3>1. CASE k = m
        BY <3>1, <1>3, <2>3
      <3>2. CASE k # m
        <4>1. k \in 0 .. m - 1 /\ Len(Upto(ss, k)) \in Nat
          BY <1>1, <1>3, <2>3, <3>2
        <4>2. /\ Len(Upto(ss, k)) <= Len(Upto(ss, m - 1))
              /\ \A j \in 1 .. Len(Upto(ss, k)) : Upto(ss, m - 1)[j] = Upto(ss, k)[j]
          BY <2>4, <4>1
        <4>3. \A j \in 1 .. Len(Upto(ss, k)) : j \in 1 .. Len(Upto(ss, m - 1))
          BY <2>5, <4>1, <4>2
        <4>4. \A j \in 1 .. Len(Upto(ss, k)) : Upto(ss, m)[j] = Upto(ss, k)[j]
          BY <2>5, <4>2, <4>3, Zenon
        <4>5. Len(Upto(ss, k)) <= Len(Upto(ss, m))
          <5>1. \A x, y, z, w : x = y + w /\ y \in Nat /\ w \in Nat /\ z \in Nat /\ z <= y => z <= x
            OBVIOUS
          <5> QED BY <2>5, <4>1, <4>2, <5>1, Zenon
        <4> QED BY <4>4, <4>5
      <3> QED BY <3>1, <3>2
    <2> QED BY <2>1, <2>6
  <1>5. \A n \in 0 .. Len(ss) : Like(n)
    <2> HIDE DEF Like
    <2> QED BY <1>4
  <1> QED BY <1>5

LEMMA CutOut ==
  ASSUME NEW T, NEW ss \in Seq(T), NEW tt \in Seq(T), NEW k \in Nat,
         k + Len(tt) <= Len(ss), \A j \in 1 .. Len(tt) : ss[k + j] = tt[j]
  PROVE  SubSeq(ss, k + 1, k + Len(tt)) = tt
  <1> DEFINE n == Len(tt)
             cut == SubSeq(ss, k + 1, k + n)
  <1>1. /\ Len(ss) \in Nat /\ \A i \in 1 .. Len(ss) : ss[i] \in T
        /\ n \in Nat
    BY LenProperties
  <1>2. /\ cut \in Seq(T)
        /\ Len(cut) = IF k + 1 <= k + n THEN k + n - (k + 1) + 1 ELSE 0
        /\ \A i \in 1 .. k + n - (k + 1) + 1 : cut[i] = ss[k + 1 + i - 1]
    BY <1>1, SubSeqProperties
  <1> HIDE DEF cut, n
  <1>3. Len(cut) = n /\ \A i \in 1 .. n : cut[i] = ss[k + i]
    BY <1>1, <1>2
  <1>4. \A i \in 1 .. n : cut[i] = tt[i]
    BY <1>3 DEF n
  <1>5. cut = tt
    BY <1>2, <1>3, <1>4, SeqEqual DEF n
  <1> QED BY <1>5 DEF cut, n

-------------------------------------------------------------------------------
(* The bytes of a frame. *)

Masked(f) == IF f.mask = <<>> THEN 0 ELSE 1

LEMMA UnmaskFacts ==
  ASSUME NEW pp \in Seq(Byte), NEW pm \in Seq(Byte), Len(pm) = 4
  PROVE  /\ Unmask(pp, pm) \in Seq(Byte)
         /\ Len(Unmask(pp, pm)) = Len(pp)
         /\ Unmask(Unmask(pp, pm), pm) = pp
  <1>1. Len(pp) \in Nat /\ \A i \in 1 .. Len(pp) : pp[i] \in Byte
    BY LenProperties
  <1>2. \A i \in 1 .. Len(pp) : pm[((i - 1) % 4) + 1] \in Byte
    <2>1. \A i \in 1 .. 4 : pm[i] \in Byte
      BY LenProperties
    <2>2. \A i \in 1 .. Len(pp) : ((i - 1) % 4) + 1 \in 1 .. 4
      BY <1>1
    <2> QED BY <2>1, <2>2
  <1> DEFINE uu == Unmask(pp, pm)
             vv == Unmask(uu, pm)
  <1>3. uu \in [1 .. Len(pp) -> Byte]
    BY <1>1, <1>2, XorAssumption DEF Unmask
  <1>4. uu \in Seq(Byte) /\ Len(uu) = Len(pp)
    <2> HIDE DEF uu
    <2> QED BY <1>1, <1>3
  <1>5. \A i \in 1 .. Len(pp) : uu[i] = ByteXor(pp[i], pm[((i - 1) % 4) + 1])
    BY DEF Unmask
  <1> HIDE DEF uu
  <1>6. vv = [i \in 1 .. Len(pp) |-> ByteXor(uu[i], pm[((i - 1) % 4) + 1])]
    BY <1>4 DEF Unmask
  <1>7. \A i \in 1 .. Len(pp) : ByteXor(uu[i], pm[((i - 1) % 4) + 1]) = pp[i]
    BY <1>1, <1>2, <1>5, XorAssumption
  <1>8. vv = [i \in 1 .. Len(pp) |-> pp[i]]
    BY <1>6, <1>7, Zenon
  <1>9. vv = pp
    <2>1. pp = [i \in 1 .. Len(pp) |-> pp[i]]
      BY <1>1, LenProperties
    <2> QED BY <1>8, <2>1, Zenon
  <1> QED BY <1>4, <1>9 DEF uu

\* The bytes that say how long the body is.
LengthField(bit, n, ext) ==
  CASE ext = 0 -> <<bit + n>>
    [] ext = 2 -> <<bit + 126, 0, n>>
    [] ext = 8 -> <<bit + 127, 0, 0, 0, 0, 0, 0, 0, n>>

LengthGiven(bit, n, ext) == bit \in {0, 128} /\ n \in 0 .. 125 /\ ext \in {0, 2, 8}

SaysLength(len, bit, n, ext) ==
  /\ len \in Seq(Byte) /\ Len(len) = 1 + ext
  /\ Ext(len[1]) = ext /\ 128 * (len[1] \div 128) = bit
  /\ ext = 0 => len[1] % 128 = n
  /\ ext # 0 => len[1 + ext] = n
  /\ \A j \in 2 .. ext : len[j] = 0

LEMMA LengthBytes ==
  ASSUME NEW bit, NEW n, NEW ext, LengthGiven(bit, n, ext)
  PROVE  SaysLength(LengthField(bit, n, ext), bit, n, ext)
  <1> DEFINE len == LengthField(bit, n, ext)
  <1> bit \in {0, 128} /\ n \in 0 .. 125 /\ ext \in {0, 2, 8}
    BY DEF LengthGiven
  <1>1. /\ bit + n \in Byte /\ n \in Byte /\ 0 \in Byte
        /\ bit + 126 \in Byte /\ bit + 127 \in Byte
    BY DEF Byte
  <1>2. /\ (bit + n) % 128 = n /\ (bit + 126) % 128 = 126 /\ (bit + 127) % 128 = 127
        /\ 128 * ((bit + n) \div 128) = bit
        /\ 128 * ((bit + 126) \div 128) = bit
        /\ 128 * ((bit + 127) \div 128) = bit
    <2>1. CASE bit = 0
      BY <2>1
    <2>2. CASE bit = 128
      BY <2>2
    <2> QED BY <2>1, <2>2
  <1>3. /\ Ext(bit + n) = 0 /\ Ext(bit + 126) = 2 /\ Ext(bit + 127) = 8
    BY <1>2 DEF Ext
  <1>4. CASE ext = 0
    <2>1. len = <<bit + n>>
      BY <1>4 DEF LengthField
    <2> HIDE DEF len
    <2>2. len \in Seq(Byte) /\ Len(len) = 1 /\ len[1] = bit + n
      BY <1>1, <2>1
    <2>3. len \in Seq(Byte) /\ Len(len) = 1 + ext /\ Ext(len[1]) = ext
      BY <1>3, <1>4, <2>2
    <2>4. 128 * (len[1] \div 128) = bit /\ len[1] % 128 = n
      BY <1>2, <2>2
    <2> QED BY <1>4, <2>3, <2>4 DEF len, SaysLength
  <1>5. CASE ext = 2
    <2>1. len = <<bit + 126, 0, n>>
      BY <1>5 DEF LengthField
    <2> HIDE DEF len
    <2>2. /\ len \in Seq(Byte) /\ Len(len) = 3
          /\ len[1] = bit + 126 /\ len[2] = 0 /\ len[3] = n
      BY <1>1, <2>1
    <2>3. len \in Seq(Byte) /\ Len(len) = 1 + ext /\ Ext(len[1]) = ext
      BY <1>3, <1>5, <2>2
    <2>4. 128 * (len[1] \div 128) = bit
      BY <1>2, <2>2
    <2>5. len[1 + ext] = n /\ \A j \in 2 .. ext : len[j] = 0
      BY <1>5, <2>2
    <2> QED BY <1>5, <2>3, <2>4, <2>5 DEF len, SaysLength
  <1>6. CASE ext = 8
    <2>1. len = <<bit + 127, 0, 0, 0, 0, 0, 0, 0, n>>
      BY <1>6 DEF LengthField
    <2> HIDE DEF len
    <2>2. /\ len \in Seq(Byte) /\ Len(len) = 9
          /\ len[1] = bit + 127 /\ len[9] = n
      BY <1>1, <2>1
    <2>3. /\ len[2] = 0 /\ len[3] = 0 /\ len[4] = 0 /\ len[5] = 0
          /\ len[6] = 0 /\ len[7] = 0 /\ len[8] = 0
      BY <2>1
    <2>4. len \in Seq(Byte) /\ Len(len) = 1 + ext /\ Ext(len[1]) = ext
      BY <1>3, <1>6, <2>2
    <2>5. 128 * (len[1] \div 128) = bit
      BY <1>2, <2>2
    <2>6. len[1 + ext] = n /\ \A j \in 2 .. ext : len[j] = 0
      BY <1>6, <2>2, <2>3
    <2> QED BY <1>6, <2>4, <2>5, <2>6 DEF len, SaysLength
  <1> QED BY <1>4, <1>5, <1>6

\* c is a, and b behind it.
Joined(c, a, b) ==
  /\ c \in Seq(Byte)
  /\ Len(c) = Len(a) + Len(b)
  /\ \A j \in 1 .. Len(a) : c[j] = a[j]
  /\ \A j \in 1 .. Len(b) : c[Len(a) + j] = b[j]

LEMMA TwoParts ==
  ASSUME NEW a \in Seq(Byte), NEW b \in Seq(Byte)
  PROVE  Joined(a \o b, a, b)
  <1> DEFINE c == a \o b
             m == Len(a)
             n == Len(b)
  <1>1. m \in Nat /\ n \in Nat
    BY LenProperties
  <1>2. /\ c \in Seq(Byte) /\ Len(c) = m + n
        /\ \A j \in 1 .. m + n : c[j] = IF j <= m THEN a[j] ELSE b[j - m]
    BY ConcatProperties
  <1> HIDE DEF c, m, n
  <1>3. \A j \in 1 .. m : c[j] = a[j]
    BY <1>1, <1>2
  <1>4. \A j \in 1 .. n : c[m + j] = b[j]
    BY <1>1, <1>2
  <1> QED BY <1>2, <1>3, <1>4, Zenon DEF c, m, n, Joined

\* Four byte sequences, one behind the other; h and m are where the second
\* ends, and how long the third is.
Parts(E, op, len, mask, data, h, m) ==
  /\ E \in Seq(Byte) /\ Len(E) = h + m + Len(data)
  /\ E[1] = op
  /\ \A j \in 2 .. h : E[j] = len[j - 1]
  /\ SubSeq(E, h + 1, h + m) = mask
  /\ SubSeq(E, h + m + 1, h + m + Len(data)) = data

LEMMA FourParts ==
  ASSUME NEW op \in Byte, NEW len \in Seq(Byte), NEW mask \in Seq(Byte), NEW data \in Seq(Byte),
         NEW h \in Nat, Len(len) = h - 1, NEW m \in Nat, Len(mask) = m
  PROVE  Parts(<<op>> \o len \o mask \o data, op, len, mask, data, h, m)
  <1> DEFINE a == <<op>> \o len
             c == a \o mask
             E == c \o data
             n == Len(data)
  <1>1. /\ a \in Seq(Byte) /\ Len(a) = h /\ h >= 1
        /\ a[1] = op
        /\ \A j \in 2 .. h : a[j] = len[j - 1]
    <2>1. <<op>> \in Seq(Byte) /\ Len(<<op>>) = 1 /\ <<op>>[1] = op
      OBVIOUS
    <2>2. Len(len) \in Nat
      BY LenProperties
    <2>3. h - 1 \in Nat
      BY <2>2
    <2> QED BY <2>1, <2>2, <2>3, ConcatProperties
  <1>2. c \in Seq(Byte) /\ Len(c) = Len(a) + Len(mask)
        /\ (\A j \in 1 .. Len(a) : c[j] = a[j])
        /\ (\A j \in 1 .. Len(mask) : c[Len(a) + j] = mask[j])
    <2>1. a \in Seq(Byte)
      BY <1>1
    <2> HIDE DEF a
    <2>2. Joined(c, a, mask)
      BY <2>1, TwoParts
    <2> HIDE DEF c
    <2> QED BY <2>2 DEF Joined
  <1>3. E \in Seq(Byte) /\ Len(E) = Len(c) + n
        /\ (\A j \in 1 .. Len(c) : E[j] = c[j])
        /\ (\A j \in 1 .. n : E[Len(c) + j] = data[j])
    <2>1. c \in Seq(Byte)
      BY <1>2
    <2> HIDE DEF c
    <2>2. Joined(E, c, data)
      BY <2>1, TwoParts
    <2> HIDE DEF E
    <2> QED BY <2>2 DEF Joined
  <1>4. n \in Nat
    BY LenProperties
  <1> HIDE DEF n, a, c, E
  <1>5. Len(c) = h + m /\ Len(E) = h + m + n
    BY <1>1, <1>2, <1>3
  <1>6. E[1] = op /\ \A j \in 2 .. h : E[j] = len[j - 1]
    <2>1. \A j \in 1 .. h : E[j] = a[j]
      <3>1. \A j \in 1 .. h : j \in 1 .. h + m
        OBVIOUS
      <3> QED BY <3>1, <1>1, <1>2, <1>3, <1>5
    <2> QED BY <1>1, <2>1
  <1>7. SubSeq(E, h + 1, h + m) = mask
    <2>1. \A j \in 1 .. m : E[h + j] = mask[j]
      <3>1. \A j \in 1 .. m : h + j \in 1 .. h + m
        OBVIOUS
      <3> QED BY <3>1, <1>1, <1>2, <1>3, <1>5
    <2>2. h + Len(mask) <= Len(E)
      BY <1>4, <1>5
    <2>3. \A j \in 1 .. Len(mask) : E[h + j] = mask[j]
      BY <2>1
    <2>4. E \in Seq(Byte)
      BY <1>3
    <2> QED BY <2>2, <2>3, <2>4, CutOut
  <1>8. SubSeq(E, h + m + 1, h + m + n) = data
    <2> DEFINE k == h + m
    <2>1. k \in Nat /\ k + n <= Len(E) /\ E \in Seq(Byte)
      BY <1>3, <1>4, <1>5
    <2>2. \A j \in 1 .. n : E[k + j] = data[j]
      BY <1>3, <1>5
    <2> HIDE DEF k
    <2>3. SubSeq(E, k + 1, k + n) = data
      BY <2>1, <2>2, CutOut DEF n
    <2> QED BY <2>3 DEF k
  <1>9. E \in Seq(Byte)
    BY <1>3
  <1> QED BY <1>5, <1>6, <1>7, <1>8, <1>9, Zenon DEF E, c, a, n, Parts

LEMMA FramesTyped ==
  ASSUME frames \in Streams, NEW i \in 1 .. Len(frames)
  PROVE  /\ Len(frames) \in Nat /\ DOMAIN frames = 1 .. Len(frames)
         /\ frames[i] \in Frame
         /\ Len(frames[i].mask) \in {0, 4} /\ Len(frames[i].body) < 126
  <1>1. frames \in Seq(Frame)
    BY StreamsAssumption
  <1>2. Len(frames) \in Nat /\ DOMAIN frames = 1 .. Len(frames) /\ frames[i] \in Frame
    BY <1>1, LenProperties
  <1>3. Len(frames[i].mask) \in {0, 4} /\ Len(frames[i].body) < 126
    <2>1. frames \in Streams /\ i \in DOMAIN frames
      BY <1>2
    <2> QED BY <2>1, StreamsAssumption, Zenon
  <1> QED BY <1>2, <1>3, Zenon

\* What a frame consists of: two bytes, the additional length bytes, the mask
\* and the body.
LEMMA EncodeFacts ==
  ASSUME NEW f \in Frame, Len(f.mask) \in {0, 4}, Len(f.body) < 126
  PROVE  LET E == Encode(f)
             m == 4 * Masked(f)
         IN  /\ E \in Seq(Byte)
             /\ Len(E) = 2 + f.ext + m + Len(f.body)
             /\ E[1] = f.op
             /\ Ext(E[2]) = f.ext /\ E[2] \div 128 = Masked(f)
             /\ f.ext = 0 => E[2] % 128 = Len(f.body)
             /\ f.ext # 0 => E[2 + f.ext] = Len(f.body)
             /\ \A j \in 3 .. 1 + f.ext : E[j] = 0
             /\ SubSeq(E, 2 + f.ext + 1, 2 + f.ext + m) = f.mask
             /\ SubSeq(E, 2 + f.ext + m + 1, 2 + f.ext + m + Len(f.body)) =
                  IF Masked(f) = 1 THEN Unmask(f.body, f.mask) ELSE f.body
  <1> DEFINE bit == IF f.mask = <<>> THEN 0 ELSE 128
             n == Len(f.body)
             ext == f.ext
             len == LengthField(bit, n, ext)
             data == IF f.mask = <<>> THEN f.body ELSE Unmask(f.body, f.mask)
             E == <<f.op>> \o len \o f.mask \o data
             m == 4 * Masked(f)
             h == 2 + ext
  <1>0. Encode(f) = E
    BY DEF Encode, LengthField
  <1>1. /\ f.op \in Byte /\ ext \in {0, 2, 8}
        /\ f.mask \in Seq(Byte) /\ f.body \in Seq(Byte)
    BY DEF Frame
  <1>2. n \in 0 .. 125
    <2>1. n \in Nat /\ n < 126
      BY <1>1, LenProperties
    <2> HIDE DEF n
    <2> QED BY <2>1
  <1>3. /\ bit = 128 * Masked(f) /\ bit \in {0, 128} /\ Masked(f) \in {0, 1}
        /\ Len(f.mask) = m
    <2>1. CASE f.mask = <<>>
      BY <2>1, EmptySeq DEF Masked
    <2>2. CASE f.mask # <<>>
      <3>1. Len(f.mask) # 0
        BY <1>1, <2>2, EmptySeq
      <3>2. Masked(f) = 1 /\ bit = 128
        BY <2>2 DEF Masked
      <3> QED BY <3>1, <3>2
    <2> QED BY <2>1, <2>2
  <1>4. data \in Seq(Byte) /\ Len(data) = n
    <2>1. CASE f.mask = <<>>
      BY <1>1, <2>1
    <2>2. CASE f.mask # <<>>
      <3>1. Len(f.mask) = 4
        BY <1>1, <2>2, EmptySeq
      <3>2. data = Unmask(f.body, f.mask)
        BY <2>2
      <3> QED BY <1>1, <3>1, <3>2, UnmaskFacts
    <2> QED BY <2>1, <2>2
  <1>5. data = IF Masked(f) = 1 THEN Unmask(f.body, f.mask) ELSE f.body
    BY DEF Masked
  <1> HIDE DEF bit, n, ext, data
  <1>6. /\ len \in Seq(Byte) /\ Len(len) = 1 + ext
        /\ Ext(len[1]) = ext /\ 128 * (len[1] \div 128) = bit
        /\ ext = 0 => len[1] % 128 = n
        /\ ext # 0 => len[1 + ext] = n
        /\ \A j \in 2 .. ext : len[j] = 0
    <2>1. SaysLength(len, bit, n, ext)
      <3>1. LengthGiven(bit, n, ext)
        BY <1>1, <1>2, <1>3 DEF LengthGiven
      <3> QED BY <3>1, LengthBytes, Zenon
    <2> HIDE DEF len
    <2> QED BY <2>1, Zenon DEF SaysLength
  <1> HIDE DEF len, m
  <1>7. m \in Nat /\ h \in Nat /\ h - 1 = 1 + ext
    BY <1>1, <1>3 DEF m
  <1> HIDE DEF h
  <1>8. /\ E \in Seq(Byte) /\ Len(E) = h + m + n
        /\ E[1] = f.op
        /\ \A j \in 2 .. h : E[j] = len[j - 1]
        /\ SubSeq(E, h + 1, h + m) = f.mask
        /\ SubSeq(E, h + m + 1, h + m + n) = data
    <2> DEFINE op == f.op
               mask == f.mask
    <2>1. /\ op \in Byte /\ mask \in Seq(Byte) /\ len \in Seq(Byte) /\ data \in Seq(Byte)
          /\ h \in Nat /\ m \in Nat /\ Len(len) = h - 1 /\ Len(mask) = m /\ Len(data) = n
      BY <1>1, <1>3, <1>4, <1>6, <1>7
    <2> HIDE DEF op, mask
    <2>2. Parts(<<op>> \o len \o mask \o data, op, len, mask, data, h, m)
      BY <2>1, FourParts
    <2>3. Len(data) = n
      BY <1>4
    <2>4. Parts(E, f.op, len, f.mask, data, h, m)
      BY <2>2 DEF op, mask
    <2> HIDE DEF E
    <2> QED BY <2>3, <2>4, Zenon DEF Parts
  <1> HIDE DEF E
  <1>9. E[2] = len[1] /\ (ext # 0 => E[h] = len[1 + ext])
    BY <1>1, <1>8 DEF h
  <1>10. \A j \in 3 .. 1 + ext : E[j] = 0
    BY <1>1, <1>6, <1>8 DEF h
  <1>11. E[2] \div 128 = Masked(f)
    <2>1. 2 \in 2 .. h /\ len[1] \in Nat
      <3>1. len[1] \in Byte
        <4>1. 1 \in 1 .. Len(len)
          BY <1>1, <1>6
        <4> QED BY <1>6, <4>1, LenProperties
      <3>2. 2 \in 2 .. h
        BY <1>1 DEF h
      <3>3. len[1] \in Nat
        <4>1. Byte \subseteq Nat
          BY DEF Byte
        <4> QED BY <3>1, <4>1, Zenon
      <3> QED BY <3>2, <3>3
    <2> QED BY <1>3, <1>6, <1>9, <2>1
  <1> QED BY <1>0, <1>5, <1>6, <1>8, <1>9, <1>10, <1>11 DEF h, m, n, ext

-------------------------------------------------------------------------------
(* The stream: frame k lies between End(k - 1) and End(k). *)

LEMMA EncodedFacts ==
  ASSUME frames \in Streams
  PROVE  /\ Len(frames) \in Nat /\ DOMAIN frames = 1 .. Len(frames)
         /\ Encoded \in Seq(Seq(Byte)) /\ Len(Encoded) = Len(frames)
         /\ \A k \in 1 .. Len(frames) : Encoded[k] = Encode(frames[k])
  <1> DEFINE N == Len(frames)
  <1>1. N \in Nat /\ DOMAIN frames = 1 .. N
    <2>1. frames \in Seq(Frame)
      BY StreamsAssumption
    <2> QED BY <2>1, LenProperties
  <1>2. \A k \in 1 .. N : Encode(frames[k]) \in Seq(Byte)
    <2> TAKE k \in 1 .. N
    <2>1. frames[k] \in Frame /\ Len(frames[k].mask) \in {0, 4} /\ Len(frames[k].body) < 126
      BY FramesTyped
    <2> QED BY <2>1, EncodeFacts
  <1> HIDE DEF N
  <1>3. Encoded = [k \in 1 .. N |-> Encode(frames[k])]
    BY <1>1 DEF Encoded
  <1>4. Encoded \in [1 .. N -> Seq(Byte)]
    BY <1>2, <1>3
  <1>5. Encoded \in Seq(Seq(Byte)) /\ Len(Encoded) = N
    <2> DEFINE e == Encoded
    <2> HIDE DEF e
    <2>1. e \in [1 .. N -> Seq(Byte)]
      BY <1>4 DEF e
    <2>2. e \in Seq(Seq(Byte)) /\ Len(e) = N
      BY <1>1, <2>1
    <2> QED BY <2>2 DEF e
  <1> QED BY <1>1, <1>3, <1>5 DEF N

LEMMA StreamFacts ==
  ASSUME frames \in Streams
  PROVE  /\ Stream \in Seq(Byte) /\ Len(Stream) \in Nat
         /\ \A k \in 0 .. Len(frames) : End(k) \in Nat /\ End(k) <= Len(Stream)
         /\ End(0) = 0 /\ End(Len(frames)) = Len(Stream)
  <1>1. /\ Len(frames) \in Nat /\ Encoded \in Seq(Seq(Byte)) /\ Len(Encoded) = Len(frames)
    BY EncodedFacts
  <1>2. /\ Upto(Encoded, 0) = <<>>
        /\ Upto(Encoded, Len(frames)) = Stream
        /\ \A k \in 0 .. Len(frames) : Upto(Encoded, k) \in Seq(Byte)
    BY <1>1, FlattenWhere DEF Stream
  <1>3. \A k : End(k) = Len(Upto(Encoded, k))
    BY DEF End, Upto
  <1>4. Stream \in Seq(Byte) /\ Len(Stream) \in Nat
    <2>1. Len(frames) \in 0 .. Len(frames)
      BY <1>1
    <2>2. Stream \in Seq(Byte)
      BY <1>2, <2>1, Zenon
    <2> QED BY <2>2, LenProperties
  <1>5. \A k \in 0 .. Len(frames) : End(k) \in Nat
    <2> TAKE k \in 0 .. Len(frames)
    <2>1. Upto(Encoded, k) \in Seq(Byte)
      BY <1>2
    <2>2. Len(Upto(Encoded, k)) \in Nat
      BY <2>1, LenProperties
    <2> QED BY <2>2, <1>3
  <1>6. \A k \in 0 .. Len(frames) : End(k) <= Len(Stream)
    <2> TAKE k \in 0 .. Len(frames)
    <2>1. Len(frames) \in 0 .. Len(Encoded) /\ k \in 0 .. Len(frames)
      BY <1>1
    <2>2. Len(Upto(Encoded, k)) <= Len(Upto(Encoded, Len(frames)))
      BY <1>1, <2>1, FlattenPrefix, Zenon
    <2> QED BY <1>2, <1>3, <2>2, Zenon
  <1>7. End(0) = 0 /\ End(Len(frames)) = Len(Stream)
    BY <1>2, <1>3, EmptySeq
  <1> QED BY <1>4, <1>5, <1>6, <1>7

LEMMA EndOrdered ==
  ASSUME frames \in Streams, NEW k \in 0 .. Len(frames), NEW l \in 0 .. k
  PROVE  End(l) <= End(k)
  <1>1. Encoded \in Seq(Seq(Byte)) /\ Len(Encoded) = Len(frames)
    BY EncodedFacts
  <1>2. \A j : End(j) = Len(Upto(Encoded, j))
    BY DEF End, Upto
  <1>3. Len(Upto(Encoded, l)) <= Len(Upto(Encoded, k))
    BY <1>1, FlattenPrefix, Zenon
  <1> QED BY <1>2, <1>3, Zenon

LEMMA FrameInStream ==
  ASSUME frames \in Streams, NEW k \in 1 .. Len(frames)
  PROVE  /\ End(k) = End(k - 1) + Len(Encode(frames[k]))
         /\ \A j \in 1 .. Len(Encode(frames[k])) : Stream[End(k - 1) + j] = Encode(frames[k])[j]
  <1> DEFINE E == Encode(frames[k])
             A == Upto(Encoded, k - 1)
             B == Upto(Encoded, k)
  <1>1. /\ Len(frames) \in Nat /\ Encoded \in Seq(Seq(Byte)) /\ Len(Encoded) = Len(frames)
        /\ Encoded[k] = E
    BY EncodedFacts
  <1>2. End(k - 1) = Len(A) /\ End(k) = Len(B)
    BY DEF End, Upto
  <1>3. k - 1 \in 0 .. Len(Encoded) /\ k \in 1 .. Len(Encoded) /\ k \in 0 .. Len(frames)
        /\ Len(frames) \in 0 .. Len(Encoded)
    BY <1>1
  <1>4. A \in Seq(Byte) /\ E \in Seq(Byte)
    <2>1. A \in Seq(Byte)
      BY <1>1, <1>3, FlattenWhere, Zenon
    <2>2. Encoded[k] \in Seq(Byte)
      BY <1>1, <1>3, LenProperties
    <2> QED BY <1>1, <2>1, <2>2
  <1>5. B = A \o E
    BY <1>1, <1>3, FlattenWhere, Zenon
  <1>6. Upto(Encoded, Len(frames)) = Stream
    BY <1>1, FlattenWhere, Zenon DEF Stream
  <1>7. \A j \in 1 .. Len(B) : Stream[j] = B[j]
    BY <1>1, <1>3, <1>6, FlattenPrefix, Zenon
  <1> HIDE DEF E, A
  <1>8. Joined(B, A, E)
    BY <1>4, <1>5, TwoParts, Zenon
  <1> HIDE DEF B
  <1>9. Len(A) \in Nat /\ Len(E) \in Nat
    BY <1>4, LenProperties
  <1>10. \A j \in 1 .. Len(E) : Stream[Len(A) + j] = E[j]
    <2> TAKE j \in 1 .. Len(E)
    <2>1. Len(B) = Len(A) + Len(E) /\ B[Len(A) + j] = E[j]
      BY <1>8, Zenon DEF Joined
    <2>2. Len(A) + j \in 1 .. Len(B)
      BY <1>9, <2>1
    <2>3. Stream[Len(A) + j] = B[Len(A) + j]
      BY <1>7, <2>2
    <2> QED BY <2>1, <2>3
  <1>11. Len(B) = Len(A) + Len(E)
    BY <1>8 DEF Joined
  <1> QED BY <1>2, <1>10, <1>11 DEF E

\* The frames do not change.
LEMMA FramesStay ==
  ASSUME frames' = frames
  PROVE  /\ Encoded' = Encoded /\ Stream' = Stream
         /\ \A k : End(k)' = End(k)
         /\ JsonStream' <=> JsonStream
  <1>1. Encoded' = Encoded
    BY DEF Encoded
  <1> QED BY <1>1, Zenon DEF Stream, End, JsonStream

-------------------------------------------------------------------------------
(* The length of a body. *)

\* The function that BodyLen defines: the number in the bytes before the last.
HighBytes(m, f) ==
  f = [i \in 2 .. m + 1 |-> IF i = 2 THEN 0 ELSE 256 * f[i - 1] + ring[i]]

LEMMA HighBytesExists ==
  ASSUME NEW m \in Nat
  PROVE  \E f : HighBytes(m, f)
  <1> DEFINE Bad == {n \in Nat : ~ \E f : HighBytes(n, f)}
  <1>1. ASSUME Bad # {} PROVE FALSE
    <2>1. PICK n \in Bad : \A k \in Bad : n <= k
      BY <1>1, Smallest
    <2>2. n # 0
      <3>1. HighBytes(0, [i \in {} |-> 0])
        BY DEF HighBytes
      <3> QED BY <2>1, <3>1
    <2>3. n \in Nat /\ n - 1 \in Nat /\ ~(n <= n - 1)
      BY <2>1, <2>2
    <2>4. PICK f : HighBytes(n - 1, f)
      BY <2>1, <2>3
    <2> DEFINE v == IF n + 1 = 2 THEN 0 ELSE 256 * f[n] + ring[n + 1]
               g == [i \in 2 .. n + 1 |-> IF i = n + 1 THEN v ELSE f[i]]
    <2>5. \A i \in 2 .. n : f[i] = IF i = 2 THEN 0 ELSE 256 * f[i - 1] + ring[i]
      <3>1. (n - 1) + 1 = n
        BY <2>3
      <3> QED BY <2>4, <3>1 DEF HighBytes
    <2>6. ASSUME NEW i \in 2 .. n + 1
          PROVE  g[i] = IF i = 2 THEN 0 ELSE 256 * g[i - 1] + ring[i]
      <3>1. CASE i = n + 1
        <4>1. g[i] = v
          BY <3>1
        <4>2. i # 2 => i - 1 = n /\ g[i - 1] = f[n]
          BY <2>3, <3>1
        <4> QED BY <3>1, <4>1, <4>2
      <3>2. CASE i # n + 1
        <4>1. i \in 2 .. n /\ g[i] = f[i]
          BY <2>3, <3>2
        <4>2. i # 2 => g[i - 1] = f[i - 1]
          BY <2>3, <4>1
        <4> QED BY <2>5, <4>1, <4>2
      <3> QED BY <3>1, <3>2
    <2>7. HighBytes(n, g)
      <3>1. g = [i \in 2 .. n + 1 |-> g[i]]
        OBVIOUS
      <3> HIDE DEF g
      <3> QED BY <2>6, <3>1, Zenon DEF HighBytes
    <2> QED BY <2>1, <2>7
  <1> QED BY <1>1

LEMMA ExtOfByte ==
  ASSUME NEW b \in Byte
  PROVE  /\ Ext(b) \in {0, 2, 8} /\ b \div 128 \in {0, 1} /\ b % 128 \in Nat
  BY DEF Ext, Byte

\* What BodyLen computes from its recursive definition.
LEMMA BodyLenUnfolded ==
  ASSUME NEW b \in Byte, NEW last, Ext(b) # 0
  PROVE  \E f : HighBytes(Ext(b), f) /\ BodyLen(b, last) = 256 * f[Ext(b) + 1] + last
  <1> DEFINE m == Ext(b)
             h == CHOOSE f : f = [i \in 2 .. m + 1 |-> IF i = 2 THEN 0 ELSE 256 * f[i - 1] + ring[i]]
  <1>1. m \in Nat
    BY ExtOfByte
  <1>2. BodyLen(b, last) = 256 * h[m + 1] + last
    BY Zenon DEF BodyLen
  <1> HIDE DEF m
  <1>3. HighBytes(m, h)
    BY <1>1, HighBytesExists, Zenon DEF HighBytes
  <1> HIDE DEF h
  <1> QED BY <1>2, <1>3 DEF m

LEMMA BodyLenNat ==
  ASSUME NEW b \in Byte, NEW last \in Nat, \A i \in 3 .. Ext(b) + 1 : ring[i] \in Nat
  PROVE  BodyLen(b, last) \in Nat
  <1>1. CASE Ext(b) = 0
    BY <1>1, ExtOfByte DEF BodyLen
  <1>2. CASE Ext(b) = 2
    <2>1. PICK f : HighBytes(2, f) /\ BodyLen(b, last) = 256 * f[3] + last
      BY <1>2, BodyLenUnfolded
    <2>2. f[2] = 0 /\ f[3] = 256 * f[2] + ring[3]
      BY <2>1 DEF HighBytes
    <2>3. ring[3] \in Nat
      BY <1>2
    <2> QED BY <2>1, <2>2, <2>3
  <1>3. CASE Ext(b) = 8
    <2>1. PICK f : HighBytes(8, f) /\ BodyLen(b, last) = 256 * f[9] + last
      BY <1>3, BodyLenUnfolded
    <2>2. /\ f[2] = 0 /\ f[3] = 256 * f[2] + ring[3] /\ f[4] = 256 * f[3] + ring[4]
          /\ f[5] = 256 * f[4] + ring[5] /\ f[6] = 256 * f[5] + ring[6]
          /\ f[7] = 256 * f[6] + ring[7] /\ f[8] = 256 * f[7] + ring[8]
          /\ f[9] = 256 * f[8] + ring[9]
      BY <2>1 DEF HighBytes
    <2>3. /\ ring[3] \in Nat /\ ring[4] \in Nat /\ ring[5] \in Nat /\ ring[6] \in Nat
          /\ ring[7] \in Nat /\ ring[8] \in Nat /\ ring[9] \in Nat
      BY <1>3
    <2>4. f[3] \in Nat
      BY <2>2, <2>3
    <2>5. f[4] \in Nat
      BY <2>2, <2>3, <2>4
    <2>6. f[5] \in Nat
      BY <2>2, <2>3, <2>5
    <2>7. f[6] \in Nat
      BY <2>2, <2>3, <2>6
    <2>8. f[7] \in Nat
      BY <2>2, <2>3, <2>7
    <2>9. f[8] \in Nat
      BY <2>2, <2>3, <2>8
    <2>10. f[9] \in Nat
      BY <2>2, <2>3, <2>9
    <2> QED BY <2>1, <2>10
  <1> QED BY <1>1, <1>2, <1>3, ExtOfByte

\* Behind zeros it is the last byte.
LEMMA BodyLenZeros ==
  ASSUME NEW b \in Byte, NEW last \in Nat, Ext(b) # 0,
         \A i \in 3 .. Ext(b) + 1 : ring[i] = 0
  PROVE  BodyLen(b, last) = last
  <1>1. CASE Ext(b) = 2
    <2>1. PICK f : HighBytes(2, f) /\ BodyLen(b, last) = 256 * f[3] + last
      BY <1>1, BodyLenUnfolded
    <2>2. f[2] = 0 /\ f[3] = 256 * f[2] + ring[3]
      BY <2>1 DEF HighBytes
    <2>3. ring[3] = 0
      BY <1>1
    <2> QED BY <2>1, <2>2, <2>3
  <1>2. CASE Ext(b) = 8
    <2>1. PICK f : HighBytes(8, f) /\ BodyLen(b, last) = 256 * f[9] + last
      BY <1>2, BodyLenUnfolded
    <2>2. /\ f[2] = 0 /\ f[3] = 256 * f[2] + ring[3] /\ f[4] = 256 * f[3] + ring[4]
          /\ f[5] = 256 * f[4] + ring[5] /\ f[6] = 256 * f[5] + ring[6]
          /\ f[7] = 256 * f[6] + ring[7] /\ f[8] = 256 * f[7] + ring[8]
          /\ f[9] = 256 * f[8] + ring[9]
      BY <2>1 DEF HighBytes
    <2>3. /\ ring[3] = 0 /\ ring[4] = 0 /\ ring[5] = 0 /\ ring[6] = 0
          /\ ring[7] = 0 /\ ring[8] = 0 /\ ring[9] = 0
      BY <1>2
    <2>4. f[9] = 0
      BY <2>2, <2>3
    <2> QED BY <2>1, <2>4
  <1> QED BY <1>1, <1>2, ExtOfByte

-------------------------------------------------------------------------------
(* What ws_json_parse reads from the ring buffer. *)

LEMMA RingTyped ==
  ASSUME TypeOK
  PROVE  Len(ring) \in Nat /\ \A i \in 1 .. Len(ring) : ring[i] \in Byte
  BY LenProperties DEF TypeOK

LEMMA RefFacts ==
  ASSUME TypeOK, NEW i \in Nat, NEW b \in Ref(i)
  PROVE  b \in Byte /\ i <= Len(ring) /\ (i < Len(ring) => b = ring[i + 1])
  <1> DEFINE n == Len(ring)
  <1>1. n \in Nat /\ \A j \in 1 .. n : ring[j] \in Byte
    BY RingTyped
  <1>2. Ref(i) = CASE i < n -> {ring[i + 1]} [] i = n -> Stale [] OTHER -> {}
    BY DEF Ref
  <1> HIDE DEF n
  <1>3. CASE i < n
    <2>1. b = ring[i + 1]
      BY <1>2, <1>3
    <2>2. i + 1 \in 1 .. n
      BY <1>1, <1>3
    <2>3. i <= n
      BY <1>1, <1>3
    <2> QED BY <1>1, <2>1, <2>2, <2>3 DEF n
  <1>4. CASE i = n
    <2>1. b \in Stale
      BY <1>1, <1>2, <1>4
    <2>2. b \in Byte
      BY <2>1, StaleAssumption
    <2>3. i <= n /\ ~(i < n)
      BY <1>1, <1>4
    <2> QED BY <2>2, <2>3 DEF n
  <1>5. CASE ~(i < n) /\ i # n
    BY <1>2, <1>5
  <1> QED BY <1>3, <1>4, <1>5

\* What the header is taken to say: b and last are the bytes that ParseText
\* refers to.
Header(b, last) ==
  b \in Ref(1) /\ last \in IF Ext(b) = 0 THEN {b} ELSE Ref(Ext(b) + 1)

LEMMA HeaderTypes ==
  ASSUME TypeOK, NEW b, NEW last, Header(b, last)
  PROVE  /\ b \in Byte /\ last \in Nat /\ BodyLen(b, last) \in Nat
         /\ Ext(b) \in {0, 2, 8} /\ b \div 128 \in {0, 1}
         /\ Ext(b) # 0 => /\ Ext(b) + 1 <= Len(ring)
                          /\ Ext(b) + 1 < Len(ring) => last = ring[Ext(b) + 2]
  <1>1. b \in Byte
    BY RefFacts DEF Header
  <1>2. Ext(b) \in {0, 2, 8} /\ b \div 128 \in {0, 1}
    BY <1>1, ExtOfByte
  <1>3. CASE Ext(b) = 0
    <2>1. last = b
      BY <1>3 DEF Header
    <2>2. last \in Nat
      BY <1>1, <2>1 DEF Byte
    <2>3. BodyLen(b, last) \in Nat
      <3>1. b % 128 \in Nat
        BY <1>1, ExtOfByte
      <3> QED BY <1>3, <3>1 DEF BodyLen
    <2> QED BY <1>1, <1>2, <1>3, <2>2, <2>3
  <1>4. CASE Ext(b) # 0
    <2> DEFINE i == Ext(b) + 1
    <2>1. i \in Nat /\ last \in Ref(i) /\ i + 1 = Ext(b) + 2
      BY <1>2, <1>4 DEF Header
    <2>2. last \in Byte /\ i <= Len(ring) /\ (i < Len(ring) => last = ring[i + 1])
      <3> HIDE DEF i
      <3> QED BY <2>1, RefFacts
    <2>3. \A j \in 3 .. i : ring[j] \in Nat
      <3>1. Len(ring) \in Nat /\ \A j \in 1 .. Len(ring) : ring[j] \in Byte
        BY RingTyped
      <3>2. \A j \in 3 .. i : j \in 1 .. Len(ring)
        BY <2>1, <2>2, <3>1
      <3>3. Byte \subseteq Nat
        BY DEF Byte
      <3> QED BY <3>1, <3>2, <3>3
    <2>4. last \in Nat
      BY <2>2 DEF Byte
    <2>5. BodyLen(b, last) \in Nat
      BY <1>1, <2>3, <2>4, BodyLenNat
    <2> QED BY <1>1, <1>2, <2>1, <2>2, <2>4, <2>5
  <1> QED BY <1>3, <1>4

\* The ring buffer holds the first bytes of a frame.
Begins(f) == \A j \in 1 .. Len(ring) : j <= Len(Encode(f)) => ring[j] = Encode(f)[j]

Legal(f) == f \in Frame /\ Len(f.mask) \in {0, 4} /\ Len(f.body) < 126

LEMMA LegalFrame ==
  ASSUME NEW f, Legal(f)
  PROVE  /\ f.ext \in {0, 2, 8} /\ f.mask \in Seq(Byte) /\ f.body \in Seq(Byte)
         /\ Masked(f) \in {0, 1} /\ Len(f.mask) = 4 * Masked(f) /\ Len(f.body) \in Nat
         /\ Encode(f) \in Seq(Byte)
         /\ Len(Encode(f)) = 2 + f.ext + 4 * Masked(f) + Len(f.body)
  <1>1. f.ext \in {0, 2, 8} /\ f.mask \in Seq(Byte) /\ f.body \in Seq(Byte)
    BY DEF Legal, Frame
  <1>2. Len(f.body) \in Nat
    BY <1>1, LenProperties
  <1>3. Masked(f) \in {0, 1} /\ Len(f.mask) = 4 * Masked(f)
    <2>1. CASE f.mask = <<>>
      BY <2>1, EmptySeq DEF Masked
    <2>2. CASE f.mask # <<>>
      <3>1. Len(f.mask) # 0
        BY <1>1, <2>2, EmptySeq
      <3>2. Masked(f) = 1 /\ Len(f.mask) \in {0, 4}
        BY <2>2 DEF Masked, Legal
      <3> QED BY <3>1, <3>2
    <2> QED BY <2>1, <2>2
  <1>4. /\ Encode(f) \in Seq(Byte)
        /\ Len(Encode(f)) = 2 + f.ext + 4 * Masked(f) + Len(f.body)
    BY EncodeFacts, Zenon DEF Legal
  <1> QED BY <1>1, <1>2, <1>3, <1>4

\* With two bytes of a frame, the second says how long the header is.
LEMMA SecondByte ==
  ASSUME TypeOK, NEW f, Legal(f), Begins(f), NEW b \in Ref(1), 1 < Len(ring)
  PROVE  /\ Ext(b) = f.ext /\ b \div 128 = Masked(f)
         /\ f.ext = 0 => b % 128 = Len(f.body)
  <1> DEFINE e == Len(Encode(f))
  <1>1. b = ring[2]
    BY RefFacts
  <1>2. Len(ring) \in Nat
    BY RingTyped
  <1>3. e \in Nat /\ 2 <= e
    <2>1. /\ f.ext \in {0, 2, 8} /\ Masked(f) \in {0, 1} /\ Len(f.body) \in Nat
          /\ e = 2 + f.ext + 4 * Masked(f) + Len(f.body)
      BY LegalFrame
    <2> QED BY <2>1
  <1> HIDE DEF e
  <1>4. 2 \in 1 .. Len(ring)
    BY <1>2
  <1>5. ring[2] = Encode(f)[2]
    BY <1>3, <1>4 DEF Begins, e
  <1>6. /\ Ext(Encode(f)[2]) = f.ext /\ Encode(f)[2] \div 128 = Masked(f)
        /\ f.ext = 0 => Encode(f)[2] % 128 = Len(f.body)
    BY EncodeFacts, Zenon DEF Legal
  <1> QED BY <1>1, <1>5, <1>6

\* NULL is referred to only when the header is incomplete.
LEMMA NullInHeader ==
  ASSUME TypeOK, NEW f, Legal(f), Begins(f), ring # <<>>,
         NEW b \in Ref(1), Ext(b) > 0, Ref(Ext(b) + 1) = {}
  PROVE  Len(ring) \in 1 .. 1 + f.ext
  <1> DEFINE n == Len(ring)
  <1>1. n \in Nat /\ f.ext \in {0, 2, 8}
    BY RingTyped, LegalFrame
  <1>2. n # 0
    BY EmptySeq DEF TypeOK
  <1>3. CASE n = 1
    BY <1>1, <1>3
  <1>4. CASE n # 1
    <2>1. 1 < n
      <3> HIDE DEF n
      <3> QED BY <1>1, <1>2, <1>4
    <2>2. Ext(b) = f.ext
      BY <2>1, SecondByte
    <2>3. ~(f.ext + 1 < n)
      <3> DEFINE i == f.ext + 1
      <3>1. Ref(i) = {}
        BY <2>2
      <3>2. i < Len(ring) => Ref(i) = {ring[i + 1]}
        <4> HIDE DEF i
        <4> QED BY DEF Ref
      <3> HIDE DEF i
      <3>3. ~(i < n)
        BY <3>1, <3>2
      <3> QED BY <3>3 DEF i
    <2> HIDE DEF n
    <2>4. n \in 1 .. 1 + f.ext
      BY <1>1, <1>2, <2>3
    <2> QED BY <2>4 DEF n
  <1> QED BY <1>3, <1>4

\* How long a frame is taken to be.
Size(b, last) == (2 + Ext(b)) + BodyLen(b, last) + 4 * (b \div 128)

\* The header was read right.
Understood(f, b, last) ==
  /\ Ext(b) = f.ext /\ b \div 128 = Masked(f) /\ BodyLen(b, last) = Len(f.body)
  /\ Size(b, last) = Len(Encode(f))

\* An incomplete header or body is known for one; of a complete frame the
\* header is read right.
LEMMA HeaderRead ==
  ASSUME TypeOK, NEW f, Legal(f), Begins(f), ring # <<>>,
         NEW b, NEW last, Header(b, last)
  PROVE  /\ Size(b, last) \in Nat
         /\ Len(ring) < Size(b, last) => Len(ring) < Len(Encode(f))
         /\ Len(ring) >= Size(b, last) => Understood(f, b, last)
  <1> DEFINE n == Len(ring)
             e == Len(Encode(f))
             size == Size(b, last)
             B == BodyLen(b, last)
             l == Len(f.body)
             m == Masked(f)
             d == b \div 128
  <1>1. /\ f.ext \in {0, 2, 8} /\ m \in {0, 1} /\ l \in Nat
        /\ e = 2 + f.ext + 4 * m + l
    BY LegalFrame
  <1>2. /\ b \in Byte /\ last \in Nat /\ B \in Nat
        /\ Ext(b) \in {0, 2, 8} /\ d \in {0, 1}
        /\ Ext(b) # 0 => /\ Ext(b) + 1 <= n
                         /\ Ext(b) + 1 < n => last = ring[Ext(b) + 2]
    BY HeaderTypes
  <1>3. n \in Nat /\ n # 0
    <2>1. n \in Nat
      BY RingTyped
    <2>2. n # 0
      BY EmptySeq DEF TypeOK
    <2> QED BY <2>1, <2>2
  <1>4. size = (2 + Ext(b)) + B + 4 * d
    BY DEF Size
  <1>5. b \in Ref(1)
    BY DEF Header
  <1>6. 1 < n => /\ Ext(b) = f.ext /\ d = m
                 /\ f.ext = 0 => b % 128 = l
    BY <1>5, SecondByte
  <1>7. Ext(b) = 0 => B = b % 128
    BY DEF BodyLen
  <1>8. SUFFICES /\ size \in Nat
                 /\ n < size => n < e
                 /\ n >= size => Ext(b) = f.ext /\ d = m /\ B = l /\ size = e
    BY Zenon DEF Understood
  <1> HIDE DEF n, e, size, B, l, m, d
  <1>9. size \in Nat
    BY <1>2, <1>4
  <1>10. CASE n = 1
    <2>1. n < size
      BY <1>2, <1>4, <1>10
    <2>2. n < e
      BY <1>1, <1>10
    <2> QED BY <1>9, <2>1, <2>2, <1>2, <1>10
  <1>11. CASE n # 1
    <2>1. Ext(b) = f.ext /\ d = m /\ (f.ext = 0 => b % 128 = l)
      BY <1>3, <1>6, <1>11
    <2>2. CASE f.ext = 0
      <3>1. B = l
        BY <1>7, <2>1, <2>2
      <3> QED BY <1>1, <1>3, <1>4, <1>9, <2>1, <3>1
    <2>3. CASE f.ext # 0 /\ n = Ext(b) + 1
      <3>1. n < size
        BY <1>2, <1>4, <2>3
      <3>2. n < e
        BY <1>1, <2>1, <2>3
      <3> QED BY <1>3, <1>9, <3>1, <3>2
    <2>4. CASE f.ext # 0 /\ n # Ext(b) + 1
      <3>1. last = ring[f.ext + 2] /\ f.ext + 1 < n
        BY <1>1, <1>2, <1>3, <2>1, <2>4
      <3>2. \A j \in 3 .. f.ext + 2 : ring[j] = Encode(f)[j]
        <4>1. \A j \in 3 .. f.ext + 2 : j \in 1 .. n /\ j <= e
          BY <1>1, <1>3, <3>1
        <4> QED BY <4>1, Zenon DEF Begins, n, e
      <3>3. /\ Encode(f)[2 + f.ext] = l
            /\ \A j \in 3 .. 1 + f.ext : Encode(f)[j] = 0
        BY <2>4, EncodeFacts, Zenon DEF Legal, l
      <3>4. last = l
        <4>1. f.ext + 2 \in 3 .. f.ext + 2 /\ 2 + f.ext = f.ext + 2
          BY <1>1, <2>4
        <4> QED BY <3>1, <3>2, <3>3, <4>1
      <3>5. \A j \in 3 .. Ext(b) + 1 : ring[j] = 0
        <4>1. \A j \in 3 .. Ext(b) + 1 : j \in 3 .. f.ext + 2 /\ j \in 3 .. 1 + f.ext
          BY <1>1, <2>1
        <4> QED BY <3>2, <3>3, <4>1
      <3>6. B = l
        <4>1. BodyLen(b, last) = last
          BY <1>2, <2>1, <2>4, <3>5, BodyLenZeros
        <4> QED BY <3>4, <4>1 DEF B
      <3> QED BY <1>1, <1>3, <1>4, <1>9, <2>1, <3>6
    <2> QED BY <2>2, <2>3, <2>4
  <1> QED BY <1>10, <1>11

LEMMA CutAlike ==
  ASSUME NEW T, NEW ss \in Seq(T), NEW tt \in Seq(T), NEW p \in Nat, NEW q \in Nat,
         1 <= p, q <= Len(ss), q <= Len(tt), \A j \in p .. q : ss[j] = tt[j]
  PROVE  SubSeq(ss, p, q) \in Seq(T) /\ SubSeq(ss, p, q) = SubSeq(tt, p, q)
  <1> DEFINE a == SubSeq(ss, p, q)
             c == SubSeq(tt, p, q)
             n == IF p <= q THEN q - p + 1 ELSE 0
  <1>1. /\ Len(ss) \in Nat /\ \A i \in 1 .. Len(ss) : ss[i] \in T
        /\ Len(tt) \in Nat /\ \A i \in 1 .. Len(tt) : tt[i] \in T
    BY LenProperties
  <1>2. \A j \in p .. q : ss[j] \in T
    BY <1>1
  <1>3. \A j \in p .. q : tt[j] \in T
    BY <1>1
  <1>4. a \in Seq(T) /\ Len(a) = n /\ \A i \in 1 .. q - p + 1 : a[i] = ss[p + i - 1]
    BY <1>2, SubSeqProperties
  <1>5. c \in Seq(T) /\ Len(c) = n /\ \A i \in 1 .. q - p + 1 : c[i] = tt[p + i - 1]
    BY <1>3, SubSeqProperties
  <1> HIDE DEF a, c
  <1>6. \A i \in 1 .. n : a[i] = c[i]
    <2> TAKE i \in 1 .. n
    <2>1. i \in 1 .. q - p + 1 /\ p + i - 1 \in p .. q
      OBVIOUS
    <2> QED BY <1>4, <1>5, <2>1
  <1> HIDE DEF n
  <1>7. a = c
    BY <1>4, <1>5, <1>6, SeqEqual
  <1> QED BY <1>4, <1>7 DEF a, c

\* What Take cuts out of the ring buffer.
Key(pos, mask) == SubSeq(ring, pos + 1, pos + 4 * mask)
Data(pos, mask, len) == SubSeq(ring, pos + 4 * mask + 1, pos + 4 * mask + len)
Body(pos, mask, len) ==
  IF mask = 1 THEN Unmask(Data(pos, mask, len), Key(pos, mask)) ELSE Data(pos, mask, len)

LEMMA TakenBytes ==
  ASSUME TypeOK, NEW pos \in Nat, NEW mask \in {0, 1}, NEW len \in Nat,
         pos + len + 4 * mask <= Len(ring)
  PROVE  Body(pos, mask, len) \in Seq(Byte)
  <1> DEFINE n == Len(ring)
             data == Data(pos, mask, len)
             key == Key(pos, mask)
  <1>1. n \in Nat /\ \A i \in 1 .. n : ring[i] \in Byte
    BY RingTyped
  <1> HIDE DEF n
  <1>2. pos + len + 4 * mask <= n
    BY DEF n
  <1>3. \A i \in pos + 4 * mask + 1 .. pos + 4 * mask + len : ring[i] \in Byte
    BY <1>1, <1>2
  <1>4. \A i \in pos + 1 .. pos + 4 * mask : ring[i] \in Byte
    BY <1>1, <1>2
  <1>5. data \in Seq(Byte)
    BY <1>3, SubSeqProperties DEF Data
  <1>6. key \in Seq(Byte) /\ (mask = 1 => Len(key) = 4)
    <2>1. /\ key \in Seq(Byte)
          /\ Len(key) = IF pos + 1 <= pos + 4 * mask THEN pos + 4 * mask - (pos + 1) + 1 ELSE 0
      BY <1>4, SubSeqProperties DEF Key
    <2> HIDE DEF key
    <2> QED BY <2>1
  <1> HIDE DEF data, key
  <1>7. mask = 1 => Unmask(data, key) \in Seq(Byte)
    BY <1>5, <1>6, UnmaskFacts
  <1> QED BY <1>5, <1>7 DEF data, key, Body

\* A complete frame is taken out whole.
LEMMA TakenBody ==
  ASSUME TypeOK, NEW f, Legal(f), Begins(f), Len(Encode(f)) <= Len(ring)
  PROVE  Body(2 + f.ext, Masked(f), Len(f.body)) = f.body
  <1> DEFINE E == Encode(f)
             h == 2 + f.ext
             m == Masked(f)
             l == Len(f.body)
             mask == f.mask
             body == f.body
  <1>1. /\ f.ext \in {0, 2, 8} /\ mask \in Seq(Byte) /\ body \in Seq(Byte)
        /\ m \in {0, 1} /\ Len(mask) = 4 * m /\ l \in Nat
        /\ E \in Seq(Byte) /\ Len(E) = h + 4 * m + l
    BY LegalFrame
  <1>2. /\ SubSeq(E, h + 1, h + 4 * m) = mask
        /\ SubSeq(E, h + 4 * m + 1, h + 4 * m + l) =
             IF m = 1 THEN Unmask(body, mask) ELSE body
    BY EncodeFacts, Zenon DEF Legal
  <1>3. ring \in Seq(Byte) /\ Len(ring) \in Nat
    BY RingTyped DEF TypeOK
  <1>4. \A j \in 1 .. Len(E) : ring[j] = E[j]
    <2>1. Len(E) <= Len(ring) /\ Len(E) \in Nat
      BY <1>1, LenProperties
    <2>2. \A j \in 1 .. Len(E) : j \in 1 .. Len(ring) /\ j <= Len(E)
      BY <1>3, <2>1
    <2> QED BY <2>2, Zenon DEF Begins
  <1>5. h \in Nat
    BY <1>1
  <1> HIDE DEF E, h, m, l, mask, body
  <1>6. Key(h, m) = mask
    <2> DEFINE p == h + 1
               q == h + 4 * m
    <2>1. p \in Nat /\ q \in Nat /\ 1 <= p /\ q <= Len(E) /\ q <= Len(ring)
      BY <1>1, <1>3, <1>5 DEF E
    <2>2. \A j \in p .. q : ring[j] = E[j]
      BY <1>1, <1>4, <1>5
    <2> HIDE DEF p, q
    <2>3. SubSeq(ring, p, q) = SubSeq(E, p, q)
      BY <1>1, <1>3, <2>1, <2>2, CutAlike
    <2> QED BY <1>2, <2>3 DEF Key, p, q
  <1>7. Data(h, m, l) = IF m = 1 THEN Unmask(body, mask) ELSE body
    <2> DEFINE p == h + 4 * m + 1
               q == h + 4 * m + l
    <2>1. p \in Nat /\ q \in Nat /\ 1 <= p /\ q <= Len(E) /\ q <= Len(ring)
      BY <1>1, <1>3, <1>5 DEF E
    <2>2. \A j \in p .. q : ring[j] = E[j]
      BY <1>1, <1>4, <1>5
    <2> HIDE DEF p, q
    <2>3. SubSeq(ring, p, q) = SubSeq(E, p, q)
      BY <1>1, <1>3, <2>1, <2>2, CutAlike
    <2> QED BY <1>2, <2>3 DEF Data, p, q
  <1>8. m = 1 => Unmask(Unmask(body, mask), mask) = body
    <2>1. m = 1 => Len(mask) = 4
      BY <1>1
    <2> QED BY <1>1, <2>1, UnmaskFacts
  <1>9. Body(h, m, l) = body
    BY <1>6, <1>7, <1>8, Zenon DEF Body
  <1> QED BY <1>9 DEF h, m, l, body

-------------------------------------------------------------------------------
(* Types. *)

\* Take, in the names of this module.
Took(size, body) ==
  /\ Len(ring) >= size
  /\ ring' = SubSeq(ring, size + 1, Len(ring))
  /\ state' = "normal"
  /\ parsed' = IF IsJson(body) THEN Append(parsed, body) ELSE parsed
  /\ busy' = IsJson(body)

Waits(size) ==
  /\ ~(Len(ring) >= size)
  /\ state' = "incomplete"
  /\ busy' = FALSE
  /\ ring' = ring /\ parsed' = parsed

LEMMA TextTaken ==
  ASSUME ParseText
  PROVE  \E b, last :
           /\ Header(b, last)
           /\ \/ Took(Size(b, last), Body(2 + Ext(b), b \div 128, BodyLen(b, last)))
              \/ Waits(Size(b, last))
  <1>1. PICK b, last : Header(b, last) /\ Take(2 + Ext(b), b \div 128, BodyLen(b, last))
    BY Zenon DEF ParseText, Header
  <1> DEFINE pos == 2 + Ext(b)
             mask == b \div 128
             len == BodyLen(b, last)
  <1>2. Size(b, last) = pos + len + 4 * mask
    BY DEF Size
  <1> HIDE DEF pos, mask, len
  <1>3. Take(pos, mask, len)
    BY <1>1 DEF pos, mask, len
  <1>4. \/ Took(pos + len + 4 * mask, Body(pos, mask, len))
        \/ Waits(pos + len + 4 * mask)
    BY <1>3, Zenon DEF Take, Took, Waits, Body, Key, Data, ParseMore
  <1> QED BY <1>1, <1>2, <1>4 DEF pos, mask, len

LEMMA TypeInit == Init => TypeOK
  <1> SUFFICES ASSUME Init PROVE TypeOK
    OBVIOUS
  <1>1. /\ frames \in Streams /\ received = 0 /\ ring = <<>> /\ state = "normal"
        /\ busy = FALSE /\ parsed = <<>> /\ crashed = FALSE
    BY DEF Init
  <1>2. Len(Stream) \in Nat
    BY <1>1, StreamFacts
  <1>3. received \in 0 .. Len(Stream)
    <2> DEFINE n == Len(Stream)
    <2> HIDE DEF n
    <2>1. n \in Nat /\ received = 0
      BY <1>1, <1>2 DEF n
    <2>2. received \in 0 .. n
      BY <2>1
    <2> QED BY <2>2 DEF n
  <1>4. ring \in Seq(Byte) /\ parsed \in Seq(JsonText)
    BY <1>1, EmptySeq
  <1>5. busy \in BOOLEAN /\ crashed \in BOOLEAN
    BY <1>1
  <1>6. state \in {"normal", "incomplete"}
    BY <1>1
  <1> QED BY <1>1, <1>3, <1>4, <1>5, <1>6, Zenon DEF TypeOK

\* A chunk of the stream.
LEMMA ChunkFacts ==
  ASSUME TypeOK, NEW n \in 1 .. Len(Stream) - received
  PROVE  LET chunk == SubSeq(Stream, received + 1, received + n)
         IN  /\ received \in Nat /\ n \in Nat
             /\ received + n \in 0 .. Len(Stream)
             /\ chunk \in Seq(Byte) /\ chunk[1] = Stream[received + 1]
  <1> DEFINE L == Len(Stream)
             chunk == SubSeq(Stream, received + 1, received + n)
  <1>1. L \in Nat /\ received \in 0 .. L /\ \A i \in 1 .. L : Stream[i] \in Byte
    <2>1. Stream \in Seq(Byte) /\ received \in 0 .. L
      BY StreamFacts DEF TypeOK
    <2> QED BY <2>1, LenProperties
  <1>2. n \in 1 .. L - received
    OBVIOUS
  <1> HIDE DEF L
  <1>3. /\ received \in Nat /\ n \in Nat /\ received + n \in 0 .. L
        /\ 1 \in 1 .. received + n - (received + 1) + 1
        /\ received + 1 + 1 - 1 = received + 1
    BY <1>1, <1>2
  <1>4. \A i \in received + 1 .. received + n : Stream[i] \in Byte
    BY <1>1, <1>3
  <1>5. /\ chunk \in Seq(Byte)
        /\ \A i \in 1 .. received + n - (received + 1) + 1 : chunk[i] = Stream[received + 1 + i - 1]
    BY <1>3, <1>4, SubSeqProperties
  <1> HIDE DEF chunk
  <1>6. chunk[1] = Stream[received + 1]
    BY <1>3, <1>5
  <1> QED BY <1>3, <1>5, <1>6 DEF L, chunk

\* What a type-correct state has to keep.
LEMMA TypeKept ==
  ASSUME TypeOK, frames' = frames,
         received' \in 0 .. Len(Stream), ring' \in Seq(Byte), state' \in {"normal", "incomplete"},
         busy' \in BOOLEAN, parsed' \in Seq(JsonText), crashed' \in BOOLEAN
  PROVE  TypeOK'
  <1>1. Stream' = Stream
    BY FramesStay
  <1>2. frames' \in Streams
    BY DEF TypeOK
  <1> QED BY <1>1, <1>2, Zenon DEF TypeOK

LEMMA TypeStep == TypeOK /\ [Next]_vars => TypeOK'
  <1> SUFFICES ASSUME TypeOK, [Next]_vars PROVE TypeOK'
    OBVIOUS
  <1>0. /\ received \in 0 .. Len(Stream) /\ ring \in Seq(Byte)
        /\ state \in {"normal", "incomplete"} /\ busy \in BOOLEAN
        /\ parsed \in Seq(JsonText) /\ crashed \in BOOLEAN
    BY DEF TypeOK
  <1>1. ASSUME NEW n \in 1 .. Len(Stream) - received, Read(n) PROVE TypeOK'
    <2> DEFINE chunk == SubSeq(Stream, received + 1, received + n)
    <2>1. chunk \in Seq(Byte) /\ received + n \in 0 .. Len(Stream)
      BY ChunkFacts
    <2> HIDE DEF chunk
    <2>2. /\ received' = received + n
          /\ frames' = frames /\ parsed' = parsed /\ crashed' = crashed
          /\ \/ ring' = ring /\ state' = state /\ busy' = busy
             \/ ring' = Put(chunk) /\ state' = "normal" /\ busy' = TRUE
      BY <1>1, Zenon DEF Read, chunk
    <2>3. Put(chunk) \in Seq(Byte)
      <3>1. ring \o chunk \in Seq(Byte)
        BY <1>0, <2>1, ConcatProperties
      <3> QED BY <2>1, <3>1 DEF Put
    <2>4. ring' \in Seq(Byte) /\ state' \in {"normal", "incomplete"} /\ busy' \in BOOLEAN
      BY <1>0, <2>2, <2>3
    <2>5. received' \in 0 .. Len(Stream) /\ parsed' \in Seq(JsonText) /\ crashed' \in BOOLEAN
      BY <1>0, <2>1, <2>2
    <2> QED BY <2>2, <2>4, <2>5, TypeKept
  <1>2. CASE ParseNothing
    <2>1. /\ frames' = frames /\ received' = received /\ ring' = ring /\ state' = state
          /\ parsed' = parsed /\ crashed' = crashed /\ busy' = FALSE
      BY <1>2 DEF ParseNothing
    <2> QED BY <1>0, <2>1, TypeKept
  <1>3. CASE ParseNull
    <2>1. /\ frames' = frames /\ received' = received /\ ring' = ring /\ state' = state
          /\ parsed' = parsed /\ crashed' = TRUE /\ busy' = FALSE
      BY <1>3 DEF ParseNull
    <2> QED BY <1>0, <2>1, TypeKept
  <1>4. CASE ParseText
    <2>1. frames' = frames /\ received' = received /\ crashed' = crashed
      BY <1>4 DEF ParseText
    <2>2. PICK b, last :
            /\ Header(b, last)
            /\ \/ Took(Size(b, last), Body(2 + Ext(b), b \div 128, BodyLen(b, last)))
               \/ Waits(Size(b, last))
      BY <1>4, TextTaken
    <2>3. CASE Waits(Size(b, last))
      <3>1. ring' = ring /\ parsed' = parsed /\ state' = "incomplete" /\ busy' = FALSE
        BY <2>3 DEF Waits
      <3> QED BY <1>0, <2>1, <3>1, TypeKept
    <2>4. CASE Took(Size(b, last), Body(2 + Ext(b), b \div 128, BodyLen(b, last)))
      <3> DEFINE pos == 2 + Ext(b)
                 mask == b \div 128
                 len == BodyLen(b, last)
                 size == Size(b, last)
                 body == Body(pos, mask, len)
      <3>1. pos \in Nat /\ mask \in {0, 1} /\ len \in Nat
        <4>1. Ext(b) \in {0, 2, 8} /\ mask \in {0, 1} /\ len \in Nat
          BY <2>2, HeaderTypes
        <4> QED BY <4>1
      <3>2. size = pos + len + 4 * mask
        BY DEF Size
      <3>3. Took(size, body)
        BY <2>4
      <3> HIDE DEF pos, mask, len, size, body
      <3>4. /\ Len(ring) >= size
            /\ ring' = SubSeq(ring, size + 1, Len(ring))
            /\ state' = "normal"
            /\ parsed' = IF IsJson(body) THEN Append(parsed, body) ELSE parsed
            /\ busy' = IsJson(body)
        BY <3>3 DEF Took
      <3>5. Len(ring) \in Nat /\ \A i \in 1 .. Len(ring) : ring[i] \in Byte
        BY RingTyped
      <3>6. size \in Nat /\ pos + len + 4 * mask <= Len(ring)
        BY <3>1, <3>2, <3>4, <3>5
      <3>7. body \in Seq(Byte)
        BY <3>1, <3>6, TakenBytes DEF body
      <3>8. IsJson(body) => body \in JsonText
        BY <3>7 DEF IsJson, JsonText
      <3>9. parsed' \in Seq(JsonText)
        BY <1>0, <3>4, <3>8, AppendProperties
      <3>10. ring' \in Seq(Byte)
        <4>1. \A i \in size + 1 .. Len(ring) : ring[i] \in Byte
          BY <3>5, <3>6
        <4> QED BY <3>4, <3>5, <3>6, <4>1, SubSeqProperties
      <3>11. busy' \in BOOLEAN
        BY <3>4, Zenon DEF IsJson
      <3>12. state' \in {"normal", "incomplete"}
        BY <3>4
      <3> QED BY <1>0, <2>1, <3>9, <3>10, <3>11, <3>12, TypeKept
    <2> QED BY <2>2, <2>3, <2>4
  <1>5. CASE UNCHANGED vars
    <2>1. /\ frames' = frames /\ received' = received /\ ring' = ring /\ state' = state
          /\ parsed' = parsed /\ crashed' = crashed /\ busy' = busy
      BY <1>5 DEF vars
    <2> QED BY <1>0, <2>1, TypeKept
  <1> QED BY <1>1, <1>2, <1>3, <1>4, <1>5 DEF Next

\* For all streams, cut in every way, and whatever is left in the ring buffer:
\* every variable keeps its type, and what is returned is JSON.
THEOREM TypeCorrect == Spec => []TypeOK
  <1>1. TypeOK /\ [Next]_vars => TypeOK'
    BY TypeStep
  <1> QED BY TypeInit, <1>1, PTL DEF Spec

-------------------------------------------------------------------------------
(* A connection that carries JSON texts only. *)

\* The frame that is being collected.
Current == frames[Done + 1]

LEMMA JsonFrame ==
  ASSUME TypeOK, JsonStream, NEW k \in 1 .. Len(frames)
  PROVE  /\ Legal(frames[k]) /\ frames[k].body \in JsonText
         /\ Encode(frames[k])[1] = Text /\ 2 <= Len(Encode(frames[k]))
         /\ \A j \in 2 .. Len(Encode(frames[k])) : Encode(frames[k])[j] # Text
  <1> DEFINE f == frames[k]
  <1>1. frames \in Streams
    BY DEF TypeOK
  <1>2. DOMAIN frames = 1 .. Len(frames) /\ Encoded[k] = Encode(f)
    BY <1>1, EncodedFacts
  <1>3. Legal(f)
    BY <1>1, FramesTyped DEF Legal
  <1>4. /\ f.op = Text /\ f.body \in JsonText
        /\ \A j \in 2 .. Len(Encode(f)) : Encode(f)[j] # Text
    BY <1>2, Zenon DEF JsonStream
  <1> HIDE DEF f
  <1>5. Encode(f)[1] = Text
    BY <1>3, <1>4, EncodeFacts, Zenon DEF Legal
  <1>6. 2 <= Len(Encode(f))
    <2> DEFINE e == Len(Encode(f))
               l == Len(f.body)
    <2>1. /\ f.ext \in {0, 2, 8} /\ Masked(f) \in {0, 1} /\ l \in Nat
          /\ e = 2 + f.ext + 4 * Masked(f) + l
      BY <1>3, LegalFrame
    <2> HIDE DEF e, l
    <2>2. 2 <= e
      BY <2>1
    <2> QED BY <2>2 DEF e
  <1> QED BY <1>3, <1>4, <1>5, <1>6 DEF f

\* Positions: what has been returned, what has been read, what is to come.
LEMMA Positions ==
  ASSUME TypeOK, Returned, Buffered
  PROVE  /\ Len(frames) \in Nat /\ Done \in 0 .. Len(frames) /\ parsed \in Seq(JsonText)
         /\ End(Done) \in Nat /\ received \in Nat /\ Len(Stream) \in Nat
         /\ End(Done) <= received /\ received <= Len(Stream)
         /\ Done = Len(frames) => received = End(Done)
  <1> DEFINE L == Len(Stream)
             N == Len(frames)
             d == Done
  <1>1. frames \in Streams /\ parsed \in Seq(JsonText)
    BY DEF TypeOK
  <1>2. N \in Nat /\ d \in Nat
    BY <1>1, EncodedFacts, LenProperties DEF Done
  <1>3. d <= N /\ End(d) <= received
    BY DEF Returned, Buffered
  <1> HIDE DEF d, N
  <1>4. d \in 0 .. N
    BY <1>2, <1>3
  <1>5. End(d) \in Nat /\ L \in Nat /\ End(N) = L
    BY <1>1, <1>4, StreamFacts DEF N
  <1>6. received \in 0 .. L
    BY DEF TypeOK
  <1> HIDE DEF L
  <1>7. received \in Nat /\ received <= L
    BY <1>5, <1>6
  <1>8. d = N => received = End(d)
    BY <1>3, <1>5, <1>7
  <1> QED BY <1>1, <1>2, <1>3, <1>4, <1>5, <1>7, <1>8 DEF d, N, L

LEMMA Collected ==
  ASSUME TypeOK, Returned, Buffered
  PROVE  /\ Len(ring) = received - End(Done)
         /\ \A j \in 1 .. Len(ring) : ring[j] = Stream[End(Done) + j]
         /\ ring = <<>> <=> received = End(Done)
  <1> DEFINE e == End(Done)
             n == Len(ring)
  <1>1. /\ e \in Nat /\ received \in Nat /\ e <= received /\ received <= Len(Stream)
        /\ Len(Stream) \in Nat
    BY Positions
  <1>2. \A i \in 1 .. Len(Stream) : Stream[i] \in Byte
    <2>1. Stream \in Seq(Byte)
      BY StreamFacts DEF TypeOK
    <2> QED BY <2>1, LenProperties
  <1>3. ring = SubSeq(Stream, e + 1, received) /\ ring \in Seq(Byte)
    BY DEF Buffered, TypeOK
  <1> HIDE DEF e
  <1>4. \A i \in e + 1 .. received : Stream[i] \in Byte
    BY <1>1, <1>2
  <1>5. /\ n = IF e + 1 <= received THEN received - (e + 1) + 1 ELSE 0
        /\ \A i \in 1 .. received - (e + 1) + 1 : ring[i] = Stream[e + 1 + i - 1]
    BY <1>1, <1>3, <1>4, SubSeqProperties
  <1>6. ring = <<>> <=> n = 0
    BY <1>3, EmptySeq
  <1> HIDE DEF n
  <1>7. n = received - e
    BY <1>1, <1>5
  <1>8. \A j \in 1 .. n : ring[j] = Stream[e + j]
    BY <1>1, <1>5, <1>7
  <1>9. ring = <<>> <=> received = e
    BY <1>1, <1>6, <1>7
  <1> QED BY <1>7, <1>8, <1>9 DEF e, n

\* The ring buffer holds the beginning of the frame that is being collected.
LEMMA CurrentFrame ==
  ASSUME TypeOK, JsonStream, Returned, Buffered, Done # Len(frames)
  PROVE  /\ Done + 1 \in 1 .. Len(frames) /\ Done < Len(frames)
         /\ Legal(Current) /\ Begins(Current) /\ Current.body \in JsonText
         /\ 2 <= Len(Encode(Current)) /\ Len(Encode(Current)) \in Nat
         /\ End(Done + 1) = End(Done) + Len(Encode(Current))
         /\ \A j \in 1 .. Len(Encode(Current)) : Stream[End(Done) + j] = Encode(Current)[j]
         /\ Encode(Current)[1] = Text
         /\ \A j \in 2 .. Len(Encode(Current)) : Encode(Current)[j] # Text
         /\ ring # <<>> => AtText
  <1> DEFINE k == Done + 1
             E == Encode(Current)
  <1>1. Len(frames) \in Nat /\ Done \in 0 .. Len(frames)
    BY Positions
  <1>2. k \in 1 .. Len(frames) /\ Done < Len(frames) /\ k - 1 = Done
    BY <1>1
  <1> HIDE DEF k
  <1>3. /\ Legal(frames[k]) /\ frames[k].body \in JsonText
        /\ Encode(frames[k])[1] = Text /\ 2 <= Len(Encode(frames[k]))
        /\ \A j \in 2 .. Len(Encode(frames[k])) : Encode(frames[k])[j] # Text
    BY <1>2, JsonFrame
  <1>4. /\ End(k) = End(Done) + Len(Encode(frames[k]))
        /\ \A j \in 1 .. Len(Encode(frames[k])) : Stream[End(Done) + j] = Encode(frames[k])[j]
    <2>1. frames \in Streams
      BY DEF TypeOK
    <2> QED BY <1>2, <2>1, FrameInStream
  <1>5. Current = frames[k]
    BY DEF Current, k
  <1>6. Len(E) \in Nat
    <2>1. E \in Seq(Byte)
      BY <1>3, <1>5, LegalFrame
    <2> QED BY <2>1, LenProperties
  <1>7. Begins(Current)
    <2> DEFINE n == Len(ring)
               l == Len(E)
    <2>1. n \in Nat /\ \A j \in 1 .. n : ring[j] = Stream[End(Done) + j]
      BY RingTyped, Collected
    <2>2. \A j \in 1 .. l : Stream[End(Done) + j] = E[j]
      BY <1>4, <1>5
    <2> HIDE DEF n, l, E
    <2>3. \A j \in 1 .. n : j <= l => ring[j] = E[j]
      <3> TAKE j \in 1 .. n
      <3> HAVE j <= l
      <3>1. j \in 1 .. l
        BY <1>6, <2>1 DEF l
      <3> QED BY <2>1, <2>2, <3>1
    <2> QED BY <2>3 DEF Begins, n, l, E
  <1>8. ring # <<>> => AtText
    <2> HAVE ring # <<>>
    <2>1. Len(ring) \in Nat /\ Len(ring) # 0
      BY EmptySeq, RingTyped DEF TypeOK
    <2>2. 1 \in 1 .. Len(ring)
      BY <2>1
    <2>3. 1 <= Len(Encode(Current))
      <3> DEFINE l == Len(Encode(Current))
      <3>1. l \in Nat /\ 2 <= l
        BY <1>3, <1>5, <1>6
      <3> HIDE DEF l
      <3>2. 1 <= l
        BY <3>1
      <3> QED BY <3>2 DEF l
    <2>4. ring[1] = Encode(Current)[1]
      BY <1>7, <2>2, <2>3 DEF Begins
    <2> QED BY <1>3, <1>5, <2>4 DEF AtText
  <1> QED BY <1>2, <1>3, <1>4, <1>5, <1>6, <1>7, <1>8 DEF k

LEMMA CutTwice ==
  ASSUME NEW T, NEW ss \in Seq(T), NEW a \in Nat, NEW b \in Nat, NEW k \in Nat,
         a + k <= b, b <= Len(ss)
  PROVE  SubSeq(SubSeq(ss, a + 1, b), k + 1, b - a) = SubSeq(ss, a + k + 1, b)
  <1> DEFINE r == SubSeq(ss, a + 1, b)
             u == SubSeq(r, k + 1, b - a)
             v == SubSeq(ss, a + k + 1, b)
  <1>1. Len(ss) \in Nat /\ \A i \in 1 .. Len(ss) : ss[i] \in T
    BY LenProperties
  <1>2. \A i \in a + 1 .. b : ss[i] \in T
    BY <1>1
  <1>3. \A i \in 1 .. b - (a + 1) + 1 : r[i] = ss[a + 1 + i - 1]
    BY <1>2, SubSeqProperties
  <1> HIDE DEF r
  <1>4. \A i \in 1 .. b - a : r[i] = ss[a + i]
    BY <1>3
  <1>5. \A i \in k + 1 .. b - a : r[i] \in T
    <2> TAKE i \in k + 1 .. b - a
    <2>1. i \in 1 .. b - a /\ a + i \in a + 1 .. b
      OBVIOUS
    <2> QED BY <1>2, <1>4, <2>1
  <1>6. /\ u \in Seq(T)
        /\ Len(u) = IF k + 1 <= b - a THEN b - a - (k + 1) + 1 ELSE 0
        /\ \A i \in 1 .. b - a - (k + 1) + 1 : u[i] = r[k + 1 + i - 1]
    BY <1>5, SubSeqProperties
  <1>7. \A i \in a + k + 1 .. b : ss[i] \in T
    BY <1>2
  <1>8. /\ v \in Seq(T)
        /\ Len(v) = IF a + k + 1 <= b THEN b - (a + k + 1) + 1 ELSE 0
        /\ \A i \in 1 .. b - (a + k + 1) + 1 : v[i] = ss[a + k + 1 + i - 1]
    BY <1>7, SubSeqProperties
  <1> HIDE DEF u, v
  <1>9. Len(u) = b - a - k /\ Len(v) = b - a - k
    BY <1>6, <1>8
  <1>10. \A i \in 1 .. b - a - k : u[i] = v[i]
    <2> TAKE i \in 1 .. b - a - k
    <2>1. /\ u[i] = r[k + i] /\ v[i] = ss[a + k + i]
          /\ k + i \in 1 .. b - a /\ a + (k + i) = a + k + i
      BY <1>6, <1>8
    <2> QED BY <1>4, <2>1
  <1>11. u = v
    BY <1>6, <1>8, <1>9, <1>10, SeqEqual
  <1> QED BY <1>11 DEF u, v, r

\* What a state has to keep.
LEMMA JsonKept ==
  ASSUME frames' = frames,
         NEW d, Len(parsed') = d, d <= Len(frames),
         \A i \in 1 .. d : parsed'[i] = frames[i].body,
         End(d) <= received', ring' = SubSeq(Stream, End(d) + 1, received'),
         busy' => state' = "normal" /\ ~crashed',
         ~busy' /\ ~crashed' => /\ d < Len(frames) => received' < End(d + 1)
                                /\ state' = "incomplete" <=> received' > End(d),
         crashed' => /\ d < Len(frames)
                     /\ received' - End(d) \in 1 .. 1 + frames[d + 1].ext
  PROVE  JsonInv'
  <1>1. Done' = d
    BY DEF Done
  <1>2. Stream' = Stream /\ Encoded' = Encoded
    BY FramesStay
  <1>3. End(Done)' = End(d) /\ End(Done + 1)' = End(d + 1)
    BY <1>1, <1>2 DEF End
  <1>4. Returned'
    BY <1>1 DEF Returned
  <1>5. Buffered'
    BY <1>2, <1>3, Zenon DEF Buffered
  <1>6. InCall'
    BY Zenon DEF InCall
  <1>7. Between'
    BY <1>1, <1>3, Zenon DEF Between
  <1>8. Dead'
    BY <1>1, <1>3, Zenon DEF Dead
  <1> QED BY <1>4, <1>5, <1>6, <1>7, <1>8 DEF JsonInv

\* A read appends what has arrived to the beginning of the current frame, or
\* begins with the first byte of a frame.
LEMMA ReadKeepsJson ==
  ASSUME TypeOK, JsonStream, JsonInv, NEW n \in 1 .. Len(Stream) - received, Read(n)
  PROVE  JsonInv'
  <1> DEFINE chunk == SubSeq(Stream, received + 1, received + n)
             e == End(Done)
             L == Len(Stream)
  <1>0. Returned /\ Buffered /\ InCall /\ Between /\ Dead
    BY DEF JsonInv
  <1>1. /\ e \in Nat /\ received \in Nat /\ L \in Nat /\ e <= received
        /\ (Done = Len(frames) => received = e)
        /\ Done \in 0 .. Len(frames) /\ Len(frames) \in Nat
    BY <1>0, Positions
  <1>2. n \in Nat /\ received + n \in 0 .. L /\ chunk[1] = Stream[received + 1]
    BY ChunkFacts
  <1>3. Done # Len(frames)
    <2>1. CASE Done = Len(frames)
      <3>1. End(Len(frames)) = L
        BY StreamFacts DEF TypeOK
      <3>2. received = L /\ n \in 1 .. L - received
        BY <1>1, <2>1, <3>1
      <3> HIDE DEF L, chunk
      <3> QED BY <1>1, <3>2
    <2> QED BY <2>1
  <1>4. /\ frames' = frames /\ received' = received + n /\ parsed' = parsed
        /\ crashed' = crashed /\ ~busy /\ ~crashed
        /\ \/ chunk[1] # Text /\ state = "normal"
           \/ /\ ~(chunk[1] # Text /\ state = "normal")
              /\ ring' = Put(chunk) /\ state' = "normal" /\ busy' = TRUE
    BY Zenon DEF Read
  <1>5. /\ received < End(Done + 1)
        /\ state = "incomplete" <=> received > e
        /\ state \in {"normal", "incomplete"}
    <2>1. Done < Len(frames)
      BY <1>0, <1>3, CurrentFrame
    <2> QED BY <1>0, <1>4, <2>1 DEF Between, TypeOK
  <1>6. /\ Len(Encode(Current)) \in Nat /\ 2 <= Len(Encode(Current))
        /\ End(Done + 1) = e + Len(Encode(Current))
        /\ \A j \in 1 .. Len(Encode(Current)) : Stream[e + j] = Encode(Current)[j]
        /\ Encode(Current)[1] = Text
        /\ \A j \in 2 .. Len(Encode(Current)) : Encode(Current)[j] # Text
    BY <1>0, <1>3, CurrentFrame
  <1>7. chunk[1] = Text <=> received = e
    <2> DEFINE l == Len(Encode(Current))
               j == received - e + 1
               f == Current
               z == End(Done + 1)
    <2>1. l \in Nat /\ 2 <= l /\ z = e + l /\ received < z
      BY <1>5, <1>6
    <2>2. chunk[1] = Stream[received + 1]
      BY <1>2
    <2>3. \A i \in 1 .. l : Stream[e + i] = Encode(f)[i]
      BY <1>6
    <2>4. Encode(f)[1] = Text /\ \A i \in 2 .. l : Encode(f)[i] # Text
      BY <1>6
    <2> HIDE DEF l, f, z, e, chunk
    <2>5. j \in 1 .. l /\ e + j = received + 1 /\ (j = 1 <=> received = e)
      BY <1>1, <2>1
    <2>6. chunk[1] = Encode(f)[j]
      BY <2>2, <2>3, <2>5
    <2>7. CASE j = 1
      BY <2>4, <2>5, <2>6, <2>7
    <2>8. CASE j # 1
      <3>1. j \in 2 .. l
        BY <2>5, <2>8
      <3> QED BY <2>4, <2>5, <2>6, <2>8, <3>1
    <2> QED BY <2>7, <2>8
  <1>8. state = "normal" <=> received = e
    <2> HIDE DEF e
    <2>1. received > e <=> received # e
      BY <1>1
    <2> QED BY <1>5, <2>1
  <1> HIDE DEF chunk
  <1>9. ring' = Put(chunk) /\ state' = "normal" /\ busy' = TRUE
    BY <1>4, <1>7, <1>8
  <1>10. Put(chunk) = ring \o chunk
    BY <1>7, <1>8 DEF Put
  <1>11. ring \o chunk = SubSeq(Stream, e + 1, received + n)
    <2>1. Stream \in Seq(Byte)
      BY StreamFacts DEF TypeOK
    <2>2. ring = SubSeq(Stream, e + 1, received)
      BY <1>0 DEF Buffered
    <2> DEFINE m == e + 1
               x == received + n
    <2> HIDE DEF e
    <2>3. received \in 0 .. L
      BY DEF TypeOK
    <2>4. m \in 1 .. L + 1 /\ received \in m - 1 .. L /\ x \in received .. L
      <3> HIDE DEF L
      <3> QED BY <1>1, <1>2, <2>3
    <2> HIDE DEF m, x
    <2>5. SubSeq(Stream, m, received) \o SubSeq(Stream, received + 1, x) = SubSeq(Stream, m, x)
      BY <2>1, <2>4, ConcatAdjacentSubSeq
    <2> QED BY <2>2, <2>5 DEF m, x, chunk
  <1>12. Len(parsed') = Done /\ Done <= Len(frames) /\ \A i \in 1 .. Done : parsed'[i] = frames[i].body
    BY <1>0, <1>4 DEF Returned, Done
  <1>13. End(Done) <= received'
    <2> HIDE DEF e
    <2>1. e <= received + n
      BY <1>1, <1>2
    <2> QED BY <1>4, <2>1 DEF e
  <1>14. ring' = SubSeq(Stream, End(Done) + 1, received')
    BY <1>4, <1>9, <1>10, <1>11
  <1>15. busy' = TRUE /\ state' = "normal" /\ ~crashed'
    BY <1>4, <1>9
  <1> HIDE DEF e
  <1> QED BY <1>4, <1>12, <1>13, <1>14, <1>15, JsonKept

LEMMA NothingKeepsJson ==
  ASSUME TypeOK, JsonStream, JsonInv, ParseNothing
  PROVE  JsonInv'
  <1> DEFINE e == End(Done)
  <1>0. Returned /\ Buffered /\ InCall /\ Between /\ Dead
    BY DEF JsonInv
  <1>1. /\ frames' = frames /\ received' = received /\ ring' = ring /\ state' = state
        /\ parsed' = parsed /\ crashed' = crashed /\ busy' = FALSE /\ busy /\ ~AtText
    BY DEF ParseNothing
  <1>2. state = "normal" /\ ~crashed
    BY <1>0, <1>1 DEF InCall
  <1>3. /\ e \in Nat /\ received \in Nat /\ (Done = Len(frames) => received = e)
        /\ (ring = <<>> <=> received = e)
    BY <1>0, Positions, Collected
  <1>4. ring = <<>>
    <2>1. CASE Done = Len(frames)
      BY <1>3, <2>1
    <2>2. CASE Done # Len(frames)
      BY <1>0, <1>1, <2>2, CurrentFrame
    <2> QED BY <2>1, <2>2
  <1>5. received = e
    BY <1>3, <1>4
  <1>6. Done < Len(frames) => received < End(Done + 1)
    <2> HAVE Done < Len(frames)
    <2>1. Done # Len(frames)
      <3>1. Len(frames) \in Nat /\ Done \in 0 .. Len(frames)
        BY <1>0, Positions
      <3> DEFINE N == Len(frames)
                 d == Done
      <3>2. N \in Nat /\ d < N
        BY <3>1
      <3> HIDE DEF N, d
      <3>3. d # N
        BY <3>2
      <3> QED BY <3>3 DEF d, N
    <2> DEFINE l == Len(Encode(Current))
               z == End(Done + 1)
    <2>2. l \in Nat /\ 2 <= l /\ z = e + l
      BY <1>0, <2>1, CurrentFrame
    <2> HIDE DEF l, z, e
    <2>3. e < z
      BY <1>3, <2>2
    <2> QED BY <1>5, <2>3 DEF z
  <1>7. ~(received > e)
    <2> HIDE DEF e
    <2> QED BY <1>3, <1>5
  <1>8. Len(parsed') = Done /\ Done <= Len(frames) /\ \A i \in 1 .. Done : parsed'[i] = frames[i].body
    BY <1>0, <1>1 DEF Returned, Done
  <1>9. End(Done) <= received' /\ ring' = SubSeq(Stream, End(Done) + 1, received')
    BY <1>0, <1>1 DEF Buffered
  <1>10. ~busy' /\ ~crashed' /\ state' = "normal"
    BY <1>1, <1>2
  <1>11. /\ Done < Len(frames) => received' < End(Done + 1)
         /\ state' = "incomplete" <=> received' > End(Done)
    BY <1>1, <1>2, <1>6, <1>7
  <1> QED BY <1>1, <1>8, <1>9, <1>10, <1>11, JsonKept

LEMMA NullKeepsJson ==
  ASSUME TypeOK, JsonStream, JsonInv, ParseNull
  PROVE  JsonInv'
  <1>0. Returned /\ Buffered /\ InCall /\ Between /\ Dead
    BY DEF JsonInv
  <1>1. /\ frames' = frames /\ received' = received /\ ring' = ring /\ state' = state
        /\ parsed' = parsed /\ crashed' = TRUE /\ busy' = FALSE /\ AtText
        /\ \E b \in Ref(1) : Ext(b) > 0 /\ Ref(Ext(b) + 1) = {}
    BY DEF ParseNull
  <1>2. PICK b \in Ref(1) : Ext(b) > 0 /\ Ref(Ext(b) + 1) = {}
    BY <1>1
  <1>3. ring # <<>>
    BY <1>1 DEF AtText
  <1>4. Done # Len(frames)
    BY <1>0, <1>3, Positions, Collected
  <1>5. Legal(Current) /\ Begins(Current) /\ Done < Len(frames)
    BY <1>0, <1>4, CurrentFrame
  <1>6. Len(ring) \in 1 .. 1 + Current.ext
    BY <1>2, <1>3, <1>5, NullInHeader
  <1>7. received - End(Done) \in 1 .. 1 + frames[Done + 1].ext
    <2>1. Len(ring) = received - End(Done)
      BY <1>0, Collected
    <2> QED BY <1>6, <2>1, Zenon DEF Current
  <1>8. Len(parsed') = Done /\ Done <= Len(frames) /\ \A i \in 1 .. Done : parsed'[i] = frames[i].body
    BY <1>0, <1>1 DEF Returned, Done
  <1>9. End(Done) <= received' /\ ring' = SubSeq(Stream, End(Done) + 1, received')
    BY <1>0, <1>1 DEF Buffered
  <1>10. /\ Done < Len(frames)
         /\ received' - End(Done) \in 1 .. 1 + frames[Done + 1].ext
    BY <1>1, <1>5, <1>7, Zenon
  <1>11. ~busy' /\ crashed'
    BY <1>1
  <1> QED BY <1>1, <1>8, <1>9, <1>10, <1>11, JsonKept

\* A call takes the current frame out of the ring buffer, or waits for more
\* of it.
LEMMA TextKeepsJson ==
  ASSUME TypeOK, JsonStream, JsonInv, ParseText
  PROVE  JsonInv'
  <1> DEFINE e == End(Done)
             z == End(Done + 1)
             l == Len(Encode(Current))
             n == Len(ring)
  <1>0. Returned /\ Buffered /\ InCall /\ Between /\ Dead
    BY DEF JsonInv
  <1>1. frames' = frames /\ received' = received /\ crashed' = crashed /\ busy /\ AtText
    BY DEF ParseText
  <1>2. state = "normal" /\ ~crashed
    BY <1>0, <1>1 DEF InCall
  <1>3. ring # <<>>
    BY <1>1 DEF AtText
  <1>4. /\ e \in Nat /\ received \in Nat /\ Len(Stream) \in Nat
        /\ e <= received /\ received <= Len(Stream)
        /\ Done \in Nat /\ Len(frames) \in Nat /\ n \in Nat
    BY <1>0, Positions, RingTyped
  <1>5. n = received - e /\ received # e
    BY <1>0, <1>3, Collected
  <1>6. Done # Len(frames)
    BY <1>0, <1>5, Positions
  <1>7. /\ Legal(Current) /\ Begins(Current) /\ Current.body \in JsonText
        /\ Done < Len(frames) /\ l \in Nat /\ z = e + l
    BY <1>0, <1>6, CurrentFrame
  <1>8. PICK b, last :
          /\ Header(b, last)
          /\ \/ Took(Size(b, last), Body(2 + Ext(b), b \div 128, BodyLen(b, last)))
             \/ Waits(Size(b, last))
    BY TextTaken
  <1> DEFINE size == Size(b, last)
             body == Body(2 + Ext(b), b \div 128, BodyLen(b, last))
  <1>9. size \in Nat /\ (n < size => n < l) /\ (n >= size => Understood(Current, b, last))
    BY <1>3, <1>7, <1>8, HeaderRead
  <1>10. Len(parsed) = Done /\ \A i \in 1 .. Done : parsed[i] = frames[i].body
    BY <1>0 DEF Returned, Done
  <1>11. CASE Waits(size)
    <2>1. ring' = ring /\ parsed' = parsed /\ state' = "incomplete" /\ busy' = FALSE /\ ~(n >= size)
      BY <1>11 DEF Waits
    <2>2. received < z /\ received > e
      <3> HIDE DEF e, z, l, n, size
      <3> QED BY <1>4, <1>5, <1>7, <1>9, <2>1
    <2>3. End(Done) <= received' /\ ring' = SubSeq(Stream, End(Done) + 1, received')
      BY <1>0, <1>1, <2>1 DEF Buffered
    <2>4. Len(parsed') = Done /\ Done <= Len(frames)
          /\ \A i \in 1 .. Done : parsed'[i] = frames[i].body
      BY <1>0, <1>10, <2>1 DEF Returned
    <2>5. ~busy' /\ ~crashed' /\ state' = "incomplete"
      BY <1>1, <1>2, <2>1
    <2>6. /\ Done < Len(frames) => received' < End(Done + 1)
          /\ state' = "incomplete" <=> received' > End(Done)
      BY <1>1, <2>1, <2>2
    <2> QED BY <1>1, <2>3, <2>4, <2>5, <2>6, JsonKept
  <1>12. CASE Took(size, body)
    <2>1. /\ n >= size /\ ring' = SubSeq(ring, size + 1, n) /\ state' = "normal"
          /\ parsed' = IF IsJson(body) THEN Append(parsed, body) ELSE parsed
          /\ busy' = IsJson(body)
      BY <1>12, Zenon DEF Took
    <2>2. Understood(Current, b, last)
      BY <1>9, <2>1
    <2>3. /\ Ext(b) = Current.ext /\ b \div 128 = Masked(Current)
          /\ BodyLen(b, last) = Len(Current.body) /\ size = l
      BY <2>2 DEF Understood
    <2>4. l <= n
      <3> HIDE DEF l, n, size
      <3> QED BY <1>4, <1>7, <2>1, <2>3
    <2>5. body = Current.body
      <3>1. Body(2 + Current.ext, Masked(Current), Len(Current.body)) = Current.body
        BY <1>7, <2>4, TakenBody
      <3> QED BY <2>3, <3>1, Zenon
    <2> HIDE DEF body, size
    <2>6. IsJson(body)
      BY <1>7, <2>5 DEF IsJson, JsonText
    <2>7. parsed' = Append(parsed, Current.body) /\ busy' = TRUE
      BY <2>1, <2>5, <2>6
    <2> DEFINE d == Done + 1
    <2>8. d \in Nat /\ d <= Len(frames) /\ End(d) = z /\ Current = frames[d]
      <3>1. d \in Nat /\ d <= Len(frames)
        <4> DEFINE D == Done
                   N == Len(frames)
        <4>1. D \in Nat /\ N \in Nat /\ D < N
          BY <1>4, <1>7
        <4> HIDE DEF D, N
        <4>2. D + 1 \in Nat /\ D + 1 <= N
          BY <4>1
        <4> QED BY <4>2 DEF D, N
      <3> QED BY <3>1 DEF Current
    <2>9. Len(parsed') = d /\ \A i \in 1 .. d : parsed'[i] = frames[i].body
      <3>1. parsed \in Seq(JsonText)
        BY DEF TypeOK
      <3>2. /\ Len(parsed') = Len(parsed) + 1
            /\ \A i \in 1 .. Len(parsed) : parsed'[i] = parsed[i]
            /\ parsed'[Len(parsed) + 1] = Current.body
        BY <1>7, <2>7, <3>1, AppendProperties
      <3> DEFINE D == Done
      <3>3. D \in Nat /\ Len(parsed) = D /\ d = D + 1
        BY <1>4, <1>10
      <3>4. \A i \in 1 .. D : parsed'[i] = frames[i].body
        BY <1>10, <3>2, <3>3
      <3> HIDE DEF D, d
      <3>5. \A i \in 1 .. d : i \in 1 .. D \/ i = d
        BY <3>3
      <3>6. parsed'[d] = frames[d].body /\ Len(parsed') = d
        BY <2>8, <3>2, <3>3
      <3> QED BY <3>4, <3>5, <3>6
    <2>10. z <= received
      <3> HIDE DEF e, z, l, n
      <3> QED BY <1>4, <1>5, <1>7, <2>4
    <2>11. ring' = SubSeq(Stream, z + 1, received)
      <3>1. Stream \in Seq(Byte) /\ ring = SubSeq(Stream, e + 1, received)
        BY <1>0, StreamFacts DEF TypeOK, Buffered
      <3>2. SubSeq(SubSeq(Stream, e + 1, received), l + 1, received - e)
              = SubSeq(Stream, e + l + 1, received)
        <4>1. e + l <= received
          <5> HIDE DEF e, z, l
          <5> QED BY <1>7, <2>10
        <4> HIDE DEF e, l
        <4> QED BY <1>4, <1>7, <3>1, <4>1, CutTwice
      <3> QED BY <1>5, <1>7, <2>1, <2>3, <3>1, <3>2
    <2>12. End(d) <= received' /\ ring' = SubSeq(Stream, End(d) + 1, received')
      BY <1>1, <2>8, <2>10, <2>11
    <2>13. busy' /\ state' = "normal" /\ ~crashed'
      BY <1>1, <1>2, <2>1, <2>7
    <2> HIDE DEF d
    <2> QED BY <1>1, <2>8, <2>9, <2>12, <2>13, JsonKept
  <1> QED BY <1>8, <1>11, <1>12

LEMMA JsonInit ==
  ASSUME Init, JsonStream
  PROVE  JsonInv
  <1>1. /\ received = 0 /\ ring = <<>> /\ state = "normal"
        /\ busy = FALSE /\ parsed = <<>> /\ crashed = FALSE
    BY DEF Init
  <1>2. TypeOK /\ frames \in Streams
    BY TypeInit DEF Init
  <1>3. Done = 0
    BY <1>1, EmptySeq DEF Done
  <1>4. End(0) = 0 /\ Len(frames) \in Nat /\ Stream \in Seq(Byte)
    BY <1>2, StreamFacts, EncodedFacts
  <1>5. Returned
    BY <1>3, <1>4 DEF Returned
  <1>6. Buffered
    <2>1. SubSeq(Stream, 1, 0) = <<>>
      BY <1>4, SubSeqEmpty
    <2> QED BY <1>1, <1>3, <1>4, <2>1 DEF Buffered
  <1>7. Done < Len(frames) => received < End(Done + 1)
    <2> HAVE Done < Len(frames)
    <2>1. Done # Len(frames)
      BY <1>3, <1>4
    <2> DEFINE l == Len(Encode(Current))
               z == End(Done + 1)
    <2>2. l \in Nat /\ 2 <= l /\ z = End(Done) + l
      BY <1>2, <1>5, <1>6, <2>1, CurrentFrame
    <2>3. z = 0 + l
      BY <1>3, <1>4, <2>2
    <2> HIDE DEF l, z
    <2>4. received < z
      BY <1>1, <2>2, <2>3
    <2> QED BY <2>4 DEF z
  <1>8. ~(received > End(Done))
    BY <1>1, <1>3, <1>4
  <1>9. InCall /\ Dead
    BY <1>1 DEF InCall, Dead
  <1>10. Between
    BY <1>1, <1>7, <1>8 DEF Between
  <1> QED BY <1>5, <1>6, <1>9, <1>10 DEF JsonInv

LEMMA JsonStep ==
  TypeOK /\ (JsonStream => JsonInv) /\ [Next]_vars => (JsonStream => JsonInv)'
  <1> SUFFICES ASSUME TypeOK, JsonStream => JsonInv, [Next]_vars, JsonStream'
               PROVE  JsonInv'
    OBVIOUS
  <1>1. frames' = frames
    BY DEF Next, Read, ParseNothing, ParseNull, ParseText, vars
  <1>2. JsonStream /\ JsonInv
    BY <1>1, FramesStay
  <1>3. CASE UNCHANGED vars
    <2>1. /\ frames' = frames /\ received' = received /\ ring' = ring /\ state' = state
          /\ parsed' = parsed /\ crashed' = crashed /\ busy' = busy
      BY <1>3 DEF vars
    <2>2. Returned /\ Buffered /\ InCall /\ Between /\ Dead
      BY <1>2 DEF JsonInv
    <2>3. /\ Len(parsed') = Done /\ Done <= Len(frames)
          /\ \A i \in 1 .. Done : parsed'[i] = frames[i].body
      BY <2>1, <2>2 DEF Returned, Done
    <2>4. End(Done) <= received' /\ ring' = SubSeq(Stream, End(Done) + 1, received')
      BY <2>1, <2>2 DEF Buffered
    <2>5. busy' => state' = "normal" /\ ~crashed'
      BY <2>1, <2>2 DEF InCall
    <2>6. ~busy' /\ ~crashed' => /\ Done < Len(frames) => received' < End(Done + 1)
                                 /\ state' = "incomplete" <=> received' > End(Done)
      BY <2>1, <2>2, Zenon DEF Between
    <2>7. crashed' => /\ Done < Len(frames)
                      /\ received' - End(Done) \in 1 .. 1 + frames[Done + 1].ext
      BY <2>1, <2>2, Zenon DEF Dead
    <2> QED BY <2>1, <2>3, <2>4, <2>5, <2>6, <2>7, JsonKept
  <1> QED BY <1>2, <1>3, ReadKeepsJson, NothingKeepsJson, NullKeepsJson, TextKeepsJson DEF Next

\* Between two calls the frames that have arrived are those returned.
LEMMA ReturnedIsDue ==
  ASSUME TypeOK, JsonStream, JsonInv, ~busy, ~crashed
  PROVE  Due = 1 .. Done
  <1> DEFINE N == Len(frames)
             d == Done
  <1>0. Returned /\ Buffered /\ Between /\ frames \in Streams
    BY DEF JsonInv, TypeOK
  <1>1. /\ N \in Nat /\ d \in 0 .. N /\ received \in Nat
        /\ End(d) <= received /\ DOMAIN frames = 1 .. N
    BY <1>0, Positions, EncodedFacts
  <1>2. \A k \in 0 .. N : End(k) \in Nat /\ \A j \in 0 .. k : End(j) <= End(k)
    BY <1>0, StreamFacts, EndOrdered
  <1>3. \A i \in 1 .. N : frames[i].op = Text /\ frames[i].body \in JsonText
    BY <1>1 DEF JsonStream
  <1>4. d < N => received < End(d + 1)
    BY <1>0 DEF Between
  <1> HIDE DEF N, d
  <1>5. ASSUME NEW i \in 1 .. N PROVE End(i) <= received <=> i <= d
    <2>1. CASE i <= d
      <3>1. i \in 0 .. d /\ i \in 0 .. N
        BY <1>1, <2>1
      <3>2. End(i) <= End(d) /\ End(i) \in Nat /\ End(d) \in Nat
        BY <1>1, <1>2, <3>1
      <3> QED BY <1>1, <2>1, <3>2
    <2>2. CASE ~(i <= d)
      <3>1. d < N /\ d + 1 \in 0 .. i /\ i \in 0 .. N /\ d + 1 \in 0 .. N
        BY <1>1, <2>2
      <3>2. End(d + 1) <= End(i) /\ End(i) \in Nat /\ End(d + 1) \in Nat
        BY <1>2, <3>1
      <3> QED BY <1>1, <1>4, <2>2, <3>1, <3>2
    <2> QED BY <2>1, <2>2
  <1>6. Due = {i \in 1 .. N : i <= d}
    BY <1>1, <1>3, <1>5 DEF Due
  <1>7. {i \in 1 .. N : i <= d} = 1 .. d
    BY <1>1
  <1> QED BY <1>6, <1>7 DEF d

LEMMA TextsInv == IInv => (JsonStream => TextIsParsed)
  <1> SUFFICES ASSUME TypeOK, JsonStream, JsonInv, ~busy, ~crashed
               PROVE  /\ Len(parsed) = Cardinality(Due)
                      /\ \A i \in Due :
                           parsed[Cardinality({j \in Due : j <= i})] = frames[i].body
    BY DEF IInv, TextIsParsed
  <1> DEFINE d == Done
  <1>1. Due = 1 .. d
    BY ReturnedIsDue
  <1>2. d \in Nat /\ Len(parsed) = d /\ \A i \in 1 .. d : parsed[i] = frames[i].body
    <2>1. Returned /\ Buffered
      BY DEF JsonInv
    <2>2. Done \in 0 .. Len(frames) /\ Len(frames) \in Nat
      BY <2>1, Positions
    <2> QED BY <2>1, <2>2 DEF Returned, Done
  <1> HIDE DEF d
  <1>3. Cardinality(1 .. d) = d
    BY <1>2, FS_Interval
  <1>4. ASSUME NEW i \in 1 .. d PROVE Cardinality({j \in 1 .. d : j <= i}) = i
    <2>1. {j \in 1 .. d : j <= i} = 1 .. i
      BY <1>2
    <2>2. Cardinality(1 .. i) = i
      BY <1>2, FS_Interval
    <2> QED BY <2>1, <2>2
  <1> QED BY <1>1, <1>2, <1>3, <1>4

LEMMA DeathInv == IInv => (JsonStream => CrashIsInHeader)
  <1> SUFFICES ASSUME TypeOK, JsonStream, JsonInv, crashed
               PROVE  \E i \in DOMAIN frames :
                        /\ received - End(i - 1) = Len(ring)
                        /\ received - End(i - 1) \in 1 .. 1 + frames[i].ext
    BY DEF IInv, CrashIsInHeader
  <1> DEFINE k == Done + 1
  <1>1. Returned /\ Buffered /\ Dead
    BY DEF JsonInv
  <1>2. /\ Done < Len(frames)
        /\ received - End(Done) \in 1 .. 1 + frames[k].ext
    BY <1>1 DEF Dead
  <1>3. Len(ring) = received - End(Done)
    BY <1>1, Collected
  <1>4. k - 1 = Done /\ k \in DOMAIN frames
    <2>1. DOMAIN frames = 1 .. Len(frames)
      BY EncodedFacts DEF TypeOK
    <2> DEFINE N == Len(frames)
               d == Done
    <2>2. N \in Nat /\ d \in 0 .. N /\ d < N /\ k = d + 1
      BY <1>1, <1>2, Positions
    <2> HIDE DEF N, d, k
    <2>3. k - 1 = d /\ k \in 1 .. N
      BY <2>2
    <2> QED BY <2>1, <2>3 DEF d, N
  <1> HIDE DEF k
  <1> QED BY <1>2, <1>3, <1>4

-------------------------------------------------------------------------------
(* The theorems. *)

LEMMA Inductive == Spec => []IInv
  <1>1. Init => IInv
    BY TypeInit, JsonInit DEF IInv
  <1>2. IInv /\ [Next]_vars => IInv'
    BY TypeStep, JsonStep DEF IInv
  <1> QED BY <1>1, <1>2, PTL DEF Spec

\* On a connection of JSON texts with 0x81 only in front of its frames, for
\* all bodies, masks and length fields, and however the bytes are cut into
\* reads: between two calls of ws_json_parse, the texts that have arrived
\* completely have been returned, in order and whole, and nothing else.
THEOREM TextsReturned == Spec => [](JsonStream => TextIsParsed)
  BY Inductive, TextsInv, PTL

\* On such a connection the process dies only of a read that ends inside the
\* header of a frame, with nothing of an earlier frame in the ring buffer.
THEOREM DiesInHeader == Spec => [](JsonStream => CrashIsInHeader)
  BY Inductive, DeathInv, PTL
===============================================================================

--------------------------- MODULE WjpEuclidProofs ---------------------------
(* TypeOK for every context; ReadBeforeWritten, and the steps that           *)
(* ResumesAfterBof allows, for the contexts whose reception buffer takes     *)
(* every length that may be received.                                        *)
EXTENDS WjpEuclid, SequenceTheorems, WellFoundedInduction, TLAPS

\* What may arrive is noise, frames and garbage included.
ArrivesAsNoise == \A s \in Chunks : s \in Seq(Noise(cfg))

\* The buffer takes every length the length bytes may hold: _wjp_euclid_relock
\* is not called for a header (WJPv5.h:258).
LengthsFit ==
  \A l \in [1 .. cfg.lensz -> Noise(cfg)] : Value(l) \in 0 .. cfg.rxlen

Receivable == ArrivesAsNoise /\ LengthsFit

HeaderSize == 1 + cfg.mrksz + cfg.lensz

\* The number of bytes of the frame being received.
Holding == IF phs = "BOF" THEN 0 ELSE 1 + Len(mrk) + Len(len) + cnt

\* The bytes held are those of the phase.
FrameInv ==
  /\ cfg \in Configs
  /\ phs \in {"BOF", "MRK", "LEN", "PCK", "CRC"}
  /\ mrk \in Seq(Noise(cfg)) /\ Len(mrk) <= cfg.mrksz
  /\ len \in Seq(Noise(cfg)) /\ Len(len) <= cfg.lensz
  /\ crc \in Seq(Noise(cfg)) /\ Len(crc) <= cfg.crcsz
  /\ cnt \in 0 .. cfg.rxlen
  /\ phs = "MRK" => Len(mrk) < cfg.mrksz /\ len = <<>> /\ cnt = 0
  /\ phs = "LEN" => Len(mrk) = cfg.mrksz /\ Len(len) < cfg.lensz /\ cnt = 0
  /\ phs \in {"PCK", "CRC"} => Len(mrk) = cfg.mrksz /\ Len(len) = cfg.lensz
  /\ phs = "PCK" => cnt < Length(len)
  /\ phs = "CRC" => cnt = Length(len) /\ cfg.crcsz = 1

BufferInv ==
  /\ rxbuf \in [0 .. cfg.limit - 1 -> Byte]
  /\ \A i \in 0 .. cnt - 1 : rxbuf[i] \in Noise(cfg)

Items == ({"byte"} \X Noise(cfg)) \cup ({"rxbuf"} \X (0 .. cfg.rxlen - 1))

\* A byte of rxbuf on the agenda was received, and comes up before the frame
\* being received, which has at least its header in front, can get to it.
AgendaInv ==
  /\ todo \in Seq(Items)
  /\ \A i \in 1 .. Len(todo) :
       todo[i][1] = "rxbuf" => /\ rxbuf[todo[i][2]] \in Noise(cfg)
                               /\ i + Holding <= todo[i][2] + HeaderSize

IInv == Receivable /\ FrameInv /\ BufferInv /\ AgendaInv

-----------------------------------------------------------------------------

\* What the assumption says of the context at work.
LEMMA ContextFacts ==
  ASSUME FrameInv
  PROVE  /\ cfg.bof \in Byte
         /\ cfg.mrksz \in 0 .. 3 /\ cfg.lensz \in 0 .. 3 /\ cfg.crcsz \in 0 .. 1
         /\ cfg.rxlen \in Nat /\ 1 <= cfg.rxlen
         /\ cfg.limit \in Nat /\ cfg.rxlen <= cfg.limit
         /\ Noise(cfg) \subseteq Byte
         /\ HeaderSize \in Nat /\ Holding \in Nat /\ cnt \in Nat
<1>1. cfg \in Configs
  BY DEF FrameInv
<1>2. /\ cfg.bof \in Byte
      /\ cfg.mrksz \in 0 .. 3 /\ cfg.lensz \in 0 .. 3 /\ cfg.crcsz \in 0 .. 1
      /\ cfg.rxlen \in Nat /\ 1 <= cfg.rxlen
      /\ cfg.limit \in Nat /\ cfg.rxlen <= cfg.limit
      /\ Noise(cfg) \subseteq Byte
  BY <1>1, EuclidAssumption
<1>3. Len(mrk) \in Nat /\ Len(len) \in Nat /\ cnt \in Nat
  BY <1>2 DEF FrameInv
<1>. QED
  BY <1>2, <1>3 DEF HeaderSize, Holding

\* A whole length fits.
LEMMA LengthFits ==
  ASSUME Receivable, FrameInv, NEW l \in Seq(Noise(cfg)), Len(l) = cfg.lensz
  PROVE  /\ Length(l) \in 0 .. cfg.rxlen
         /\ cfg.lensz > 0 => Length(l) = Value(l)
         /\ cfg.lensz = 0 => Length(l) >= 1
<1>1. l \in [1 .. cfg.lensz -> Noise(cfg)]
  BY LenProperties
<1>2. Value(l) \in 0 .. cfg.rxlen
  BY <1>1 DEF Receivable, LengthsFit
<1>. QED
  BY <1>2, ContextFacts DEF Length

\* The next byte of the agenda is one that was received.
LEMMA NextByteIsNoise ==
  ASSUME AgendaInv, todo # <<>>
  PROVE  NextByte \in Noise(cfg)
<1>1. Head(todo) = todo[1] /\ 1 \in 1 .. Len(todo) /\ todo[1] \in Items
  BY EmptySeq, ElementOfSeq, HeadTailProperties DEF AgendaInv
<1>2. CASE todo[1][1] = "byte"
  BY <1>1, <1>2 DEF NextByte, Read, Items
<1>3. CASE todo[1][1] # "byte"
  <2>1. todo[1][1] = "rxbuf"
    BY <1>1, <1>3 DEF Items
  <2>. QED
    BY <1>1, <2>1 DEF NextByte, Read, AgendaInv
<1>. QED
  BY <1>2, <1>3

\* Consuming a byte keeps the agenda, if the frame takes in at most that byte
\* and no place on the rest of the agenda is written but with noise.
LEMMA ConsumeKeepsAgenda ==
  ASSUME FrameInv, AgendaInv, Consume, cfg' = cfg, FrameInv',
         Holding' <= Holding + 1,
         \A j \in 0 .. cfg.rxlen - 1 :
           rxbuf'[j] = rxbuf[j] \/ rxbuf'[j] \in Noise(cfg)
  PROVE  AgendaInv'
<1>1. /\ todo \in Seq(Items) /\ todo # <<>> /\ todo' = Tail(todo)
  BY DEF AgendaInv, Consume
<1>2. /\ todo' \in Seq(Items) /\ Len(todo') = Len(todo) - 1
      /\ \A i \in 1 .. Len(todo') : todo'[i] = todo[i + 1]
  BY <1>1, HeadTailProperties
<1>3. Items' = Items /\ HeaderSize' = HeaderSize
  BY DEF Items, HeaderSize
<1>4. Holding \in Nat /\ Holding' \in Nat /\ HeaderSize \in Nat
  <2>1. Holding \in Nat /\ HeaderSize \in Nat
    BY ContextFacts
  <2>2. (FrameInv => Holding \in Nat)'
    BY ContextFacts, PTL
  <2>. QED
    BY <2>1, <2>2
<1>5. ASSUME NEW i \in 1 .. Len(todo'), todo'[i][1] = "rxbuf"
      PROVE  /\ rxbuf'[todo'[i][2]] \in Noise(cfg)
             /\ i + Holding' <= todo'[i][2] + HeaderSize
  <2>1. i + 1 \in 1 .. Len(todo) /\ todo'[i] = todo[i + 1] /\ i \in Nat
    BY <1>1, <1>2
  <2>2. todo[i + 1] \in Items
    BY <1>1, <2>1, ElementOfSeq
  <2>3. todo[i + 1][2] \in 0 .. cfg.rxlen - 1
    BY <1>5, <2>1, <2>2 DEF Items
  <2>4. /\ rxbuf[todo[i + 1][2]] \in Noise(cfg)
        /\ (i + 1) + Holding <= todo[i + 1][2] + HeaderSize
    BY <1>5, <2>1 DEF AgendaInv
  <2>5. cfg.rxlen \in Nat /\ todo[i + 1][2] \in Nat
    BY <2>3, ContextFacts
  <2>6. rxbuf'[todo[i + 1][2]] \in Noise(cfg)
    BY <2>3, <2>4
  <2>7. i + Holding' <= todo[i + 1][2] + HeaderSize
    BY <1>4, <2>1, <2>4, <2>5
  <2>. QED
    BY <2>1, <2>6, <2>7
<1>. QED
  BY <1>2, <1>3, <1>5 DEF AgendaInv

-----------------------------------------------------------------------------
(* What a relock pushes. *)

\* The first of a set of places is one of them and none comes before it.
LEMMA FirstIsLeast ==
  ASSUME NEW S \in SUBSET Nat, S # {}
  PROVE  First(S) \in S /\ \A i \in S : First(S) <= i
<1>. DEFINE Less == {p \in Nat \X Nat : p[1] < p[2]}
<1>1. IsWellFoundedOn(Less, Nat)
  BY NatLessThanWellFounded, Zenon DEF OpToRel
<1>2. \A m, n \in Nat : m < n => <<m, n>> \in Less
  OBVIOUS
<1>. HIDE DEF Less
<1>3. PICK n \in S : \A m \in S : ~ (<<m, n>> \in Less)
  BY <1>1, WFMin
<1>4. \A m \in S : n <= m
  <2>1. SUFFICES ASSUME NEW m \in S PROVE n <= m
    OBVIOUS
  <2>2. n \in Nat /\ m \in Nat /\ ~ (m < n)
    BY <1>2, <1>3
  <2>. QED
    BY <2>2
<1>. QED
  BY <1>4 DEF First

\* The items for bytes at hand.
LEMMA GivenIs ==
  ASSUME NEW B, NEW s \in Seq(B)
  PROVE  /\ Given(s) \in Seq({"byte"} \X B)
         /\ Len(Given(s)) = Len(s)
         /\ \A i \in 1 .. Len(s) : Given(s)[i] = <<"byte", s[i]>>
<1>1. Len(s) \in Nat /\ \A i \in 1 .. Len(s) : s[i] \in B
  BY ElementOfSeq, LenProperties
<1>. QED
  BY <1>1 DEF Given

\* The items for a range of rxbuf.
LEMMA InRxbufIs ==
  ASSUME NEW n \in Nat, NEW first \in 0 .. n, NEW R, 0 .. n - 1 \subseteq R
  PROVE  /\ InRxbuf(first, n - 1) \in Seq({"rxbuf"} \X R)
         /\ Len(InRxbuf(first, n - 1)) = n - first
         /\ \A i \in 1 .. n - first :
              InRxbuf(first, n - 1)[i] = <<"rxbuf", first + i - 1>>
<1>1. n - 1 - first + 1 = n - first /\ n - first \in Nat
  OBVIOUS
<1>2. \A i \in 1 .. n - first : first + i - 1 \in R
  <2>1. SUFFICES ASSUME NEW i \in 1 .. n - first PROVE first + i - 1 \in R
    OBVIOUS
  <2>2. first + i - 1 \in 0 .. n - 1
    OBVIOUS
  <2>. QED
    BY <2>2
<1>. DEFINE s == [i \in 1 .. n - first |-> <<"rxbuf", first + i - 1>>]
<1>3. InRxbuf(first, n - 1) = s
  BY <1>1 DEF InRxbuf
<1>4. s \in Seq({"rxbuf"} \X R) /\ Len(s) = n - first
  BY <1>1, <1>2
<1>. QED
  BY <1>3, <1>4

\* The header of a frame that failed, as the walk sees it.
LEMMA ViewIs ==
  ASSUME FrameInv, Receivable, Len(mrk) = cfg.mrksz,
         NEW l \in Seq(Noise(cfg)), Len(l) = cfg.lensz,
         NEW c \in Seq(Noise(cfg))
  PROVE  /\ View(l, c) \in Seq(Noise(cfg))
         /\ Length(l) # 0 => View(l, c) = mrk \o l
         /\ Length(l) = 0 => View(l, c) = (mrk \o l) \o c
         /\ Len(View(l, c)) =
              HeaderSize - 1 + IF Length(l) = 0 THEN Len(c) ELSE 0
<1>1. mrk \in Seq(Noise(cfg))
  BY DEF FrameInv
<1>2. mrk \o l \in Seq(Noise(cfg)) /\ Len(mrk \o l) = HeaderSize - 1
  <2>1. mrk \o l \in Seq(Noise(cfg)) /\ Len(mrk \o l) = cfg.mrksz + cfg.lensz
    BY <1>1, ConcatProperties
  <2>2. HeaderSize - 1 = cfg.mrksz + cfg.lensz
    BY ContextFacts DEF HeaderSize
  <2>. QED
    BY <2>1, <2>2
<1>3. Length(l) = 0 => View(l, c) = (mrk \o l) \o c
  BY DEF View
<1>4. Length(l) # 0 => View(l, c) = mrk \o l
  <2>1. SUFFICES ASSUME Length(l) # 0 PROVE View(l, c) = mrk \o l
    OBVIOUS
  <2>2. View(l, c) = (mrk \o l) \o <<>>
    BY <2>1 DEF View
  <2>. QED
    BY <1>2, <2>2, ConcatEmptySeq
<1>5. (mrk \o l) \o c \in Seq(Noise(cfg))
      /\ Len((mrk \o l) \o c) = HeaderSize - 1 + Len(c)
  BY <1>2, ConcatProperties
<1>6. Len(c) \in Nat /\ HeaderSize \in Nat
  BY LenProperties, ContextFacts
<1>7. Length(l) # 0 =>
        /\ View(l, c) \in Seq(Noise(cfg))
        /\ Len(View(l, c)) = HeaderSize - 1 + 0
  <2>1. HeaderSize - 1 = HeaderSize - 1 + 0
    BY <1>6
  <2>. QED
    BY <1>2, <1>4, <2>1
<1>8. Length(l) = 0 =>
        /\ View(l, c) \in Seq(Noise(cfg))
        /\ Len(View(l, c)) = HeaderSize - 1 + Len(c)
  BY <1>3, <1>5
<1>. QED
  BY <1>3, <1>4, <1>7, <1>8

\* What a relock pushes: a part g of what the walk sees, then rxbuf from f on,
\* then the bytes of the CRC; it begins with a BOF, and none was left out.
Pushes(l, c, g, f) ==
  /\ PushedAgain(l, c) = (Given(g) \o InRxbuf(f, Length(l) - 1)) \o Given(c)
  /\ \/ /\ f = 0
        /\ \E i \in 1 .. Len(View(l, c)) :
             /\ g = SubSeq(View(l, c), i, Len(View(l, c)))
             /\ \A j \in 1 .. i - 1 : View(l, c)[j] # cfg.bof
     \/ /\ g = <<>>
        /\ \A j \in 1 .. Len(View(l, c)) : View(l, c)[j] # cfg.bof
        /\ \A j \in 0 .. f - 1 : rxbuf[j] # cfg.bof

\* There are such a part and such a place.
LEMMA PushedAgainIs ==
  ASSUME FrameInv, Receivable, Len(mrk) = cfg.mrksz,
         NEW l \in Seq(Noise(cfg)), Len(l) = cfg.lensz,
         NEW c \in Seq(Noise(cfg))
  PROVE  \E g \in Seq(Noise(cfg)), f \in 0 .. Length(l) :
           /\ Pushes(l, c, g, f)
           /\ Len(g) <= Len(View(l, c))
<1>. DEFINE view == View(l, c)
            inView == {i \in 1 .. Len(view) : view[i] = cfg.bof}
            inRxbuf == {i \in 0 .. Length(l) - 1 : rxbuf[i] = cfg.bof}
            pushed == IF inView # {}
                        THEN Given(SubSeq(view, First(inView), Len(view)))
                               \o InRxbuf(0, Length(l) - 1)
                      ELSE IF inRxbuf # {}
                             THEN InRxbuf(First(inRxbuf), Length(l) - 1)
                      ELSE <<>>
<1>1. PushedAgain(l, c) = pushed \o Given(c)
  BY DEF PushedAgain
<1>2. /\ view \in Seq(Noise(cfg)) /\ Len(view) \in Nat
      /\ Length(l) \in Nat
  BY ViewIs, LengthFits, LenProperties, ContextFacts
<1>3. inView \in SUBSET Nat /\ inRxbuf \in SUBSET Nat
  BY <1>2
<1>4. CASE inView # {}
  <2>. DEFINE i == First(inView)
              g == SubSeq(view, i, Len(view))
  <2>1. i \in inView /\ \A j \in inView : i <= j
    BY <1>3, <1>4, FirstIsLeast
  <2>4. pushed = Given(g) \o InRxbuf(0, Length(l) - 1)
    BY <1>4
  <2>. HIDE DEF i, view
  <2>2. i \in 1 .. Len(view) /\ \A j \in 1 .. i - 1 : view[j] # cfg.bof
    <3>1. i \in 1 .. Len(view)
      BY <2>1
    <3>2. ASSUME NEW j \in 1 .. i - 1 PROVE view[j] # cfg.bof
      <4>1. j \in 1 .. Len(view) /\ ~ (i <= j)
        BY <1>2, <3>1
      <4>. QED
        BY <2>1, <4>1
    <3>. QED
      BY <3>1, <3>2
  <2>3. g \in Seq(Noise(cfg)) /\ Len(g) <= Len(view)
    <3>1. \A j \in i .. Len(view) : view[j] \in Noise(cfg)
      BY <1>2, <2>2, ElementOfSeq
    <3>2. g \in Seq(Noise(cfg))
          /\ Len(g) = IF i <= Len(view) THEN Len(view) - i + 1 ELSE 0
      BY <1>2, <2>2, <3>1, SubSeqProperties
    <3>. QED
      BY <1>2, <2>2, <3>2
  <2>5. Pushes(l, c, g, 0)
    <3>1. PushedAgain(l, c)
            = (Given(g) \o InRxbuf(0, Length(l) - 1)) \o Given(c)
      BY <1>1, <2>4
    <3>2. \E k \in 1 .. Len(view) :
            /\ g = SubSeq(view, k, Len(view))
            /\ \A j \in 1 .. k - 1 : view[j] # cfg.bof
      BY <2>2
    <3>. QED
      BY <3>1, <3>2 DEF Pushes, view
  <2>. HIDE DEF g
  <2>6. 0 \in 0 .. Length(l)
    BY <1>2
  <2>. QED
    BY <2>3, <2>5, <2>6 DEF view
<1>5. CASE inView = {}
  <2>. DEFINE f == IF inRxbuf # {} THEN First(inRxbuf) ELSE Length(l)
  <2>1. \A j \in 1 .. Len(view) : view[j] # cfg.bof
    BY <1>5
  <2>2. f \in 0 .. Length(l) /\ \A j \in 0 .. f - 1 : rxbuf[j] # cfg.bof
    <3>1. CASE inRxbuf # {}
      <4>1. f \in inRxbuf /\ \A j \in inRxbuf : f <= j
        BY <1>3, <3>1, FirstIsLeast
      <4>2. f \in 0 .. Length(l) - 1
        BY <4>1
      <4>. HIDE DEF f
      <4>3. ASSUME NEW j \in 0 .. f - 1 PROVE rxbuf[j] # cfg.bof
        <5>1. j \in 0 .. Length(l) - 1 /\ ~ (f <= j)
          BY <1>2, <4>2
        <5>. QED
          BY <4>1, <5>1
      <4>. QED
        BY <1>2, <4>2, <4>3
    <3>2. CASE inRxbuf = {}
      BY <1>2, <3>2
    <3>. QED
      BY <3>1, <3>2
  <2>3. pushed = InRxbuf(f, Length(l) - 1)
    <3>1. CASE inRxbuf # {}
      BY <1>5, <3>1
    <3>2. CASE inRxbuf = {}
      <4>1. InRxbuf(Length(l), Length(l) - 1) = <<>>
        <5>. DEFINE n == Length(l)
        <5>. HIDE DEF n
        <5>2. n \in Nat /\ n \in 0 .. n /\ 0 .. n - 1 \subseteq 0 .. n - 1
              /\ n - n = 0
          BY <1>2 DEF n
        <5>3. /\ Len(InRxbuf(n, n - 1)) = 0
              /\ InRxbuf(n, n - 1) \in Seq({"rxbuf"} \X (0 .. n - 1))
          BY <5>2, InRxbufIs
        <5>. QED
          BY <5>3, EmptySeq DEF n
      <4>. QED
        BY <1>5, <3>2, <4>1
    <3>. QED
      BY <3>1, <3>2
  <2>4. Given(<<>>) \o InRxbuf(f, Length(l) - 1) = InRxbuf(f, Length(l) - 1)
    <3>1. Given(<<>>) = <<>>
      <4>1. Given(<<>>) \in Seq({"byte"} \X {}) /\ Len(Given(<<>>)) = 0
        BY GivenIs, EmptySeq
      <4>. QED
        BY <4>1, EmptySeq
    <3>2. InRxbuf(f, Length(l) - 1) \in Seq({"rxbuf"} \X (0 .. Length(l) - 1))
      BY <1>2, <2>2, InRxbufIs
    <3>. QED
      BY <3>1, <3>2, ConcatEmptySeq
  <2>. HIDE DEF f
  <2>5. Pushes(l, c, <<>>, f)
    BY <1>1, <2>1, <2>2, <2>3, <2>4 DEF Pushes
  <2>6. <<>> \in Seq(Noise(cfg)) /\ Len(<<>>) <= Len(view)
    BY <1>2, EmptySeq
  <2>. QED
    BY <2>2, <2>5, <2>6
<1>. QED
  BY <1>4, <1>5

\* What is pushed again are bytes received, none further back in rxbuf than
\* the header puts it; and there is at most one more of them than the frame had.
LEMMA PushedItems ==
  ASSUME FrameInv, Receivable, Len(mrk) = cfg.mrksz,
         NEW l \in Seq(Noise(cfg)), Len(l) = cfg.lensz,
         \A i \in 0 .. Length(l) - 1 : rxbuf[i] \in Noise(cfg),
         NEW c \in Seq(Noise(cfg)), Len(c) <= 1
  PROVE  /\ PushedAgain(l, c) \in Seq(Items)
         /\ Len(PushedAgain(l, c)) <= HeaderSize + Length(l) + 1
         /\ \A i \in 1 .. Len(PushedAgain(l, c)) :
              PushedAgain(l, c)[i][1] = "rxbuf" =>
                /\ rxbuf[PushedAgain(l, c)[i][2]] \in Noise(cfg)
                /\ i <= PushedAgain(l, c)[i][2] + HeaderSize
<1>1. PICK g \in Seq(Noise(cfg)), f \in 0 .. Length(l) :
             Pushes(l, c, g, f) /\ Len(g) <= Len(View(l, c))
  BY PushedAgainIs
<1>. DEFINE n == Length(l)
            G == Given(g)
            R == InRxbuf(f, n - 1)
            C == Given(c)
<1>2. n \in Nat /\ n <= cfg.rxlen /\ f \in 0 .. n /\ f \in Nat
      /\ HeaderSize \in Nat /\ HeaderSize >= 1 /\ cfg.rxlen \in Nat
  BY LengthFits, ContextFacts DEF HeaderSize
<1>3. /\ G \in Seq({"byte"} \X Noise(cfg)) /\ Len(G) = Len(g)
      /\ C \in Seq({"byte"} \X Noise(cfg)) /\ Len(C) = Len(c)
  BY GivenIs
<1>4. /\ R \in Seq({"rxbuf"} \X (0 .. n - 1)) /\ Len(R) = n - f
      /\ \A i \in 1 .. n - f : R[i] = <<"rxbuf", f + i - 1>>
  BY <1>2, InRxbufIs
<1>5. /\ Len(g) \in Nat /\ Len(c) \in Nat
      /\ Len(g) <= HeaderSize - 1 + (IF n = 0 THEN Len(c) ELSE 0)
      /\ g # <<>> => f = 0
      /\ PushedAgain(l, c) = (G \o R) \o C
  BY <1>1, ViewIs, LenProperties DEF Pushes
<1>6. {"byte"} \X Noise(cfg) \subseteq Items
      /\ {"rxbuf"} \X (0 .. n - 1) \subseteq Items
  BY <1>2 DEF Items
<1>7. G \in Seq(Items) /\ R \in Seq(Items) /\ C \in Seq(Items)
  BY <1>3, <1>4, <1>6, SeqMonotonic
<1>. HIDE DEF n, G, R, C
<1>8. /\ G \o R \in Seq(Items) /\ Len(G \o R) = Len(g) + (n - f)
      /\ \A i \in 1 .. Len(g) + (n - f) :
           (G \o R)[i] = IF i <= Len(g) THEN G[i] ELSE R[i - Len(g)]
  <2>1. /\ G \o R \in Seq(Items) /\ Len(G \o R) = Len(G) + Len(R)
        /\ \A i \in 1 .. Len(G) + Len(R) :
             (G \o R)[i] = IF i <= Len(G) THEN G[i] ELSE R[i - Len(G)]
    BY <1>7, ConcatProperties
  <2>2. Len(G) = Len(g) /\ Len(R) = n - f
    BY <1>3, <1>4 DEF G, R, n
  <2>. QED
    BY <2>1, <2>2
<1>9. /\ (G \o R) \o C \in Seq(Items)
      /\ Len((G \o R) \o C) = Len(g) + (n - f) + Len(c)
      /\ \A i \in 1 .. Len(g) + (n - f) + Len(c) :
           ((G \o R) \o C)[i] =
              IF i <= Len(g) + (n - f) THEN (G \o R)[i]
                                       ELSE C[i - (Len(g) + (n - f))]
  BY <1>3, <1>7, <1>8, ConcatProperties
<1>10. Len(g) + (n - f) + Len(c) <= HeaderSize + n + 1
  <2>1. CASE n = 0
    BY <1>2, <1>5, <2>1
  <2>2. CASE n # 0
    BY <1>2, <1>5, <2>2
  <2>. QED
    BY <2>1, <2>2
<1>11. ASSUME NEW i \in 1 .. Len((G \o R) \o C),
              ((G \o R) \o C)[i][1] = "rxbuf"
       PROVE  /\ rxbuf[((G \o R) \o C)[i][2]] \in Noise(cfg)
              /\ i <= ((G \o R) \o C)[i][2] + HeaderSize
  <2>. DEFINE item == ((G \o R) \o C)[i]
              m == Len(g)
  <2>1. i \in 1 .. m + (n - f) + Len(c) /\ m \in Nat
    BY <1>5, <1>9
  <2>. HIDE DEF m
  <2>2. i <= m + (n - f)
    <3>1. SUFFICES ASSUME ~ (i <= m + (n - f)) PROVE FALSE
      OBVIOUS
    <3>2. i - (m + (n - f)) \in 1 .. Len(c)
      BY <1>2, <1>5, <2>1, <3>1
    <3>3. item = C[i - (m + (n - f))]
      BY <1>9, <2>1, <3>1 DEF m
    <3>4. item \in {"byte"} \X Noise(cfg)
      BY <1>3, <3>2, <3>3, ElementOfSeq DEF C
    <3>. QED
      BY <1>11, <3>4
  <2>3. i \in 1 .. m + (n - f) /\ item = (G \o R)[i]
    <3>1. i \in 1 .. m + (n - f)
      BY <1>2, <2>1, <2>2
    <3>2. item = (G \o R)[i]
      BY <1>9, <2>1, <2>2 DEF m
    <3>. QED
      BY <3>1, <3>2
  <2>4. m < i
    <3>1. SUFFICES ASSUME ~ (m < i) PROVE FALSE
      OBVIOUS
    <3>2. i \in 1 .. m /\ item = G[i]
      BY <1>8, <2>1, <2>3, <3>1 DEF m
    <3>3. item \in {"byte"} \X Noise(cfg)
      BY <1>3, <3>2, ElementOfSeq DEF G, m
    <3>. QED
      BY <1>11, <3>3
  <2>5. i - m \in 1 .. n - f
    BY <1>2, <2>1, <2>2, <2>4
  <2>6. item = <<"rxbuf", f + (i - m) - 1>>
    <3>1. item = R[i - m]
      BY <1>8, <2>1, <2>3, <2>4 DEF m
    <3>. QED
      BY <1>4, <2>5, <3>1 DEF R
  <2>7. f + (i - m) - 1 \in 0 .. n - 1
    BY <1>2, <2>1, <2>5
  <2>8. i <= f + (i - m) - 1 + HeaderSize
    <3>1. m <= f + HeaderSize - 1
      <4>1. n # 0
        BY <1>2, <2>5
      <4>. QED
        BY <1>2, <1>5, <4>1 DEF m
    <3>. QED
      BY <1>2, <2>1, <3>1
  <2>. QED
    BY <2>6, <2>7, <2>8 DEF n
<1>. QED
  BY <1>5, <1>9, <1>10, <1>11 DEF n

\* A relock keeps the agenda: what waited behind a failed frame had its bytes
\* in front, and has at most as many pushed in front of it again.
LEMMA RelockKeepsAgenda ==
  ASSUME IInv, phs = "CRC", todo # <<>>, NEW b \in Noise(cfg),
         todo' = PushedAgain(len, <<b>>) \o Tail(todo), phs' = "BOF",
         UNCHANGED <<cfg, rxbuf>>
  PROVE  AgendaInv'
<1>. DEFINE P == PushedAgain(len, <<b>>)
            T == Tail(todo)
            n == Length(len)
<1>1. /\ len \in Seq(Noise(cfg)) /\ Len(len) = cfg.lensz
      /\ Len(mrk) = cfg.mrksz /\ cnt = n
  BY DEF IInv, FrameInv
<1>2. /\ HeaderSize \in Nat /\ n \in Nat /\ Holding = HeaderSize + n
      /\ Holding' = 0 /\ HeaderSize' = HeaderSize /\ Items' = Items
  BY <1>1, LengthFits, ContextFacts DEF IInv, Holding, HeaderSize, Items
<1>3. <<b>> \in Seq(Noise(cfg)) /\ Len(<<b>>) <= 1
  OBVIOUS
<1>4. \A i \in 0 .. n - 1 : rxbuf[i] \in Noise(cfg)
  BY <1>1 DEF IInv, BufferInv
<1>5. /\ P \in Seq(Items) /\ Len(P) <= HeaderSize + n + 1
      /\ \A i \in 1 .. Len(P) : P[i][1] = "rxbuf" =>
            rxbuf[P[i][2]] \in Noise(cfg) /\ i <= P[i][2] + HeaderSize
  BY <1>1, <1>3, <1>4, PushedItems DEF IInv
<1>6. /\ T \in Seq(Items) /\ Len(T) = Len(todo) - 1
      /\ \A i \in 1 .. Len(T) : T[i] = todo[i + 1]
      /\ Len(T) \in Nat /\ Len(P) \in Nat
  BY <1>5, HeadTailProperties, LenProperties DEF IInv, AgendaInv
<1>. HIDE DEF P, T, n
<1>7. /\ P \o T \in Seq(Items) /\ Len(P \o T) = Len(P) + Len(T)
      /\ \A i \in 1 .. Len(P) + Len(T) :
           (P \o T)[i] = IF i <= Len(P) THEN P[i] ELSE T[i - Len(P)]
  BY <1>5, <1>6, ConcatProperties
<1>8. ASSUME NEW i \in 1 .. Len(P \o T), (P \o T)[i][1] = "rxbuf"
      PROVE  /\ rxbuf[(P \o T)[i][2]] \in Noise(cfg)
             /\ i <= (P \o T)[i][2] + HeaderSize
  <2>1. i \in 1 .. Len(P) + Len(T)
    BY <1>7
  <2>2. CASE i <= Len(P)
    <3>1. i \in 1 .. Len(P) /\ (P \o T)[i] = P[i]
      BY <1>6, <1>7, <2>1, <2>2
    <3>. QED
      BY <1>5, <1>8, <3>1
  <2>3. CASE ~ (i <= Len(P))
    <3>. DEFINE k == i - Len(P)
    <3>1. k \in 1 .. Len(T) /\ (P \o T)[i] = T[k]
      BY <1>6, <1>7, <2>1, <2>3
    <3>2. k + 1 \in 1 .. Len(todo) /\ k \in Nat /\ i = k + Len(P) /\ i \in Nat
      BY <1>6, <3>1
    <3>. HIDE DEF k
    <3>3. (P \o T)[i] = todo[k + 1]
      BY <1>6, <3>1
    <3>4. /\ rxbuf[todo[k + 1][2]] \in Noise(cfg)
          /\ k + 1 + Holding <= todo[k + 1][2] + HeaderSize
      BY <1>8, <3>2, <3>3 DEF IInv, AgendaInv
    <3>5. todo[k + 1][2] \in Nat
      <4>1. todo[k + 1] \in Items
        BY <3>2, ElementOfSeq DEF IInv, AgendaInv
      <4>. QED
        BY <1>8, <3>3, <4>1, ContextFacts DEF Items, IInv
    <3>6. i <= todo[k + 1][2] + HeaderSize
      BY <1>2, <1>5, <1>6, <3>2, <3>4, <3>5
    <3>. QED
      BY <3>3, <3>4, <3>6
  <2>. QED
    BY <2>2, <2>3
<1>9. todo' = P \o T
  BY DEF P, T
<1>10. ASSUME NEW i \in 1 .. Len(todo'), todo'[i][1] = "rxbuf"
       PROVE  /\ rxbuf'[todo'[i][2]] \in Noise(cfg')
              /\ i + Holding' <= todo'[i][2] + HeaderSize'
  <2>1. i + Holding' = i
    BY <1>2
  <2>. QED
    BY <1>2, <1>8, <1>9, <1>10, <2>1
<1>. QED
  BY <1>2, <1>7, <1>9, <1>10 DEF AgendaInv

-----------------------------------------------------------------------------
(* Every step keeps the invariant. *)

\* What may arrive is a matter of the context, which stays.
LEMMA ReceivableStays ==
  ASSUME Receivable, cfg' = cfg
  PROVE  Receivable'
<1>1. Chunks' = Chunks
  BY DEF Chunks, Encode
<1>. QED
  BY <1>1 DEF Receivable, ArrivesAsNoise, LengthsFit

\* The receiver starts with nothing held and nothing on the agenda.
LEMMA InitInv == Init /\ Receivable => IInv
<1>. SUFFICES ASSUME Init, Receivable PROVE IInv
  OBVIOUS
<1>1. cfg \in Configs
  BY DEF Init
<1>2. /\ Noise(cfg) \subseteq Byte /\ cfg.rxlen \in Nat
      /\ cfg.mrksz \in Nat /\ cfg.lensz \in Nat /\ cfg.crcsz \in Nat
  BY <1>1, EuclidAssumption
<1>3. /\ <<>> \in Seq(Noise(cfg)) /\ Len(<<>>) = 0 /\ <<>> \in Seq(Items)
  BY EmptySeq
<1>4. FrameInv
  BY <1>1, <1>2, <1>3 DEF Init, FrameInv
<1>5. BufferInv
  <2>1. rxbuf \in [0 .. cfg.limit - 1 -> Byte]
    <3>1. Noise(cfg) \cup {0} \subseteq Byte
      BY <1>2 DEF Byte
    <3>. QED
      BY <3>1 DEF Init
  <2>2. \A i \in 0 .. cnt - 1 : rxbuf[i] \in Noise(cfg)
    BY DEF Init
  <2>. QED
    BY <2>1, <2>2 DEF BufferInv
<1>6. AgendaInv
  BY <1>3 DEF Init, AgendaInv
<1>. QED
  BY <1>4, <1>5, <1>6 DEF IInv

\* A push brings noise to an empty agenda.
LEMMA PushKeeps ==
  ASSUME IInv, Push
  PROVE  IInv'
<1>1. PICK s \in Chunks : todo' = Given(s)
  BY DEF Push
<1>2. UNCHANGED <<cfg, phs, mrk, len, crc, cnt, rxbuf>>
  BY DEF Push
<1>3. s \in Seq(Noise(cfg))
  BY DEF IInv, Receivable, ArrivesAsNoise
<1>4. /\ todo' \in Seq({"byte"} \X Noise(cfg)) /\ Len(todo') = Len(s)
      /\ \A i \in 1 .. Len(s) : todo'[i] = <<"byte", s[i]>>
  BY <1>1, <1>3, GivenIs
<1>5. {"byte"} \X Noise(cfg) \subseteq Items'
  BY <1>2 DEF Items
<1>6. todo' \in Seq(Items')
  BY <1>4, <1>5, SeqMonotonic
<1>7. AgendaInv'
  BY <1>4, <1>6 DEF AgendaInv
<1>8. FrameInv'
  BY <1>2 DEF IInv, FrameInv, Length
<1>9. BufferInv'
  BY <1>2 DEF IInv, BufferInv
<1>. QED
  BY <1>2, <1>7, <1>8, <1>9, ReceivableStays DEF IInv

\* Steps that take a byte and leave rxbuf alone.
LEMMA ByteTaken ==
  ASSUME IInv, Consume, UNCHANGED <<cfg, rxbuf>>, cnt' <= cnt,
         FrameInv', Holding' <= Holding + 1
  PROVE  IInv'
<1>1. AgendaInv'
  BY ConsumeKeepsAgenda DEF IInv
<1>2. BufferInv'
  <2>1. cnt \in Nat
    BY ContextFacts DEF IInv
  <2>2. (FrameInv => cnt \in Nat)'
    BY ContextFacts, PTL
  <2>3. \A i \in 0 .. cnt' - 1 : i \in 0 .. cnt - 1
    BY <2>1, <2>2
  <2>. QED
    BY <2>3 DEF IInv, BufferInv
<1>. QED
  BY <1>1, <1>2, ReceivableStays DEF IInv

\* A byte that is not a BOF leaves all but the agenda.
LEMMA BofSkipKeeps ==
  ASSUME IInv, BofSkip
  PROVE  IInv'
<1>1. UNCHANGED <<cfg, phs, mrk, len, crc, cnt, rxbuf>> /\ Consume
  BY DEF BofSkip
<1>2. FrameInv'
  BY <1>1 DEF IInv, FrameInv, Length
<1>3. Holding' <= Holding + 1 /\ cnt' <= cnt
  <2>1. Holding \in Nat /\ cnt \in Nat
    BY ContextFacts DEF IInv, FrameInv
  <2>2. Holding' = Holding
    BY <1>1 DEF Holding
  <2>. QED
    BY <1>1, <2>1, <2>2
<1>. QED
  BY <1>1, <1>2, <1>3, ByteTaken

\* A BOF starts a frame of one byte.
LEMMA BofFoundKeeps ==
  ASSUME IInv, BofFound
  PROVE  IInv'
<1>1. /\ UNCHANGED <<cfg, rxbuf>> /\ Consume /\ phs = "BOF"
      /\ mrk' = <<>> /\ len' = <<>> /\ crc' = <<>> /\ cnt' = 0
  BY DEF BofFound
<1>2. /\ cfg.mrksz \in 0 .. 3 /\ cfg.lensz \in 0 .. 3 /\ cfg.crcsz \in 0 .. 1
      /\ cfg.rxlen \in Nat /\ 1 <= cfg.rxlen
  BY ContextFacts DEF IInv
<1>3. phs' = IF cfg.mrksz # 0 THEN "MRK"
             ELSE IF cfg.lensz = 0 THEN "PCK" ELSE "LEN"
  BY DEF BofFound, ToLen
<1>4. <<>> \in Seq(Noise(cfg)) /\ Len(<<>>) = 0
  BY EmptySeq
<1>5. FrameInv'
  <2>1. phs' = "PCK" => cnt' < Length(len)'
    BY <1>1, <1>2, <1>3 DEF Length
  <2>2. /\ phs' \in {"MRK", "LEN", "PCK"}
        /\ phs' = "MRK" => 0 < cfg.mrksz
        /\ phs' = "LEN" => 0 = cfg.mrksz /\ 0 < cfg.lensz
        /\ phs' = "PCK" => 0 = cfg.mrksz /\ 0 = cfg.lensz
    BY <1>2, <1>3
  <2>3. /\ 0 <= cfg.mrksz /\ 0 <= cfg.lensz /\ 0 <= cfg.crcsz
        /\ 0 \in 0 .. cfg.rxlen
    BY <1>2
  <2>4. cfg \in Configs
    BY DEF IInv, FrameInv
  <2>. QED
    BY <1>1, <1>4, <2>1, <2>2, <2>3, <2>4 DEF FrameInv
<1>6. Holding' <= Holding + 1 /\ cnt' <= cnt
  <2>1. cnt \in Nat
    BY <1>2 DEF IInv, FrameInv
  <2>. QED
    BY <1>1, <1>3, <1>4, <2>1 DEF Holding
<1>. QED
  BY <1>1, <1>5, <1>6, ByteTaken

\* A byte of the mark is held.
LEMMA MrkByteKeeps ==
  ASSUME IInv, MrkByte
  PROVE  IInv'
<1>1. /\ UNCHANGED <<cfg, len, crc, cnt, rxbuf>> /\ Consume /\ phs = "MRK"
      /\ todo # <<>>
  BY DEF MrkByte, Consume
<1>. DEFINE b == NextByte
<1>2. b \in Noise(cfg) /\ mrk' = Append(mrk, b)
  BY <1>1, NextByteIsNoise DEF IInv, MrkByte
<1>. HIDE DEF b
<1>3. /\ cfg.mrksz \in 0 .. 3 /\ cfg.lensz \in 0 .. 3 /\ cfg.crcsz \in 0 .. 1
      /\ cfg.rxlen \in Nat /\ 1 <= cfg.rxlen
  BY ContextFacts DEF IInv
<1>4. /\ mrk \in Seq(Noise(cfg)) /\ Len(mrk) < cfg.mrksz /\ Len(mrk) \in Nat
      /\ len = <<>> /\ Len(len) = 0 /\ cnt = 0
  BY <1>1, EmptySeq, LenProperties DEF IInv, FrameInv
<1>5. mrk' \in Seq(Noise(cfg)) /\ Len(mrk') = Len(mrk) + 1
  BY <1>2, <1>4, AppendProperties
<1>6. phs' = IF Len(mrk') # cfg.mrksz THEN "MRK"
             ELSE IF cfg.lensz = 0 THEN "PCK" ELSE "LEN"
  BY <1>1 DEF MrkByte, ToLen
<1>7. FrameInv'
  <2>1. phs' = "PCK" => cnt' < Length(len)'
    BY <1>1, <1>3, <1>4, <1>6 DEF Length
  <2>2. /\ phs' \in {"MRK", "LEN", "PCK"}
        /\ Len(mrk') <= cfg.mrksz
        /\ phs' = "MRK" => Len(mrk') < cfg.mrksz
        /\ phs' # "MRK" => Len(mrk') = cfg.mrksz
        /\ phs' = "LEN" => 0 < cfg.lensz
        /\ phs' = "PCK" => 0 = cfg.lensz
    BY <1>3, <1>4, <1>5, <1>6
  <2>3. /\ cfg \in Configs /\ crc \in Seq(Noise(cfg)) /\ Len(crc) <= cfg.crcsz
        /\ len \in Seq(Noise(cfg)) /\ Len(len) <= cfg.lensz
        /\ 0 \in 0 .. cfg.rxlen
    BY <1>3 DEF IInv, FrameInv
  <2>. QED
    BY <1>1, <1>4, <1>5, <2>1, <2>2, <2>3 DEF FrameInv
<1>8. Holding' <= Holding + 1 /\ cnt' <= cnt
  BY <1>1, <1>4, <1>5, <1>6 DEF Holding
<1>. QED
  BY <1>1, <1>7, <1>8, ByteTaken

\* The length bytes with the next one.
LEMMA LenBytes ==
  ASSUME IInv, phs = "LEN", todo # <<>>, len' = Append(len, NextByte),
         cfg' = cfg
  PROVE  /\ len' \in Seq(Noise(cfg)) /\ Len(len') = Len(len) + 1
         /\ len \in Seq(Noise(cfg)) /\ Len(len) \in Nat
         /\ Len(len') <= cfg.lensz /\ 0 < cfg.lensz
         /\ Len(len') = cfg.lensz => /\ Value(len') \in 0 .. cfg.rxlen
                                     /\ Length(len)' = Value(len')
                                     /\ Length(len') = Value(len')
         /\ cnt = 0 /\ Len(mrk) = cfg.mrksz
<1>. DEFINE b == NextByte
<1>1. b \in Noise(cfg) /\ len' = Append(len, b)
  BY NextByteIsNoise DEF IInv
<1>. HIDE DEF b
<1>2. /\ cfg.lensz \in Nat /\ len \in Seq(Noise(cfg)) /\ Len(len) < cfg.lensz
      /\ cnt = 0 /\ Len(mrk) = cfg.mrksz /\ Len(len) \in Nat
  BY ContextFacts, LenProperties DEF IInv, FrameInv
<1>3. len' \in Seq(Noise(cfg)) /\ Len(len') = Len(len) + 1
  BY <1>1, <1>2, AppendProperties
<1>. DEFINE l == len'
<1>4. l \in Seq(Noise(cfg)) /\ Len(l) = Len(len) + 1
  BY <1>3
<1>5. Length(len)' = Length(l)
  BY DEF Length
<1>. HIDE DEF l
<1>6. Len(l) = cfg.lensz =>
        Length(l) \in 0 .. cfg.rxlen /\ Length(l) = Value(l)
  BY <1>2, <1>4, LengthFits DEF IInv
<1>. QED
  BY <1>2, <1>4, <1>5, <1>6 DEF l

\* A byte of the length is held, and a whole length fits.
LEMMA LenByteKeeps ==
  ASSUME IInv, LenByte
  PROVE  IInv'
<1>1. /\ UNCHANGED <<cfg, mrk, crc, cnt, rxbuf>> /\ Consume /\ phs = "LEN"
      /\ todo # <<>> /\ len' = Append(len, NextByte)
  BY DEF LenByte, Consume
<1>2. /\ len' \in Seq(Noise(cfg)) /\ Len(len') = Len(len) + 1
      /\ Len(len) \in Nat /\ Len(len') <= cfg.lensz
      /\ Len(len') = cfg.lensz => Length(len)' = Value(len')
      /\ cnt = 0 /\ Len(mrk) = cfg.mrksz /\ Len(mrk) \in Nat
  BY <1>1, LenBytes, ContextFacts DEF IInv
<1>3. /\ phs' \in {"LEN", "PCK"}
      /\ phs' = "PCK" => Len(len') = cfg.lensz /\ 0 < Value(len')
      /\ phs' = "LEN" => Len(len') # cfg.lensz
  BY <1>1 DEF LenByte
<1>4. FrameInv'
  <2>1. phs' = "PCK" => cnt' < Length(len)'
    BY <1>1, <1>2, <1>3
  <2>2. phs' = "LEN" => Len(len') < cfg.lensz
    BY <1>2, <1>3, ContextFacts DEF IInv
  <2>3. /\ cfg \in Configs /\ crc \in Seq(Noise(cfg)) /\ Len(crc) <= cfg.crcsz
        /\ mrk \in Seq(Noise(cfg)) /\ Len(mrk) <= cfg.mrksz
        /\ cnt \in 0 .. cfg.rxlen
    BY DEF IInv, FrameInv
  <2>. QED
    BY <1>1, <1>2, <1>3, <2>1, <2>2, <2>3 DEF FrameInv
<1>5. Holding' <= Holding + 1 /\ cnt' <= cnt
  BY <1>1, <1>2, <1>3 DEF Holding
<1>. QED
  BY <1>1, <1>4, <1>5, ByteTaken

\* An empty frame goes to its checksum, or is delivered.
LEMMA LenZeroKeeps ==
  ASSUME IInv, LenZero
  PROVE  IInv'
<1>1. /\ UNCHANGED <<cfg, mrk, crc, cnt, rxbuf>> /\ Consume /\ phs = "LEN"
      /\ todo # <<>> /\ len' = Append(len, NextByte)
      /\ Len(len') = cfg.lensz /\ Value(len') = 0
  BY DEF LenZero, Consume
<1>2. /\ len' \in Seq(Noise(cfg)) /\ Len(len') = Len(len) + 1
      /\ Len(len) \in Nat
      /\ Length(len)' = 0
      /\ cnt = 0 /\ Len(mrk) = cfg.mrksz /\ Len(mrk) \in Nat
      /\ cfg.crcsz \in 0 .. 1
  BY <1>1, LenBytes, ContextFacts DEF IInv
<1>3. phs' = IF cfg.crcsz = 0 THEN "BOF" ELSE "CRC"
  BY DEF LenZero, ToCrc, CallRxcbk
<1>4. FrameInv'
  <2>1. phs' = "CRC" => cfg.crcsz = 1
    BY <1>2, <1>3
  <2>2. /\ cfg \in Configs /\ crc \in Seq(Noise(cfg)) /\ Len(crc) <= cfg.crcsz
        /\ mrk \in Seq(Noise(cfg)) /\ Len(mrk) <= cfg.mrksz
        /\ cnt \in 0 .. cfg.rxlen
    BY DEF IInv, FrameInv
  <2>3. Len(len') <= cfg.lensz
    BY <1>1, <1>2
  <2>. QED
    BY <1>1, <1>2, <1>3, <2>1, <2>2, <2>3 DEF FrameInv
<1>5. Holding' <= Holding + 1 /\ cnt' <= cnt
  BY <1>1, <1>2, <1>3 DEF Holding
<1>. QED
  BY <1>1, <1>4, <1>5, ByteTaken

\* A length always fits, so the header is not searched again.
LEMMA LenTooLongCannot ==
  ASSUME IInv
  PROVE  ~ LenTooLong
<1>1. SUFFICES ASSUME LenTooLong PROVE FALSE
  OBVIOUS
<1>2. /\ phs = "LEN" /\ todo # <<>> /\ cfg' = cfg
      /\ len' = Append(len, NextByte)
      /\ Len(len') = cfg.lensz /\ Value(len') > cfg.rxlen
  BY <1>1 DEF LenTooLong
<1>3. Value(len') \in 0 .. cfg.rxlen /\ cfg.rxlen \in Nat
  BY <1>2, LenBytes, ContextFacts DEF IInv
<1>. QED
  BY <1>2, <1>3

\* A byte of the payload is written at the index and is noise.
LEMMA PckByteKeeps ==
  ASSUME IInv, PckByte
  PROVE  IInv'
<1>1. /\ UNCHANGED <<cfg, mrk, len, crc>> /\ Consume /\ phs = "PCK"
      /\ todo # <<>> /\ cnt' = cnt + 1
  BY DEF PckByte, Consume
<1>. DEFINE b == NextByte
<1>2. b \in Noise(cfg) /\ rxbuf' = [rxbuf EXCEPT ![cnt] = b]
  BY <1>1, NextByteIsNoise DEF IInv, PckByte
<1>. HIDE DEF b
<1>3. /\ cfg.rxlen \in Nat /\ cfg.limit \in Nat /\ cfg.rxlen <= cfg.limit
      /\ cfg.crcsz \in 0 .. 1 /\ Noise(cfg) \subseteq Byte /\ cnt \in Nat
  BY ContextFacts DEF IInv
<1>4. /\ len \in Seq(Noise(cfg)) /\ Len(len) = cfg.lensz
      /\ Len(mrk) = cfg.mrksz /\ cnt < Length(len)
  BY <1>1 DEF IInv, FrameInv
<1>5. Length(len) \in 0 .. cfg.rxlen
  BY <1>4, LengthFits DEF IInv
<1>6. cnt \in 0 .. cfg.rxlen - 1 /\ cnt \in 0 .. cfg.limit - 1
  BY <1>3, <1>4, <1>5
<1>7. /\ rxbuf' \in [0 .. cfg.limit - 1 -> Byte] /\ rxbuf'[cnt] = b
      /\ \A j \in 0 .. cfg.limit - 1 : j # cnt => rxbuf'[j] = rxbuf[j]
  BY <1>2, <1>3, <1>6 DEF IInv, BufferInv
<1>8. phs' = IF cnt' # Length(len) THEN "PCK"
             ELSE IF cfg.crcsz = 0 THEN "BOF" ELSE "CRC"
  BY <1>1 DEF PckByte, ToCrc, CallRxcbk
<1>9. FrameInv'
  <2>1. Length(len)' = Length(len)
    BY <1>1 DEF Length
  <2>2. /\ phs' \in {"BOF", "PCK", "CRC"}
        /\ phs' = "PCK" => cnt' < Length(len)
        /\ phs' = "CRC" => cnt' = Length(len) /\ cfg.crcsz = 1
        /\ cnt' \in 0 .. cfg.rxlen
    BY <1>1, <1>3, <1>4, <1>5, <1>6, <1>8
  <2>3. /\ cfg \in Configs /\ crc \in Seq(Noise(cfg)) /\ Len(crc) <= cfg.crcsz
        /\ mrk \in Seq(Noise(cfg)) /\ Len(mrk) <= cfg.mrksz
        /\ Len(len) <= cfg.lensz
    BY DEF IInv, FrameInv
  <2>. QED
    BY <1>1, <1>4, <2>1, <2>2, <2>3 DEF FrameInv
<1>10. BufferInv'
  <2>1. ASSUME NEW i \in 0 .. cnt' - 1 PROVE rxbuf'[i] \in Noise(cfg)
    <3>1. CASE i = cnt
      BY <1>2, <1>7, <3>1
    <3>2. CASE i # cnt
      <4>1. i \in 0 .. cnt - 1 /\ i \in 0 .. cfg.limit - 1
        BY <1>1, <1>3, <1>6, <3>2
      <4>. QED
        BY <1>7, <3>2, <4>1 DEF IInv, BufferInv
    <3>. QED
      BY <3>1, <3>2
  <2>. QED
    BY <1>1, <1>7, <2>1 DEF BufferInv
<1>11. Holding' <= Holding + 1
  <2>1. Holding = 1 + Len(mrk) + Len(len) + cnt /\ Holding \in Nat
    BY <1>1, ContextFacts DEF Holding, IInv
  <2>2. Holding' = 0 \/ Holding' = 1 + Len(mrk) + Len(len) + (cnt + 1)
    BY <1>1, <1>8 DEF Holding
  <2>3. Len(mrk) \in Nat /\ Len(len) \in Nat
    BY <1>4, ContextFacts DEF IInv
  <2>. QED
    BY <1>3, <2>1, <2>2, <2>3
<1>12. \A j \in 0 .. cfg.rxlen - 1 :
         rxbuf'[j] = rxbuf[j] \/ rxbuf'[j] \in Noise(cfg)
  <2>1. ASSUME NEW j \in 0 .. cfg.rxlen - 1
        PROVE rxbuf'[j] = rxbuf[j] \/ rxbuf'[j] \in Noise(cfg)
    <3>1. j \in 0 .. cfg.limit - 1
      BY <1>3
    <3>. QED
      BY <1>2, <1>7, <3>1
  <2>. QED
    BY <2>1
<1>13. AgendaInv'
  BY <1>1, <1>9, <1>11, <1>12, ConsumeKeepsAgenda DEF IInv
<1>. QED
  BY <1>1, <1>9, <1>10, <1>13, ReceivableStays DEF IInv

\* A right checksum ends the frame.
LEMMA CrcGoodKeeps ==
  ASSUME IInv, CrcGood
  PROVE  IInv'
<1>1. /\ UNCHANGED <<cfg, mrk, len, cnt, rxbuf>> /\ Consume /\ phs = "CRC"
      /\ todo # <<>> /\ phs' = "BOF"
  BY DEF CrcGood, Consume, CallRxcbk
<1>. DEFINE b == NextByte
<1>2. b \in Noise(cfg) /\ crc' = <<b>>
  BY <1>1, NextByteIsNoise DEF IInv, CrcGood
<1>. HIDE DEF b
<1>3. crc' \in Seq(Noise(cfg)) /\ Len(crc') = 1 /\ cfg.crcsz = 1
  BY <1>1, <1>2 DEF IInv, FrameInv
<1>4. FrameInv'
  BY <1>1, <1>3 DEF IInv, FrameInv
<1>5. Holding' <= Holding + 1 /\ cnt' <= cnt
  <2>1. Holding \in Nat /\ cnt \in Nat
    BY ContextFacts DEF IInv
  <2>2. Holding' = 0
    BY <1>1 DEF Holding
  <2>. QED
    BY <1>1, <2>1, <2>2
<1>. QED
  BY <1>1, <1>4, <1>5, ByteTaken

\* A wrong one puts it back on the agenda.
LEMMA CrcBadKeeps ==
  ASSUME IInv, CrcBad
  PROVE  IInv'
<1>1. /\ UNCHANGED <<cfg, mrk, len, cnt, rxbuf>> /\ phs = "CRC"
      /\ todo # <<>> /\ phs' = "BOF"
  BY DEF CrcBad, RelockBof
<1>. DEFINE b == NextByte
<1>2. b \in Noise(cfg) /\ crc' = <<b>>
      /\ todo' = PushedAgain(len, <<b>>) \o Tail(todo)
  BY <1>1, NextByteIsNoise DEF IInv, CrcBad, RelockBof
<1>. HIDE DEF b
<1>3. crc' \in Seq(Noise(cfg)) /\ Len(crc') = 1 /\ cfg.crcsz = 1
  BY <1>1, <1>2 DEF IInv, FrameInv
<1>4. FrameInv'
  BY <1>1, <1>3 DEF IInv, FrameInv
<1>5. BufferInv'
  BY <1>1 DEF IInv, BufferInv
<1>6. AgendaInv'
  BY <1>1, <1>2, RelockKeepsAgenda
<1>. QED
  BY <1>1, <1>4, <1>5, <1>6, ReceivableStays DEF IInv

\* The invariant is inductive.
LEMMA InvStep == IInv /\ [Next]_vars => IInv'
<1>. SUFFICES ASSUME IInv, [Next]_vars PROVE IInv'
  OBVIOUS
<1>1. CASE UNCHANGED vars
  <2>1. UNCHANGED <<cfg, phs, mrk, len, crc, cnt, rxbuf, todo>>
    BY <1>1 DEF vars
  <2>2. Receivable' /\ FrameInv' /\ BufferInv'
    BY <2>1, ReceivableStays DEF IInv, FrameInv, BufferInv, Length
  <2>3. AgendaInv'
    BY <2>1 DEF IInv, AgendaInv, Items, Holding, HeaderSize
  <2>. QED
    BY <2>2, <2>3 DEF IInv
<1>2. CASE Next
  BY <1>2, PushKeeps, BofSkipKeeps, BofFoundKeeps, MrkByteKeeps, LenByteKeeps,
     LenZeroKeeps, LenTooLongCannot, PckByteKeeps, CrcGoodKeeps, CrcBadKeeps
     DEF Next, Step
<1>. QED
  BY <1>1, <1>2

-----------------------------------------------------------------------------
(* The type, also where a length may not fit and a relock searches rxbuf and *)
(* what lies after it.                                                       *)

\* The bytes that may arrive, and the 0 rxbuf is cleared with.
Arriving ==
  {b \in Byte : \/ b = 0 \/ b \in Noise(cfg)
                \/ \E s \in Chunks : \E i \in DOMAIN s : b = s[i]}

\* The rxbuf of the model reaches as far as a relock may read.
LimitCovers ==
  /\ \A s \in Chunks : s \in Seq(Byte)
  /\ \A l \in [1 .. cfg.lensz -> Arriving] : Value(l) \in 0 .. cfg.limit

Places == ({"byte"} \X Arriving) \cup ({"rxbuf"} \X (0 .. cfg.limit - 1))

\* What the phase says of the fields.
FieldsInv ==
  /\ phs \in {"BOF", "MRK", "LEN", "PCK", "CRC"}
  /\ mrk \in Seq(Arriving) /\ Len(mrk) <= cfg.mrksz
  /\ len \in Seq(Arriving) /\ Len(len) <= cfg.lensz
  /\ crc \in Seq(Arriving) /\ Len(crc) <= cfg.crcsz
  /\ cnt \in 0 .. cfg.rxlen
  /\ phs = "MRK" => Len(mrk) < cfg.mrksz /\ len = <<>> /\ cnt = 0
  /\ phs = "LEN" => Len(len) < cfg.lensz /\ cnt = 0
  /\ phs \in {"PCK", "CRC"} => /\ Len(len) = cfg.lensz
                               /\ Length(len) \in 0 .. cfg.rxlen
  /\ phs = "PCK" => cnt < Length(len)
  /\ phs = "CRC" => cfg.crcsz = 1

PlacesInv ==
  /\ rxbuf \in [0 .. cfg.limit - 1 -> Arriving]
  /\ todo \in Seq(Places)

TypeInv == cfg \in Configs /\ LimitCovers /\ FieldsInv /\ PlacesInv

\* What the assumption and the limit say of a context.
LEMMA ArrivingFacts ==
  ASSUME cfg \in Configs, LimitCovers
  PROVE  /\ cfg.mrksz \in 0 .. 3 /\ cfg.lensz \in 0 .. 3 /\ cfg.crcsz \in 0 .. 1
         /\ cfg.rxlen \in Nat /\ 1 <= cfg.rxlen
         /\ cfg.limit \in Nat /\ cfg.rxlen <= cfg.limit
         /\ Noise(cfg) \cup {0} \subseteq Arriving /\ Arriving \subseteq Byte
         /\ \A s \in Chunks : s \in Seq(Arriving)
<1>1. /\ cfg.mrksz \in 0 .. 3 /\ cfg.lensz \in 0 .. 3 /\ cfg.crcsz \in 0 .. 1
      /\ cfg.rxlen \in Nat /\ 1 <= cfg.rxlen
      /\ cfg.limit \in Nat /\ cfg.rxlen <= cfg.limit
      /\ Noise(cfg) \subseteq Byte
  BY EuclidAssumption
<1>2. Noise(cfg) \cup {0} \subseteq Arriving /\ Arriving \subseteq Byte
  <2>1. 0 \in Byte
    BY DEF Byte
  <2>. QED
    BY <1>1, <2>1 DEF Arriving
<1>3. ASSUME NEW s \in Chunks PROVE s \in Seq(Arriving)
  <2>1. s \in Seq(Byte)
    BY DEF LimitCovers
  <2>2. \A i \in DOMAIN s : s[i] \in Arriving
    <3>1. \A i \in 1 .. Len(s) : s[i] \in Byte
      BY <2>1, ElementOfSeq
    <3>2. DOMAIN s = 1 .. Len(s)
      BY <2>1, LenProperties
    <3>. QED
      BY <3>1, <3>2 DEF Arriving
  <2>3. DOMAIN s = 1 .. Len(s) /\ Len(s) \in Nat /\ s \in [1 .. Len(s) -> Byte]
    BY <2>1, LenProperties
  <2>. QED
    BY <2>2, <2>3, IsASeq
<1>. QED
  BY <1>1, <1>2, <1>3

\* A whole length.
LEMMA LengthReaches ==
  ASSUME cfg \in Configs, LimitCovers, NEW l \in Seq(Arriving),
         Len(l) = cfg.lensz
  PROVE  /\ Length(l) \in 0 .. cfg.limit
         /\ cfg.lensz > 0 => Length(l) = Value(l)
         /\ cfg.lensz = 0 => Length(l) = cfg.rxlen
<1>1. l \in [1 .. cfg.lensz -> Arriving]
  BY LenProperties
<1>2. Value(l) \in 0 .. cfg.limit
  BY <1>1 DEF LimitCovers
<1>. QED
  BY <1>2, ArrivingFacts DEF Length

\* The context stays, and with it what may arrive.
LEMMA ArrivingStays ==
  ASSUME LimitCovers, cfg' = cfg
  PROVE  Arriving' = Arriving /\ Places' = Places /\ LimitCovers'
<1>1. Chunks' = Chunks
  BY DEF Chunks, Encode
<1>2. Arriving' = Arriving
  BY <1>1 DEF Arriving
<1>. QED
  BY <1>1, <1>2 DEF Places, LimitCovers

\* The next byte and the rest of the agenda.
LEMMA NextArrives ==
  ASSUME TypeInv, todo # <<>>
  PROVE  NextByte \in Arriving /\ Tail(todo) \in Seq(Places)
<1>1. todo \in Seq(Places)
  BY DEF TypeInv, PlacesInv
<1>2. Head(todo) \in Places /\ Tail(todo) \in Seq(Places)
  BY <1>1, HeadTailProperties
<1>3. NextByte \in Arriving
  <2>1. CASE Head(todo) \in {"byte"} \X Arriving
    BY <2>1 DEF NextByte, Read
  <2>2. CASE Head(todo) \in {"rxbuf"} \X (0 .. cfg.limit - 1)
    BY <2>2 DEF NextByte, Read, TypeInv, PlacesInv
  <2>. QED
    BY <1>2, <2>1, <2>2 DEF Places
<1>. QED
  BY <1>2, <1>3

\* Steps that take a byte and leave rxbuf alone.
LEMMA ByteLeaves ==
  ASSUME TypeInv, Consume, UNCHANGED <<cfg, rxbuf>>, FieldsInv'
  PROVE  TypeInv'
<1>1. Tail(todo) \in Seq(Places) /\ todo' = Tail(todo)
  BY NextArrives DEF Consume
<1>2. Arriving' = Arriving /\ Places' = Places /\ LimitCovers'
  BY ArrivingStays DEF TypeInv
<1>. QED
  BY <1>1, <1>2 DEF TypeInv, PlacesInv

\* What a relock pushes again stays below the limit.
LEMMA PushedPlaces ==
  ASSUME TypeInv, NEW l \in Seq(Arriving), Len(l) = cfg.lensz,
         NEW c \in Seq(Arriving)
  PROVE  PushedAgain(l, c) \in Seq(Places)
<1>. DEFINE view == View(l, c)
            n == Length(l)
            inView == {i \in 1 .. Len(view) : view[i] = cfg.bof}
            inRxbuf == {i \in 0 .. n - 1 : rxbuf[i] = cfg.bof}
<1>1. n \in Nat /\ n <= cfg.limit /\ cfg.limit \in Nat
  BY LengthReaches, ArrivingFacts DEF TypeInv
<1>2. view \in Seq(Arriving) /\ Len(view) \in Nat
  <2>1. mrk \in Seq(Arriving) /\ <<>> \in Seq(Arriving)
    BY EmptySeq DEF TypeInv, FieldsInv
  <2>2. mrk \o l \in Seq(Arriving)
    BY <2>1, ConcatProperties
  <2>3. view \in Seq(Arriving)
    BY <2>1, <2>2, ConcatProperties DEF View
  <2>. QED
    BY <2>3, LenProperties
<1>3. \A s \in Seq(Arriving) : Given(s) \in Seq(Places)
  <2>1. SUFFICES ASSUME NEW s \in Seq(Arriving) PROVE Given(s) \in Seq(Places)
    OBVIOUS
  <2>2. Given(s) \in Seq({"byte"} \X Arriving)
    BY GivenIs
  <2>. QED
    BY <2>2, SeqMonotonic DEF Places
<1>4. \A f \in 0 .. n : InRxbuf(f, n - 1) \in Seq(Places)
  <2>1. SUFFICES ASSUME NEW f \in 0 .. n
                 PROVE  InRxbuf(f, n - 1) \in Seq(Places)
    OBVIOUS
  <2>2. 0 .. n - 1 \subseteq 0 .. cfg.limit - 1
    BY <1>1
  <2>. HIDE DEF n
  <2>3. InRxbuf(f, n - 1) \in Seq({"rxbuf"} \X (0 .. cfg.limit - 1))
    BY <1>1, <2>2, InRxbufIs
  <2>. QED
    BY <2>3, SeqMonotonic DEF Places
<1>. DEFINE pushed == IF inView # {}
                        THEN Given(SubSeq(view, First(inView), Len(view)))
                               \o InRxbuf(0, n - 1)
                      ELSE IF inRxbuf # {} THEN InRxbuf(First(inRxbuf), n - 1)
                      ELSE <<>>
<1>5. PushedAgain(l, c) = pushed \o Given(c)
  BY DEF PushedAgain
<1>6. inView \in SUBSET Nat /\ inRxbuf \in SUBSET Nat
  BY <1>1, <1>2
<1>7. CASE inView # {}
  <2>. DEFINE i == First(inView)
  <2>1. i \in inView
    BY <1>7, <1>6, FirstIsLeast
  <2>2. pushed = Given(SubSeq(view, i, Len(view))) \o InRxbuf(0, n - 1)
    BY <1>7
  <2>. HIDE DEF i, view, n
  <2>3. i \in 1 .. Len(view)
    BY <2>1
  <2>4. SubSeq(view, i, Len(view)) \in Seq(Arriving)
    <3>1. \A j \in i .. Len(view) : view[j] \in Arriving
      BY <1>2, <2>3, ElementOfSeq
    <3>. QED
      BY <1>2, <2>3, <3>1, SubSeqProperties
  <2>5. pushed \in Seq(Places)
    <3>1. Given(SubSeq(view, i, Len(view))) \in Seq(Places)
      BY <1>3, <2>4
    <3>2. InRxbuf(0, n - 1) \in Seq(Places)
      BY <1>1, <1>4
    <3>. QED
      BY <2>2, <3>1, <3>2, ConcatProperties
  <2>. HIDE DEF pushed
  <2>. QED
    BY <1>3, <1>5, <2>5, ConcatProperties
<1>8. CASE inView = {}
  <2>1. pushed = IF inRxbuf # {} THEN InRxbuf(First(inRxbuf), n - 1) ELSE <<>>
    BY <1>8
  <2>2. pushed \in Seq(Places)
    <3>1. CASE inRxbuf # {}
      <4>1. First(inRxbuf) \in inRxbuf
        BY <1>6, <3>1, FirstIsLeast
      <4>2. First(inRxbuf) \in 0 .. n
        BY <1>1, <4>1
      <4>. HIDE DEF n, inRxbuf
      <4>. QED
        BY <1>4, <2>1, <3>1, <4>2
    <3>2. CASE inRxbuf = {}
      BY <2>1, <3>2, EmptySeq
    <3>. QED
      BY <3>1, <3>2
  <2>. HIDE DEF pushed
  <2>. QED
    BY <1>3, <1>5, <2>2, ConcatProperties
<1>. QED
  BY <1>7, <1>8

\* Steps that change the fields of the frame being received keep the type.
LEMMA FieldsKept ==
  ASSUME TypeInv,
         BofSkip \/ BofFound \/ MrkByte \/ LenByte \/ LenZero \/ CrcGood
  PROVE  TypeInv'
<1>1. Consume /\ UNCHANGED <<cfg, rxbuf>> /\ todo # <<>>
  BY DEF BofSkip, BofFound, MrkByte, LenByte, LenZero, CrcGood, Consume
<1>. SUFFICES FieldsInv'
  BY <1>1, ByteLeaves
<1>. DEFINE b == NextByte
            A == Arriving
<1>2. b \in A
  BY <1>1, NextArrives
<1>3. A' = A
  BY <1>1, ArrivingStays DEF TypeInv
<1>4. /\ cfg.mrksz \in 0 .. 3 /\ cfg.lensz \in 0 .. 3 /\ cfg.crcsz \in 0 .. 1
      /\ cfg.rxlen \in Nat /\ 1 <= cfg.rxlen
  BY ArrivingFacts DEF TypeInv
<1>5. <<>> \in Seq(A) /\ Len(<<>>) = 0
  BY EmptySeq
<1>6. /\ phs \in {"BOF", "MRK", "LEN", "PCK", "CRC"}
      /\ mrk \in Seq(A) /\ Len(mrk) <= cfg.mrksz /\ Len(mrk) \in Nat
      /\ len \in Seq(A) /\ Len(len) <= cfg.lensz /\ Len(len) \in Nat
      /\ crc \in Seq(A) /\ Len(crc) <= cfg.crcsz
      /\ cnt \in 0 .. cfg.rxlen
      /\ phs = "MRK" => Len(mrk) < cfg.mrksz /\ len = <<>> /\ cnt = 0
      /\ phs = "LEN" => Len(len) < cfg.lensz /\ cnt = 0
      /\ phs \in {"PCK", "CRC"} => /\ Len(len) = cfg.lensz
                                   /\ Length(len) \in 0 .. cfg.rxlen
      /\ phs = "PCK" => cnt < Length(len)
      /\ phs = "CRC" => cfg.crcsz = 1
  BY LenProperties DEF TypeInv, FieldsInv
<1>. HIDE DEF b
<1>7. /\ Append(mrk, b) \in Seq(A) /\ Len(Append(mrk, b)) = Len(mrk) + 1
      /\ Append(len, b) \in Seq(A) /\ Len(Append(len, b)) = Len(len) + 1
      /\ <<b>> \in Seq(A) /\ Len(<<b>>) = 1
  BY <1>2, <1>6, AppendProperties
<1>8. CASE BofSkip
  BY <1>1, <1>3, <1>8, <1>6 DEF BofSkip, FieldsInv, Length
<1>9. CASE BofFound
  <2>1. /\ mrk' = <<>> /\ len' = <<>> /\ crc' = <<>> /\ cnt' = 0
        /\ phs' = IF cfg.mrksz # 0 THEN "MRK"
                  ELSE IF cfg.lensz = 0 THEN "PCK" ELSE "LEN"
    BY <1>9 DEF BofFound, ToLen
  <2>2. phs' = "PCK" => Length(len)' = cfg.rxlen
    BY <1>1, <1>4, <2>1 DEF Length
  <2>. QED
    BY <1>1, <1>3, <1>4, <1>5, <2>1, <2>2 DEF FieldsInv
<1>10. CASE MrkByte
  <2>1. /\ UNCHANGED <<len, crc, cnt>> /\ phs = "MRK" /\ mrk' = Append(mrk, b)
        /\ phs' = IF Len(mrk') # cfg.mrksz THEN "MRK"
                  ELSE IF cfg.lensz = 0 THEN "PCK" ELSE "LEN"
    BY <1>10 DEF MrkByte, ToLen, b
  <2>2. phs' = "PCK" => Length(len)' = cfg.rxlen
    BY <1>1, <1>4, <2>1 DEF Length
  <2>3. Len(mrk') = Len(mrk) + 1 /\ mrk' \in Seq(A) /\ len = <<>> /\ cnt = 0
        /\ Len(mrk') <= cfg.mrksz /\ (phs' = "MRK" => Len(mrk') < cfg.mrksz)
    BY <1>4, <1>6, <1>7, <2>1
  <2>4. phs' \in {"MRK", "PCK", "LEN"}
        /\ (phs' = "LEN" => Len(len) < cfg.lensz)
        /\ (phs' = "PCK" => Len(len) = cfg.lensz)
    BY <1>4, <1>5, <2>1, <2>3
  <2>. QED
    BY <1>1, <1>3, <1>4, <1>5, <1>6, <2>1, <2>2, <2>3, <2>4 DEF FieldsInv
<1>11. CASE LenByte
  <2>. DEFINE l == len'
  <2>1. /\ UNCHANGED <<mrk, crc, cnt>> /\ phs = "LEN" /\ l = Append(len, b)
        /\ Len(l) = cfg.lensz => Value(l) \in 1 .. cfg.rxlen
        /\ phs' = IF Len(l) = cfg.lensz THEN "PCK" ELSE "LEN"
    BY <1>11 DEF LenByte, b
  <2>2. Length(len)' = Length(l)
    BY <1>1 DEF Length
  <2>. HIDE DEF l
  <2>3. l \in Seq(A) /\ Len(l) = Len(len) + 1 /\ Len(l) <= cfg.lensz
        /\ 0 < cfg.lensz /\ cnt = 0
    BY <1>4, <1>6, <1>7, <2>1
  <2>4. Len(l) = cfg.lensz => Length(l) \in 1 .. cfg.rxlen
    BY <2>1, <2>3, <1>4 DEF Length
  <2>5. /\ phs' \in {"PCK", "LEN"}
        /\ phs' = "LEN" => Len(l) < cfg.lensz
        /\ phs' = "PCK" => /\ Len(l) = cfg.lensz /\ 0 < Length(l)
                           /\ Length(l) \in 0 .. cfg.rxlen
    BY <1>4, <2>1, <2>3, <2>4
  <2>. QED
    BY <1>1, <1>3, <1>6, <2>1, <2>2, <2>3, <2>5 DEF FieldsInv, l
<1>12. CASE LenZero
  <2>. DEFINE l == len'
  <2>1. /\ UNCHANGED <<mrk, crc, cnt>> /\ phs = "LEN" /\ l = Append(len, b)
        /\ Len(l) = cfg.lensz /\ Value(l) = 0
        /\ phs' = IF cfg.crcsz = 0 THEN "BOF" ELSE "CRC"
    BY <1>12 DEF LenZero, ToCrc, CallRxcbk, b
  <2>2. Length(len)' = Length(l)
    BY <1>1 DEF Length
  <2>. HIDE DEF l
  <2>3. l \in Seq(A) /\ 0 < cfg.lensz /\ Length(l) = 0
    BY <1>4, <1>6, <1>7, <2>1 DEF Length
  <2>4. /\ phs' \in {"BOF", "CRC"} /\ (phs' = "CRC" => cfg.crcsz = 1)
        /\ Len(l) <= cfg.lensz /\ 0 \in 0 .. cfg.rxlen
    BY <1>4, <2>1
  <2>. QED
    BY <1>1, <1>3, <1>6, <2>1, <2>2, <2>3, <2>4 DEF FieldsInv, l
<1>13. CASE CrcGood
  <2>1. /\ UNCHANGED <<mrk, len, cnt>> /\ phs = "CRC" /\ crc' = <<b>>
        /\ phs' = "BOF"
    BY <1>13 DEF CrcGood, CallRxcbk, b
  <2>2. Len(crc') <= cfg.crcsz /\ crc' \in Seq(A)
    BY <1>4, <1>6, <1>7, <2>1
  <2>. QED
    BY <1>1, <1>3, <1>6, <2>1, <2>2 DEF FieldsInv
<1>. QED
  BY <1>8, <1>9, <1>10, <1>11, <1>12, <1>13

\* A byte of the payload is written inside rxbuf.
LEMMA PayloadKept ==
  ASSUME TypeInv, PckByte
  PROVE  TypeInv'
<1>1. /\ Consume /\ UNCHANGED <<cfg, mrk, len, crc>> /\ todo # <<>>
      /\ phs = "PCK" /\ cnt' = cnt + 1
      /\ rxbuf' = [rxbuf EXCEPT ![cnt] = NextByte]
      /\ phs' = IF cnt' # Length(len) THEN "PCK"
                ELSE IF cfg.crcsz = 0 THEN "BOF" ELSE "CRC"
  BY DEF PckByte, ToCrc, CallRxcbk, Consume
<1>2. NextByte \in Arriving /\ todo' \in Seq(Places)
  BY <1>1, NextArrives DEF Consume
<1>3. Arriving' = Arriving /\ Places' = Places /\ LimitCovers'
  BY <1>1, ArrivingStays DEF TypeInv
<1>4. /\ cfg.crcsz \in 0 .. 1 /\ cfg.rxlen \in Nat
      /\ cnt \in 0 .. cfg.rxlen /\ cnt < Length(len)
      /\ Length(len) \in 0 .. cfg.rxlen /\ Length(len)' = Length(len)
  BY <1>1, ArrivingFacts DEF TypeInv, FieldsInv, Length
<1>5. /\ phs' \in {"PCK", "BOF", "CRC"} /\ cnt' \in 0 .. cfg.rxlen
      /\ phs' = "PCK" => cnt' < Length(len)
      /\ phs' = "CRC" => cfg.crcsz = 1
  BY <1>1, <1>4
<1>6. FieldsInv'
  BY <1>1, <1>3, <1>4, <1>5 DEF TypeInv, FieldsInv
<1>7. rxbuf' \in [0 .. cfg.limit - 1 -> Arriving]
  BY <1>1, <1>2 DEF TypeInv, PlacesInv
<1>. QED
  BY <1>1, <1>2, <1>3, <1>6, <1>7 DEF TypeInv, PlacesInv

\* A relock puts places of rxbuf below the limit on the agenda.
LEMMA RelockKept ==
  ASSUME TypeInv, LenTooLong \/ CrcBad
  PROVE  TypeInv'
<1>1. /\ UNCHANGED <<cfg, mrk, cnt, rxbuf>> /\ todo # <<>> /\ phs' = "BOF"
  BY DEF LenTooLong, CrcBad, RelockBof
<1>2. NextByte \in Arriving /\ Tail(todo) \in Seq(Places)
  BY <1>1, NextArrives
<1>3. Arriving' = Arriving /\ Places' = Places /\ LimitCovers'
  BY <1>1, ArrivingStays DEF TypeInv
<1>4. cfg.crcsz \in 0 .. 1 /\ cfg.lensz \in 0 .. 3 /\ 0 \in Arriving
  BY ArrivingFacts DEF TypeInv
<1>5. /\ len \in Seq(Arriving) /\ Len(len) \in Nat
      /\ phs = "LEN" => Len(len) < cfg.lensz
      /\ phs = "CRC" => Len(len) = cfg.lensz /\ cfg.crcsz = 1
  BY LenProperties DEF TypeInv, FieldsInv
<1>6. PICK l \in Seq(Arriving), c \in Seq(Arriving) :
        /\ Len(l) = cfg.lensz /\ todo' = PushedAgain(l, c) \o Tail(todo)
        /\ len' = l /\ crc' \in Seq(Arriving) /\ Len(crc') <= cfg.crcsz
  <2>1. CASE LenTooLong
    <3>. DEFINE l == len'
                c == [i \in 1 .. cfg.crcsz |-> 0]
    <3>1. /\ l = Append(len, NextByte) /\ crc' = crc /\ Len(l) = cfg.lensz
          /\ todo' = PushedAgain(l, c) \o Tail(todo)
      BY <2>1 DEF LenTooLong, RelockBof
    <3>2. l \in Seq(Arriving)
      BY <1>2, <1>5, <3>1, AppendProperties
    <3>3. c \in Seq(Arriving)
      BY <1>4
    <3>4. crc \in Seq(Arriving) /\ Len(crc) <= cfg.crcsz
      BY DEF TypeInv, FieldsInv
    <3>. HIDE DEF c
    <3>. QED
      BY <3>1, <3>2, <3>3, <3>4
  <2>2. CASE CrcBad
    <3>. DEFINE c == <<NextByte>>
    <3>1. /\ phs = "CRC" /\ len' = len /\ crc' = c
          /\ todo' = PushedAgain(len, c) \o Tail(todo)
      BY <2>2 DEF CrcBad, RelockBof
    <3>2. c \in Seq(Arriving) /\ Len(c) = 1
      BY <1>2
    <3>. HIDE DEF c
    <3>3. Len(c) <= cfg.crcsz
      BY <1>5, <3>1, <3>2
    <3>. QED
      BY <1>5, <3>1, <3>2, <3>3
  <2>. QED
    BY <2>1, <2>2
<1>7. todo' \in Seq(Places)
  <2>1. PushedAgain(l, c) \in Seq(Places)
    BY <1>6, PushedPlaces
  <2>. QED
    BY <1>2, <1>6, <2>1, ConcatProperties
<1>8. FieldsInv'
  <2>1. Len(len') <= cfg.lensz
    BY <1>4, <1>6
  <2>. QED
    BY <1>1, <1>3, <1>6, <2>1 DEF TypeInv, FieldsInv
<1>. QED
  BY <1>1, <1>3, <1>7, <1>8 DEF TypeInv, PlacesInv

\* The type is inductive.
LEMMA TypeStep == TypeInv /\ [Next]_vars => TypeInv'
<1>. SUFFICES ASSUME TypeInv, [Next]_vars PROVE TypeInv'
  OBVIOUS
<1>1. CASE UNCHANGED vars
  <2>1. UNCHANGED <<cfg, phs, mrk, len, crc, cnt, rxbuf, todo>>
    BY <1>1 DEF vars
  <2>2. Arriving' = Arriving /\ Places' = Places /\ LimitCovers'
    BY <2>1, ArrivingStays DEF TypeInv
  <2>. QED
    BY <2>1, <2>2 DEF TypeInv, FieldsInv, PlacesInv, Length
<1>2. CASE Push
  <2>1. PICK s \in Chunks : todo' = Given(s)
    BY <1>2 DEF Push
  <2>2. UNCHANGED <<cfg, phs, mrk, len, crc, cnt, rxbuf>>
    BY <1>2 DEF Push
  <2>3. Arriving' = Arriving /\ Places' = Places /\ LimitCovers'
    BY <2>2, ArrivingStays DEF TypeInv
  <2>4. s \in Seq(Arriving)
    BY ArrivingFacts DEF TypeInv
  <2>5. todo' \in Seq({"byte"} \X Arriving)
    BY <2>1, <2>4, GivenIs
  <2>6. todo' \in Seq(Places)
    BY <2>5, SeqMonotonic DEF Places
  <2>. QED
    BY <2>2, <2>3, <2>6 DEF TypeInv, FieldsInv, PlacesInv, Length
<1>3. CASE Step
  BY <1>3, FieldsKept, PayloadKept, RelockKept DEF Step
<1>. QED
  BY <1>1, <1>2, <1>3 DEF Next

\* Nothing is held at first, and rxbuf holds zeros and noise.
LEMMA TypeInit == Init /\ LimitCovers => TypeInv
<1>. SUFFICES ASSUME Init, LimitCovers PROVE TypeInv
  OBVIOUS
<1>1. cfg \in Configs
  BY DEF Init
<1>2. /\ cfg.mrksz \in 0 .. 3 /\ cfg.lensz \in 0 .. 3 /\ cfg.crcsz \in 0 .. 1
      /\ cfg.rxlen \in Nat /\ Noise(cfg) \cup {0} \subseteq Arriving
  BY <1>1, ArrivingFacts
<1>3. /\ <<>> \in Seq(Arriving) /\ Len(<<>>) = 0 /\ <<>> \in Seq(Places)
  BY EmptySeq
<1>4. FieldsInv
  BY <1>2, <1>3 DEF Init, FieldsInv
<1>5. PlacesInv
  BY <1>2, <1>3 DEF Init, PlacesInv
<1>. QED
  BY <1>1, <1>4, <1>5 DEF TypeInv

\* The bytes held are those the phase says, and the write index stays inside
\* rxbuf, whatever arrives, lengths that do not fit included (WJPv5.h:215-299).
THEOREM TypeCorrect == Spec /\ LimitCovers => []TypeOK
<1>1. TypeInv => TypeOK
  <2>. SUFFICES ASSUME TypeInv PROVE TypeOK
    OBVIOUS
  <2>1. Arriving \subseteq Byte /\ cfg.rxlen \in Nat /\ cfg.limit \in Nat
    BY ArrivingFacts DEF TypeInv
  <2>2. mrk \in Seq(Byte) /\ len \in Seq(Byte) /\ crc \in Seq(Byte)
    BY <2>1, SeqMonotonic DEF TypeInv, FieldsInv
  <2>3. phs = "PCK" => Length(len) <= cfg.rxlen
    BY <2>1 DEF TypeInv, FieldsInv
  <2>4. ASSUME NEW i \in DOMAIN todo
        PROVE  \/ todo[i][1] = "byte" /\ todo[i][2] \in Byte
               \/ todo[i][1] = "rxbuf" /\ todo[i][2] \in 0 .. cfg.limit - 1
    <3>1. todo[i] \in Places
      BY ElementOfSeq, LenProperties DEF TypeInv, PlacesInv
    <3>. QED
      BY <2>1, <3>1 DEF Places
  <2>5. rxbuf \in [0 .. cfg.limit - 1 -> Byte]
    BY <2>1 DEF TypeInv, PlacesInv
  <2>. QED
    BY <2>2, <2>3, <2>4, <2>5 DEF TypeInv, FieldsInv, TypeOK
<1>. QED
  BY <1>1, TypeInit, TypeStep, PTL DEF Spec

-----------------------------------------------------------------------------
(* The reads come before the writes. *)

\* A step writes no place of rxbuf that is still on the agenda after it.
LEMMA WritesBehind ==
  ASSUME IInv, Next, NEW i \in 1 .. Len(todo'), todo'[i][1] = "rxbuf"
  PROVE  rxbuf'[todo'[i][2]] = rxbuf[todo'[i][2]]
<1>1. CASE rxbuf' = rxbuf
  BY <1>1
<1>2. CASE PckByte
  <2>1. /\ phs = "PCK" /\ todo # <<>> /\ todo' = Tail(todo)
        /\ rxbuf' = [rxbuf EXCEPT ![cnt] = NextByte]
    BY <1>2 DEF PckByte, Consume
  <2>2. /\ todo \in Seq(Items) /\ Len(todo') = Len(todo) - 1
        /\ todo'[i] = todo[i + 1] /\ Len(todo) \in Nat
    BY <2>1, HeadTailProperties, LenProperties DEF IInv, AgendaInv
  <2>3. i + 1 \in 1 .. Len(todo) /\ i \in Nat /\ i >= 1
    BY <2>2
  <2>4. todo[i + 1] \in Items /\ todo[i + 1][1] = "rxbuf"
    BY <2>2, <2>3, ElementOfSeq
  <2>. DEFINE j == todo[i + 1][2]
  <2>5. j \in 0 .. cfg.rxlen - 1
    BY <2>4 DEF Items
  <2>6. (i + 1) + Holding <= j + HeaderSize
    BY <2>3, <2>4 DEF IInv, AgendaInv
  <2>7. /\ Holding = HeaderSize + cnt /\ cnt \in Nat /\ HeaderSize \in Nat
        /\ cfg.rxlen \in Nat /\ cfg.limit \in Nat /\ cfg.rxlen <= cfg.limit
    BY <2>1, ContextFacts DEF IInv, FrameInv, Holding, HeaderSize
  <2>. HIDE DEF j
  <2>8. j # cnt
    BY <2>3, <2>5, <2>6, <2>7
  <2>9. j \in 0 .. cfg.limit - 1
    BY <2>5, <2>7
  <2>10. rxbuf'[j] = rxbuf[j]
    BY <2>1, <2>8, <2>9 DEF IInv, BufferInv
  <2>. QED
    BY <2>2, <2>10 DEF j
<1>. QED
  BY <1>1, <1>2 DEF Next, Step, Push, BofSkip, BofFound, MrkByte, LenByte,
     LenZero, LenTooLong, CrcGood, CrcBad

\* The bytes pushed again out of rxbuf are read before the frames that are
\* received meanwhile write their places, however deep the failures nest
\* (WJPv5.h:150-163).
THEOREM ReadsComeFirst == Spec /\ Receivable => ReadBeforeWritten
<1>1. IInv /\ [Next]_vars =>
        [\A i \in 1 .. Len(todo') :
           todo'[i][1] = "rxbuf" =>
             rxbuf'[todo'[i][2]] = rxbuf[todo'[i][2]]]_vars
  BY WritesBehind
<1>. QED
  BY <1>1, InitInv, InvStep, PTL DEF Spec, ReadBeforeWritten

-----------------------------------------------------------------------------
(* Parts of a frame. *)

\* A sequence of three parts gives back its middle and its end.
LEMMA Parts ==
  ASSUME NEW S, NEW a \in Seq(S), NEW b \in Seq(S), NEW c \in Seq(S)
  PROVE  /\ SubSeq((a \o b) \o c, Len(a) + 1, Len(a) + Len(b)) = b
         /\ SubSeq(a \o b, Len(a) + 1, Len(a) + Len(b)) = b
<1>1. /\ a \o b \in Seq(S) /\ Len(a \o b) = Len(a) + Len(b)
      /\ \A i \in 1 .. Len(a) + Len(b) :
           (a \o b)[i] = IF i <= Len(a) THEN a[i] ELSE b[i - Len(a)]
  BY ConcatProperties
<1>2. /\ (a \o b) \o c \in Seq(S)
      /\ \A i \in 1 .. Len(a) + Len(b) : ((a \o b) \o c)[i] = (a \o b)[i]
  <2>1. /\ (a \o b) \o c \in Seq(S)
        /\ \A i \in 1 .. Len(a \o b) + Len(c) : ((a \o b) \o c)[i] =
             IF i <= Len(a \o b) THEN (a \o b)[i] ELSE c[i - Len(a \o b)]
    BY <1>1, ConcatProperties
  <2>2. Len(a) \in Nat /\ Len(b) \in Nat /\ Len(c) \in Nat
    BY LenProperties
  <2>. QED
    BY <1>1, <2>1, <2>2
<1>3. Len(a) \in Nat /\ Len(b) \in Nat
  BY LenProperties
<1>4. ASSUME NEW s, \A i \in 1 .. Len(a) + Len(b) : s[i] = (a \o b)[i]
      PROVE  SubSeq(s, Len(a) + 1, Len(a) + Len(b)) = b
  <2>. DEFINE x == Len(a)
              y == Len(b)
              t == SubSeq(s, x + 1, x + y)
  <2>1. \A i \in 1 .. y : s[x + i] = b[i] /\ b[i] \in S
    <3>1. SUFFICES ASSUME NEW i \in 1 .. y
                   PROVE s[x + i] = b[i] /\ b[i] \in S
      OBVIOUS
    <3>2. x + i \in 1 .. x + y /\ ~ (x + i <= x) /\ (x + i) - x = i
      BY <1>3
    <3>3. s[x + i] = b[i]
      BY <1>1, <1>4, <3>2
    <3>. QED
      BY <3>3, ElementOfSeq
  <2>. HIDE DEF x, y
  <2>2. x \in Nat /\ y \in Nat
    BY <1>3 DEF x, y
  <2>3. \A i \in x + 1 .. x + y : s[i] \in S
    <3>1. SUFFICES ASSUME NEW i \in x + 1 .. x + y PROVE s[i] \in S
      OBVIOUS
    <3>2. i - x \in 1 .. y /\ x + (i - x) = i
      BY <2>2
    <3>. QED
      BY <2>1, <3>2
  <2>4. /\ t \in Seq(S)
        /\ Len(t) = IF x + 1 <= x + y THEN x + y - (x + 1) + 1 ELSE 0
        /\ \A i \in 1 .. x + y - (x + 1) + 1 : t[i] = s[x + 1 + i - 1]
    BY <2>2, <2>3, SubSeqProperties
  <2>. HIDE DEF t
  <2>5. Len(t) = y
    BY <2>2, <2>4
  <2>6. \A i \in 1 .. y : t[i] = b[i]
    <3>1. SUFFICES ASSUME NEW i \in 1 .. y PROVE t[i] = b[i]
      OBVIOUS
    <3>2. i \in 1 .. x + y - (x + 1) + 1 /\ x + 1 + i - 1 = x + i
      BY <2>2
    <3>. QED
      BY <2>1, <2>4, <3>2
  <2>7. t = b
    BY <2>4, <2>5, <2>6, SeqEqual DEF y
  <2>. QED
    BY <2>7 DEF t, x, y
<1>. QED
  BY <1>2, <1>4

\* Concatenations of bytes.
LEMMA Joins ==
  \A x, y \in Seq(Byte) : /\ x \o y \in Seq(Byte)
                         /\ Len(x \o y) = Len(x) + Len(y)
                         /\ Len(x) \in Nat /\ Len(y) \in Nat
  BY ConcatProperties, LenProperties

Regroups(x, y, z) == (x \o y) \o z = x \o (y \o z)

\* They associate,
LEMMA JoinsAssociate == \A x, y, z \in Seq(Byte) : Regroups(x, y, z)
  BY ConcatAssociative DEF Regroups

\* have a unit,
LEMMA JoinsUnit ==
  /\ <<>> \in Seq(Byte) /\ Len(<<>>) = 0
  /\ \A x \in Seq(Byte) : x \o <<>> = x /\ <<>> \o x = x
  BY ConcatEmptySeq, EmptySeq

\* and add one byte as Append does.
LEMMA JoinsOne ==
  \A b \in Byte : /\ <<b>> \in Seq(Byte) /\ Len(<<b>>) = 1
                 /\ \A x \in Seq(Byte) : Append(x, b) = x \o <<b>>
  BY AppendIsConcat

\* The first element.
LEMMA HeadIsFirst ==
  ASSUME NEW S, NEW s \in Seq(S), s # <<>>
  PROVE  Head(s) = s[1]
  OBVIOUS

\* The bytes of a frame up to its checksum.
Frame(m, l, p) == ((<<cfg.bof>> \o m) \o l) \o p

\* A frame is as long as its parts.
LEMMA FrameIs ==
  ASSUME FrameInv, NEW m \in Seq(Byte), NEW l \in Seq(Byte), NEW p \in Seq(Byte)
  PROVE  /\ Frame(m, l, p) \in Seq(Byte)
         /\ Len(Frame(m, l, p)) = 1 + Len(m) + Len(l) + Len(p)
<1>1. <<cfg.bof>> \in Seq(Byte) /\ Len(<<cfg.bof>>) = 1
  BY ContextFacts, JoinsOne
<1>2. <<cfg.bof>> \o m \in Seq(Byte) /\ Len(<<cfg.bof>> \o m) = 1 + Len(m)
  BY <1>1, Joins
<1>3. /\ (<<cfg.bof>> \o m) \o l \in Seq(Byte)
      /\ Len((<<cfg.bof>> \o m) \o l) = 1 + Len(m) + Len(l)
  BY <1>2, Joins
<1>. QED
  BY <1>3, Joins DEF Frame

\* A frame grows by a byte of its mark, of its length or of its payload.
LEMMA FrameGrows ==
  ASSUME FrameInv,
         NEW m \in Seq(Byte), NEW l \in Seq(Byte), NEW p \in Seq(Byte),
         NEW b \in Byte
  PROVE  /\ Frame(m, l, p) \o <<b>> = Frame(m, l, Append(p, b))
         /\ Frame(m, l, <<>>) \o <<b>> = Frame(m, Append(l, b), <<>>)
         /\ Frame(m, <<>>, <<>>) \o <<b>> = Frame(Append(m, b), <<>>, <<>>)
<1>. DEFINE B == <<cfg.bof>>
            D == <<b>>
<1>1. /\ B \in Seq(Byte) /\ D \in Seq(Byte)
      /\ Append(p, b) = p \o D /\ Append(l, b) = l \o D /\ Append(m, b) = m \o D
  BY ContextFacts, JoinsOne
<1>. HIDE DEF B, D
<1>2. B \o m \in Seq(Byte) /\ (B \o m) \o l \in Seq(Byte)
      /\ m \o D \in Seq(Byte) /\ l \o D \in Seq(Byte)
  BY <1>1, Joins
<1>3. (((B \o m) \o l) \o p) \o D = ((B \o m) \o l) \o (p \o D)
  <2>1. Regroups((B \o m) \o l, p, D)
    BY <1>1, <1>2, JoinsAssociate
  <2>. QED
    BY <1>1, <1>2, <2>1 DEF Regroups
<1>4. ((B \o m) \o l) \o D = (B \o m) \o (l \o D)
  <2>1. Regroups(B \o m, l, D)
    BY <1>1, <1>2, JoinsAssociate
  <2>. QED
    BY <1>1, <1>2, <2>1 DEF Regroups
<1>5. (B \o m) \o D = B \o (m \o D)
  <2>1. Regroups(B, m, D)
    BY <1>1, JoinsAssociate
  <2>. QED
    BY <1>1, <2>1 DEF Regroups
<1>6. /\ ((B \o m) \o l) \o <<>> = (B \o m) \o l
      /\ (B \o m) \o <<>> = B \o m
  BY <1>2, JoinsUnit
<1>7. /\ (B \o m) \o (l \o D) \in Seq(Byte)
      /\ B \o (m \o D) \in Seq(Byte)
  BY <1>1, <1>2, Joins
<1>8. /\ ((B \o m) \o (l \o D)) \o <<>> = (B \o m) \o (l \o D)
      /\ (B \o (m \o D)) \o <<>> = B \o (m \o D)
  BY <1>7, JoinsUnit
<1>9. Frame(m, l, p) \o D = Frame(m, l, Append(p, b))
  BY <1>1, <1>3 DEF Frame, B
<1>10. Frame(m, l, <<>>) \o D = Frame(m, Append(l, b), <<>>)
  BY <1>1, <1>4, <1>6, <1>8 DEF Frame, B
<1>11. Frame(m, <<>>, <<>>) \o D = Frame(Append(m, b), <<>>, <<>>)
  BY <1>1, <1>5, <1>6, <1>8 DEF Frame, B
<1>. QED
  BY <1>9, <1>10, <1>11 DEF D

\* The numbers of both modules are the same.
LEMMA SameValue == \A s : Stream!Value(s) = Value(s)
  BY DEF Stream!Value, Value

\* The parts of a frame and what follows it, by their places.
PartsAre(B, m, l, p, c, r, u) ==
  /\ u \in Seq(Byte)
  /\ Len(u) = Len(B) + Len(m) + Len(l) + Len(p) + Len(c) + Len(r)
  /\ SubSeq(u, Len(B) + 1, Len(B) + Len(m)) = m
  /\ SubSeq(u, Len(B) + Len(m) + 1, Len(B) + Len(m) + Len(l)) = l
  /\ SubSeq(u, Len(B) + Len(m) + Len(l) + 1,
               Len(B) + Len(m) + Len(l) + Len(p)) = p
  /\ SubSeq(u, Len(B) + 1, Len(B) + Len(m) + Len(l) + Len(p))
       = (m \o l) \o p
  /\ SubSeq(u, Len(B) + Len(m) + Len(l) + Len(p) + Len(c) + 1, Len(u)) = r
  /\ u = (((B \o m) \o l) \o p) \o (c \o r)
  /\ u = B \o ((m \o l) \o (p \o (c \o r)))

Joined(B, m, l, p, c, r) == ((((B \o m) \o l) \o p) \o c) \o r

\* A sequence joined of parts has them at those places.
LEMMA FrameParts ==
  ASSUME NEW B \in Seq(Byte), NEW m \in Seq(Byte), NEW l \in Seq(Byte),
         NEW p \in Seq(Byte), NEW c \in Seq(Byte), NEW r \in Seq(Byte),
         NEW u, u = Joined(B, m, l, p, c, r)
  PROVE  PartsAre(B, m, l, p, c, r, u)
<1>1. /\ B \o m \in Seq(Byte) /\ Len(B \o m) = Len(B) + Len(m)
      /\ c \o r \in Seq(Byte) /\ m \o l \in Seq(Byte)
      /\ Len(m \o l) = Len(m) + Len(l)
      /\ p \o (c \o r) \in Seq(Byte)
      /\ Len(B) \in Nat /\ Len(m) \in Nat /\ Len(l) \in Nat /\ Len(p) \in Nat
      /\ Len(c) \in Nat /\ Len(r) \in Nat
  BY Joins
<1>2. /\ (B \o m) \o l \in Seq(Byte)
      /\ Len((B \o m) \o l) = Len(B) + Len(m) + Len(l)
      /\ (m \o l) \o p \in Seq(Byte)
      /\ Len((m \o l) \o p) = Len(m) + Len(l) + Len(p)
      /\ l \o (p \o (c \o r)) \in Seq(Byte)
      /\ (m \o l) \o (p \o (c \o r)) \in Seq(Byte)
  BY <1>1, Joins
<1>. DEFINE F == ((B \o m) \o l) \o p
<1>3. F \in Seq(Byte) /\ Len(F) = Len(B) + Len(m) + Len(l) + Len(p)
  BY <1>2, Joins
<1>4. F \o c \in Seq(Byte)
      /\ Len(F \o c) = Len(B) + Len(m) + Len(l) + Len(p) + Len(c)
  <2>. HIDE DEF F
  <2>. QED
    BY <1>3, Joins
<1>5. u \in Seq(Byte)
      /\ Len(u) = Len(B) + Len(m) + Len(l) + Len(p) + Len(c) + Len(r)
      /\ u = (F \o c) \o r
  <2>1. u = (F \o c) \o r
    BY DEF Joined
  <2>. DEFINE G == F \o c
  <2>. HIDE DEF F, G
  <2>2. G \in Seq(Byte)
        /\ Len(G) = Len(B) + Len(m) + Len(l) + Len(p) + Len(c)
    BY <1>4 DEF G
  <2>3. u = G \o r
    BY <2>1 DEF G
  <2>. QED
    BY <2>1, <2>2, <2>3, Joins
<1>6. u = F \o (c \o r)
  <2>. HIDE DEF F
  <2>. QED
    <3>1. Regroups(F, c, r)
      BY <1>1, <1>3, <1>5, JoinsAssociate
    <3>. QED
      BY <1>1, <1>3, <1>5, <3>1 DEF Regroups
<1>7. u = ((B \o m) \o l) \o (p \o (c \o r))
  <2>1. (((B \o m) \o l) \o p) \o (c \o r) = ((B \o m) \o l) \o (p \o (c \o r))
    <3>. DEFINE x == (B \o m) \o l
                z == c \o r
    <3>1. x \in Seq(Byte) /\ z \in Seq(Byte)
      BY <1>1, <1>2
    <3>. HIDE DEF x, z
    <3>2. (x \o p) \o z = x \o (p \o z)
      <4>1. Regroups(x, p, z)
        BY <3>1, JoinsAssociate
      <4>. QED
        BY <3>1, <4>1 DEF Regroups
    <3>. QED
      BY <3>2 DEF x, z
  <2>. QED
    BY <1>6, <2>1
<1>8. u = (B \o m) \o (l \o (p \o (c \o r)))
  <2>. DEFINE x == B \o m
              z == p \o (c \o r)
  <2>1. x \in Seq(Byte) /\ z \in Seq(Byte) /\ u = (x \o l) \o z
    BY <1>1, <1>7
  <2>. HIDE DEF x, z
  <2>2. u = x \o (l \o z)
    <3>1. Regroups(x, l, z)
      BY <2>1, JoinsAssociate
    <3>. QED
      BY <2>1, <3>1 DEF Regroups
  <2>. QED
    BY <2>2 DEF x, z
<1>9. (B \o m) \o l = B \o (m \o l)
  <2>1. Regroups(B, m, l)
    BY JoinsAssociate
  <2>. QED
    BY <2>1 DEF Regroups
<1>10. u = B \o ((m \o l) \o (p \o (c \o r)))
  <2>. DEFINE x == m \o l
              z == p \o (c \o r)
  <2>1. x \in Seq(Byte) /\ z \in Seq(Byte) /\ u = (B \o x) \o z
    BY <1>1, <1>7, <1>9
  <2>. HIDE DEF x, z
  <2>2. u = B \o (x \o z)
    <3>1. Regroups(B, x, z)
      BY <2>1, JoinsAssociate
    <3>. QED
      BY <2>1, <3>1 DEF Regroups
  <2>. QED
    BY <2>2 DEF x, z
<1>11. F = B \o ((m \o l) \o p)
  <2>. DEFINE x == m \o l
  <2>1. x \in Seq(Byte) /\ F = (B \o x) \o p
    BY <1>1, <1>9
  <2>. HIDE DEF x, F
  <2>2. F = B \o (x \o p)
    <3>1. Regroups(B, x, p)
      BY <2>1, JoinsAssociate
    <3>. QED
      BY <2>1, <3>1 DEF Regroups
  <2>. QED
    BY <2>2 DEF x
<1>12. SubSeq(u, Len(B) + 1, Len(B) + Len(m)) = m
  <2>1. SubSeq((B \o m) \o (l \o (p \o (c \o r))),
               Len(B) + 1, Len(B) + Len(m)) = m
    BY <1>2, Parts
  <2>. QED
    BY <1>8, <2>1
<1>13. SubSeq(u, Len(B) + Len(m) + 1, Len(B) + Len(m) + Len(l)) = l
  <2>. DEFINE x == B \o m
  <2>. HIDE DEF x
  <2>1. x \in Seq(Byte) /\ Len(x) = Len(B) + Len(m)
        /\ u = (x \o l) \o (p \o (c \o r))
    BY <1>1, <1>7 DEF x
  <2>2. SubSeq((x \o l) \o (p \o (c \o r)), Len(x) + 1, Len(x) + Len(l)) = l
    BY <1>1, <2>1, Parts
  <2>. QED
    BY <2>1, <2>2
<1>14. SubSeq(u, Len(B) + Len(m) + Len(l) + 1,
                Len(B) + Len(m) + Len(l) + Len(p)) = p
  <2>. DEFINE x == (B \o m) \o l
  <2>. HIDE DEF x
  <2>1. x \in Seq(Byte) /\ Len(x) = Len(B) + Len(m) + Len(l)
        /\ u = (x \o p) \o (c \o r)
    BY <1>2, <1>6 DEF x
  <2>2. SubSeq((x \o p) \o (c \o r), Len(x) + 1, Len(x) + Len(p)) = p
    BY <1>1, <2>1, Parts
  <2>. QED
    BY <2>1, <2>2
<1>15. SubSeq(u, Len(B) + 1, Len(B) + Len(m) + Len(l) + Len(p)) = (m \o l) \o p
  <2>. DEFINE q == (m \o l) \o p
  <2>. HIDE DEF q, F
  <2>1. q \in Seq(Byte) /\ Len(q) = Len(m) + Len(l) + Len(p)
        /\ u = (B \o q) \o (c \o r)
    BY <1>2, <1>6, <1>11 DEF q
  <2>2. SubSeq((B \o q) \o (c \o r), Len(B) + 1, Len(B) + Len(q)) = q
    BY <1>1, <2>1, Parts
  <2>3. Len(B) + Len(q) = Len(B) + Len(m) + Len(l) + Len(p)
    BY <1>1, <2>1
  <2>4. SubSeq(u, Len(B) + 1, Len(B) + Len(m) + Len(l) + Len(p)) = q
    BY <2>1, <2>2, <2>3
  <2>. QED
    BY <2>4 DEF q
<1>16. SubSeq(u, Len(B) + Len(m) + Len(l) + Len(p) + Len(c) + 1, Len(u)) = r
  <2>. DEFINE x == F \o c
  <2>. HIDE DEF x
  <2>1. x \in Seq(Byte) /\ u = x \o r
        /\ Len(x) = Len(B) + Len(m) + Len(l) + Len(p) + Len(c)
    BY <1>4, <1>5 DEF x
  <2>2. SubSeq(x \o r, Len(x) + 1, Len(x) + Len(r)) = r
    BY <2>1, Parts
  <2>. QED
    BY <1>5, <2>1, <2>2
<1>. QED
  BY <1>5, <1>6, <1>10, <1>12, <1>13, <1>14, <1>15, <1>16 DEF PartsAre

\* What WjpStream reads in the bytes of a whole frame and those that follow.
ReadsAs(m, l, p, c, r, u) ==
  /\ u \in Seq(Byte) /\ u # <<>> /\ Head(u) = cfg.bof
  /\ Stream!Mark(u) = m /\ Stream!Payload(u) = p
  /\ Stream!Complete(u)
  /\ Stream!Checks(u) <=> cfg.crcsz = 0 \/ c[1] = Crc((m \o l) \o p)
  /\ SubSeq(u, Stream!FrameSize(u) + 1, Len(u)) = r

Whole(m, l, p, c, r) == (Frame(m, l, p) \o c) \o r

\* A whole frame reads so.
LEMMA WholeFrame ==
  ASSUME FrameInv,
         NEW m \in Seq(Byte), NEW l \in Seq(Byte), NEW p \in Seq(Byte),
         NEW c \in Seq(Byte), NEW r \in Seq(Byte), NEW u,
         Len(m) = cfg.mrksz, Len(l) = cfg.lensz, Len(p) = Length(l),
         Len(c) = cfg.crcsz, Length(l) <= cfg.rxlen,
         u = Whole(m, l, p, c, r)
  PROVE  ReadsAs(m, l, p, c, r, u)
<1>. DEFINE B == <<cfg.bof>>
            h == 1 + Len(m) + Len(l)
            n == Len(p)
            k == Len(c)
<1>1. B \in Seq(Byte) /\ Len(B) = 1 /\ B[1] = cfg.bof
  BY ContextFacts, JoinsOne
<1>2. u = Joined(B, m, l, p, c, r)
  BY DEF Frame, Joined, Whole
<1>. HIDE DEF B
<1>3. /\ u \in Seq(Byte)
      /\ Len(u) = Len(B) + Len(m) + Len(l) + Len(p) + Len(c) + Len(r)
      /\ SubSeq(u, Len(B) + 1, Len(B) + Len(m)) = m
      /\ SubSeq(u, Len(B) + Len(m) + 1, Len(B) + Len(m) + Len(l)) = l
      /\ SubSeq(u, Len(B) + Len(m) + Len(l) + 1,
                   Len(B) + Len(m) + Len(l) + Len(p)) = p
      /\ SubSeq(u, Len(B) + 1, Len(B) + Len(m) + Len(l) + Len(p))
           = (m \o l) \o p
      /\ SubSeq(u, Len(B) + Len(m) + Len(l) + Len(p) + Len(c) + 1, Len(u)) = r
      /\ u = (((B \o m) \o l) \o p) \o (c \o r)
      /\ u = B \o ((m \o l) \o (p \o (c \o r)))
  <2>1. PartsAre(B, m, l, p, c, r, u)
    BY <1>1, <1>2, FrameParts
  <2>. HIDE DEF h, n, k
  <2>. QED
    BY <2>1 DEF PartsAre
<1>4. /\ Len(m) \in Nat /\ Len(l) \in Nat /\ n \in Nat /\ k \in Nat
      /\ Len(r) \in Nat /\ h \in Nat /\ h >= 1
  BY Joins
<1>5. 1 + 1 = 2 /\ 1 + Len(m) + 1 = 2 + Len(m)
  BY <1>4
<1>6. /\ SubSeq(u, 2, 1 + Len(m)) = m
      /\ SubSeq(u, 2 + Len(m), h) = l
      /\ SubSeq(u, h + 1, h + n) = p
      /\ SubSeq(u, 2, h + n) = (m \o l) \o p
      /\ SubSeq(u, h + n + k + 1, Len(u)) = r
      /\ Len(u) = h + n + k + Len(r)
  BY <1>1, <1>3, <1>5
<1>7. u # <<>> /\ Head(u) = cfg.bof
  <2>. DEFINE z == (m \o l) \o (p \o (c \o r))
  <2>1. z \in Seq(Byte) /\ u = B \o z
    <3>1. m \o l \in Seq(Byte) /\ p \o (c \o r) \in Seq(Byte)
      BY Joins
    <3>. QED
      BY <1>3, <3>1, Joins
  <2>. HIDE DEF z
  <2>2. Len(z) \in Nat
    BY <2>1, Joins
  <2>3. 1 \in 1 .. Len(B) + Len(z) /\ 1 <= Len(B)
    BY <1>1, <2>2
  <2>4. u[1] = B[1]
    <3>1. (B \o z)[1] = IF 1 <= Len(B) THEN B[1] ELSE z[1 - Len(B)]
      BY <1>1, <2>1, <2>3, ConcatProperties
    <3>. QED
      BY <2>1, <2>3, <3>1
  <2>5. u # <<>>
    BY <1>4, <1>6, EmptySeq
  <2>6. Head(u) = u[1]
    BY <1>3, <2>5, HeadIsFirst
  <2>. QED
    BY <1>1, <2>4, <2>5, <2>6
<1>8. k = 1 => u[h + n + 1] = c[1]
  <2>1. SUFFICES ASSUME k = 1 PROVE u[h + n + 1] = c[1]
    OBVIOUS
  <2>. DEFINE F == ((B \o m) \o l) \o p
              z == c \o r
  <2>2. F \in Seq(Byte) /\ Len(F) = h + n /\ z \in Seq(Byte)
    <3>1. F = Frame(m, l, p)
      BY DEF Frame, B
    <3>2. Frame(m, l, p) \in Seq(Byte) /\ Len(Frame(m, l, p)) = h + n
      BY FrameIs
    <3>3. z \in Seq(Byte)
      BY Joins
    <3>. QED
      BY <3>1, <3>2, <3>3
  <2>3. u = F \o z
    BY <1>3
  <2>. HIDE DEF F, h
  <2>4. Len(z) = 1 + Len(r) /\ 1 \in 1 .. 1 + Len(r)
        /\ 1 \in 1 .. Len(c) + Len(r) /\ 1 <= Len(c)
    <3>1. Len(z) = Len(c) + Len(r)
      BY Joins
    <3>2. Len(c) = 1
      BY <2>1
    <3>. QED
      BY <1>4, <3>1, <3>2
  <2>5. z[1] = c[1]
    BY <2>4, ConcatProperties
  <2>. HIDE DEF z, n
  <2>6. h + n + 1 \in 1 .. Len(F) + Len(z) /\ ~ (h + n + 1 <= Len(F))
        /\ h + n + 1 - Len(F) = 1
    BY <1>4, <2>2, <2>4
  <2>7. u[h + n + 1] = z[1]
    BY <2>2, <2>3, <2>6, ConcatProperties
  <2>. QED
    BY <2>5, <2>7
<1>9. Stream!HeaderSize = h /\ Stream!Mark(u) = m
  BY <1>6 DEF Stream!HeaderSize, Stream!Mark
<1>10. Stream!Length(u) = n
  BY <1>6, <1>9, SameValue DEF Stream!Length, Length
<1>11. k = cfg.crcsz /\ n <= cfg.rxlen
  OBVIOUS
<1>. HIDE DEF h, n, k
<1>12. Stream!Payload(u) = p
  BY <1>6, <1>9, <1>10 DEF Stream!Payload
<1>13. Stream!FrameSize(u) = h + n + k
  BY <1>9, <1>10, <1>11 DEF Stream!FrameSize
<1>14. Stream!Complete(u)
  <2>1. cfg.rxlen \in Nat
    BY ContextFacts
  <2>2. Len(u) >= h /\ Len(u) >= h + n + k /\ ~ (n > cfg.rxlen)
    <3>1. Len(u) = h + n + k + Len(r) /\ n \in Nat /\ k \in Nat /\ h \in Nat
          /\ Len(r) \in Nat
      BY <1>4, <1>6 DEF h, n, k
    <3>. QED
      BY <1>11, <2>1, <3>1
  <2>. QED
    BY <1>9, <1>10, <1>13, <2>2 DEF Stream!Complete, Stream!TooLong
<1>15. Stream!Checks(u) <=> cfg.crcsz = 0 \/ c[1] = Crc((m \o l) \o p)
  <2>1. cfg.crcsz = 0 \/ cfg.crcsz = 1
    BY ContextFacts
  <2>. QED
    BY <1>6, <1>8, <1>9, <1>10, <1>11, <1>13, <2>1 DEF Stream!Checks
<1>. QED
  BY <1>3, <1>6, <1>7, <1>9, <1>12, <1>13, <1>14, <1>15 DEF ReadsAs, k

-----------------------------------------------------------------------------
(* The receiver is one of WjpStream. *)

\* No frame is empty where frames carry a checksum (WJPv5.h:144).
NoEmptyFrame ==
  cfg.crcsz = 1 /\ cfg.lensz > 0 =>
    \A l \in [1 .. cfg.lensz -> Noise(cfg)] : Value(l) # 0

Bytes(s) == [i \in 1 .. Len(s) |-> Read(s[i])]
Payload(n) == [i \in 1 .. n |-> rxbuf[i - 1]]
Unread == Held \o Bytes(todo)

\* Items are received bytes if those of rxbuf are.
Received(s) ==
  /\ s \in Seq(Items)
  /\ \A i \in 1 .. Len(s) : s[i][1] = "rxbuf" => rxbuf[s[i][2]] \in Noise(cfg)

\* They read as bytes, one each.
LEMMA BytesAre ==
  ASSUME FrameInv, NEW s, Received(s)
  PROVE  /\ Bytes(s) \in Seq(Byte) /\ Len(Bytes(s)) = Len(s)
         /\ \A i \in 1 .. Len(s) : Bytes(s)[i] = Read(s[i])
<1>1. Len(s) \in Nat
  BY LenProperties DEF Received
<1>2. ASSUME NEW i \in 1 .. Len(s) PROVE Read(s[i]) \in Byte
  <2>1. s[i] \in Items
    BY ElementOfSeq DEF Received
  <2>2. Noise(cfg) \subseteq Byte
    BY ContextFacts
  <2>3. CASE s[i][1] = "byte"
    BY <2>1, <2>2, <2>3 DEF Read, Items
  <2>4. CASE s[i][1] = "rxbuf"
    BY <2>2, <2>4 DEF Read, Received
  <2>. QED
    BY <2>1, <2>3, <2>4 DEF Items
<1>. QED
  BY <1>1, <1>2 DEF Bytes

\* The first places of rxbuf are bytes.
LEMMA PayloadIs ==
  ASSUME FrameInv, BufferInv, NEW n \in 0 .. cfg.rxlen
  PROVE  Payload(n) \in Seq(Byte) /\ Len(Payload(n)) = n
<1>1. /\ n \in Nat /\ cfg.rxlen \in Nat /\ cfg.limit \in Nat
      /\ cfg.rxlen <= cfg.limit
  BY ContextFacts
<1>2. \A i \in 1 .. n : rxbuf[i - 1] \in Byte
  <2>1. SUFFICES ASSUME NEW i \in 1 .. n PROVE rxbuf[i - 1] \in Byte
    OBVIOUS
  <2>2. i - 1 \in 0 .. cfg.limit - 1
    BY <1>1
  <2>. QED
    BY <2>2 DEF BufferInv
<1>. QED
  BY <1>1, <1>2 DEF Payload

\* The bytes held, as parts of a frame.
LEMMA HeldIs ==
  ASSUME IInv
  PROVE  /\ mrk \in Seq(Byte) /\ len \in Seq(Byte)
         /\ Payload(cnt) \in Seq(Byte) /\ Len(Payload(cnt)) = cnt
         /\ Held \in Seq(Byte)
         /\ phs = "BOF" => Held = <<>>
         /\ phs # "BOF" => Held = Frame(mrk, len, Payload(cnt))
<1>1. mrk \in Seq(Byte) /\ len \in Seq(Byte)
  BY ContextFacts, SeqMonotonic DEF IInv, FrameInv
<1>2. Payload(cnt) \in Seq(Byte) /\ Len(Payload(cnt)) = cnt
  BY PayloadIs DEF IInv, FrameInv
<1>3. phs = "BOF" => Held = <<>>
  BY DEF Held
<1>4. phs # "BOF" => Held = Frame(mrk, len, Payload(cnt))
  BY DEF Held, Frame, Payload
<1>5. Frame(mrk, len, Payload(cnt)) \in Seq(Byte) /\ <<>> \in Seq(Byte)
  BY <1>1, <1>2, FrameIs, JoinsUnit DEF IInv
<1>6. Held \in Seq(Byte)
  BY <1>3, <1>4, <1>5
<1>. QED
  BY <1>1, <1>2, <1>3, <1>4, <1>6

\* The next byte, and the rest of the agenda.
LEMMA UnreadSplits ==
  ASSUME IInv, todo # <<>>
  PROVE  /\ Received(todo) /\ Received(Tail(todo))
         /\ NextByte \in Byte
         /\ Bytes(Tail(todo)) \in Seq(Byte)
         /\ Bytes(todo) = <<NextByte>> \o Bytes(Tail(todo))
         /\ Unread = (Held \o <<NextByte>>) \o Bytes(Tail(todo))
<1>. DEFINE T == Tail(todo)
            b == NextByte
<1>1. Received(todo)
  BY DEF Received, IInv, AgendaInv
<1>2. /\ T \in Seq(Items) /\ Len(T) = Len(todo) - 1 /\ Len(todo) \in Nat
      /\ \A i \in 1 .. Len(T) : T[i] = todo[i + 1]
  BY <1>1, HeadTailProperties, LenProperties DEF Received
<1>. HIDE DEF T
<1>3. Received(T)
  <2>1. ASSUME NEW i \in 1 .. Len(T), T[i][1] = "rxbuf"
        PROVE  rxbuf[T[i][2]] \in Noise(cfg)
    <3>1. i + 1 \in 1 .. Len(todo)
      BY <1>2
    <3>. QED
      BY <1>1, <1>2, <2>1, <3>1 DEF Received
  <2>. QED
    BY <1>2, <2>1 DEF Received
<1>4. /\ Bytes(todo) \in Seq(Byte) /\ Len(Bytes(todo)) = Len(todo)
      /\ \A i \in 1 .. Len(todo) : Bytes(todo)[i] = Read(todo[i])
      /\ Bytes(T) \in Seq(Byte) /\ Len(Bytes(T)) = Len(T)
      /\ \A i \in 1 .. Len(T) : Bytes(T)[i] = Read(T[i])
  BY <1>1, <1>3, BytesAre DEF IInv
<1>5. b \in Byte /\ b = Read(todo[1])
  <2>1. b \in Noise(cfg) /\ Noise(cfg) \subseteq Byte
    BY NextByteIsNoise, ContextFacts DEF IInv
  <2>2. Head(todo) = todo[1]
    BY <1>1, HeadIsFirst DEF Received
  <2>. QED
    BY <2>1, <2>2 DEF NextByte
<1>. HIDE DEF b
<1>6. Bytes(todo) = <<b>> \o Bytes(T)
  <2>. DEFINE x == Bytes(todo)
              y == Bytes(T)
              D == <<b>>
  <2>1. D \in Seq(Byte) /\ Len(D) = 1 /\ D[1] = b
    BY <1>5
  <2>. HIDE DEF D, x, y
  <2>2. /\ D \o y \in Seq(Byte) /\ Len(D \o y) = 1 + Len(y)
        /\ \A i \in 1 .. 1 + Len(y) :
             (D \o y)[i] = IF i <= 1 THEN D[i] ELSE y[i - 1]
    <3>1. y \in Seq(Byte)
      BY <1>4 DEF y
    <3>2. /\ D \o y \in Seq(Byte) /\ Len(D \o y) = Len(D) + Len(y)
          /\ \A i \in 1 .. Len(D) + Len(y) :
               (D \o y)[i] = IF i <= Len(D) THEN D[i] ELSE y[i - Len(D)]
      BY <2>1, <3>1, ConcatProperties
    <3>. QED
      BY <2>1, <3>2
  <2>3. x \in Seq(Byte) /\ Len(x) = 1 + Len(y) /\ Len(y) = Len(T)
    BY <1>2, <1>4 DEF x, y
  <2>4. ASSUME NEW i \in 1 .. Len(x) PROVE x[i] = (D \o y)[i]
    <3>1. CASE i = 1
      <4>1. 1 \in 1 .. Len(todo) /\ 1 \in 1 .. 1 + Len(y)
        BY <1>2, <2>3, <3>1
      <4>2. x[1] = b
        BY <1>4, <1>5, <4>1 DEF x
      <4>3. (D \o y)[1] = D[1]
        BY <2>2, <4>1
      <4>. QED
        BY <2>1, <3>1, <4>2, <4>3
    <3>2. CASE i # 1
      <4>1. i - 1 \in 1 .. Len(T) /\ i \in 1 .. 1 + Len(y) /\ ~ (i <= 1)
            /\ i \in 1 .. Len(todo) /\ (i - 1) + 1 = i
        BY <1>2, <2>3, <3>2
      <4>2. (D \o y)[i] = y[i - 1]
        BY <2>2, <4>1
      <4>3. y[i - 1] = Read(T[i - 1]) /\ T[i - 1] = todo[i]
        BY <1>2, <1>4, <4>1 DEF y
      <4>4. x[i] = Read(todo[i])
        BY <1>4, <4>1 DEF x
      <4>. QED
        BY <4>2, <4>3, <4>4
    <3>. QED
      BY <3>1, <3>2
  <2>5. x = D \o y
    BY <2>2, <2>3, <2>4, SeqEqual
  <2>. QED
    BY <2>5 DEF D, x, y
<1>7. Unread = (Held \o <<b>>) \o Bytes(T)
  <2>1. Held \in Seq(Byte) /\ <<b>> \in Seq(Byte)
    BY <1>5, HeldIs
  <2>2. Regroups(Held, <<b>>, Bytes(T))
    BY <1>4, <2>1, JoinsAssociate
  <2>. QED
    BY <1>6, <2>2 DEF Unread, Regroups
<1>. QED
  BY <1>1, <1>3, <1>4, <1>5, <1>6, <1>7 DEF T, b

\* The rest of the agenda reads the same after a step that consumes a byte.
LEMMA RestReads ==
  ASSUME IInv, Next, Consume
  PROVE  Bytes(todo)' = Bytes(Tail(todo))
<1>1. todo' = Tail(todo) /\ todo # <<>>
  BY DEF Consume
<1>2. ASSUME NEW i \in 1 .. Len(todo')
      PROVE  Read(todo[i])' = Read(Tail(todo)[i])
  <2>1. todo'[i] \in Items
    BY <1>1, UnreadSplits, ElementOfSeq DEF Received
  <2>2. CASE todo'[i][1] = "byte"
    BY <1>1, <2>2 DEF Read
  <2>3. CASE todo'[i][1] # "byte"
    <3>1. todo'[i][1] = "rxbuf"
      BY <2>1, <2>3 DEF Items
    <3>2. rxbuf'[todo'[i][2]] = rxbuf[todo'[i][2]]
      BY <3>1, WritesBehind
    <3>. QED
      BY <1>1, <2>3, <3>2 DEF Read
  <2>. QED
    BY <2>2, <2>3
<1>. QED
  BY <1>1, <1>2 DEF Bytes

\* A step that takes a byte into the frame leaves the bytes unread as they are.
LEMMA StepStutters ==
  ASSUME IInv, Next, Consume, UNCHANGED <<cfg, delivered>>,
         Held' = Held \o <<NextByte>>
  PROVE  [Stream!Next]_(Stream!vars)
<1>1. Unread' = (Held \o <<NextByte>>) \o Bytes(Tail(todo))
  BY RestReads DEF Unread
<1>2. Unread' = Unread
  BY <1>1, UnreadSplits DEF Consume
<1>. QED
  BY <1>2 DEF Stream!vars, Unread, Bytes

\* Out of a frame, only the agenda is unread.
LEMMA UnreadOutside ==
  ASSUME IInv, Next, Consume, phs' = "BOF"
  PROVE  Unread' = Bytes(Tail(todo))
<1>1. Held' = <<>>
  BY DEF Held
<1>2. Bytes(todo)' = Bytes(Tail(todo)) /\ Bytes(Tail(todo)) \in Seq(Byte)
  BY RestReads, UnreadSplits DEF Consume
<1>. DEFINE r == Bytes(Tail(todo))
<1>. HIDE DEF r
<1>3. r \in Seq(Byte) /\ Unread' = <<>> \o r
  BY <1>1, <1>2 DEF Unread, r
<1>4. Unread' = r
  BY <1>3, JoinsUnit
<1>. QED
  BY <1>4 DEF r

\* A whole frame that checks is delivered.
LEMMA WholeIsDelivered ==
  ASSUME FrameInv,
         NEW m \in Seq(Byte), NEW l \in Seq(Byte), NEW p \in Seq(Byte),
         NEW c \in Seq(Byte), NEW r \in Seq(Byte),
         Len(m) = cfg.mrksz, Len(l) = cfg.lensz, Len(p) = Length(l),
         Len(c) = cfg.crcsz, Length(l) <= cfg.rxlen,
         cfg.crcsz = 0 \/ c[1] = Crc((m \o l) \o p),
         Unread = Whole(m, l, p, c, r), Unread' = r, cfg' = cfg,
         delivered' = [mrk |-> m, payload |-> p, odd |-> ~ delivered.odd]
  PROVE  Stream!Deliver
<1>. DEFINE u == Unread
<1>1. /\ u # <<>> /\ Head(u) = cfg.bof
      /\ Stream!Mark(u) = m /\ Stream!Payload(u) = p
      /\ Stream!Complete(u) /\ Stream!Checks(u)
      /\ SubSeq(u, Stream!FrameSize(u) + 1, Len(u)) = r
  <2>. HIDE DEF u
  <2>1. ReadsAs(m, l, p, c, r, u)
    BY WholeFrame DEF u
  <2>. QED
    BY <2>1 DEF ReadsAs
<1>2. /\ delivered' = [mrk |-> Stream!Mark(u), payload |-> Stream!Payload(u),
                       odd |-> ~ delivered.odd]
      /\ Unread' = SubSeq(u, Stream!FrameSize(u) + 1, Len(u))
  BY <1>1
<1>. QED
  BY <1>1, <1>2 DEF Stream!Deliver, Unread, Bytes

\* The bytes before the rest are let go, if no frame starts with the first and
\* none of the others is a BOF.
LEMMA FrontIsDiscarded ==
  ASSUME NEW a \in Seq(Byte), NEW r \in Seq(Byte), a # <<>>,
         Unread = a \o r, Unread' = r, Stream!NoFrame(Unread),
         \A i \in 2 .. Len(a) : a[i] # cfg.bof,
         UNCHANGED <<cfg, delivered>>
  PROVE  Stream!Discard
<1>. DEFINE u == Unread
            n == Len(a)
<1>1. n \in Nat /\ n # 0 /\ Len(r) \in Nat
  BY EmptySeq, LenProperties
<1>2. u = a \o r /\ Len(u) = n + Len(r)
  BY Joins
<1>3. SubSeq(u, n + 1, Len(u)) = r
  <2>1. SubSeq(a \o r, Len(a) + 1, Len(a) + Len(r)) = r
    BY Parts
  <2>. QED
    BY <1>2, <2>1
<1>4. \A i \in 2 .. n : u[i] # cfg.bof
  <2>1. SUFFICES ASSUME NEW i \in 2 .. n PROVE u[i] # cfg.bof
    OBVIOUS
  <2>2. i \in 1 .. Len(a) + Len(r) /\ i <= Len(a)
    BY <1>1
  <2>3. (a \o r)[i] = a[i]
    BY <2>2, ConcatProperties
  <2>. QED
    BY <1>2, <2>3
<1>5. n \in 1 .. Len(u) /\ u # <<>>
  BY <1>1, <1>2, EmptySeq
<1>. HIDE DEF u, n
<1>6. \E k \in 1 .. Len(u) : /\ \A i \in 2 .. k : u[i] # cfg.bof
                             /\ Unread' = SubSeq(u, k + 1, Len(u))
  BY <1>3, <1>4, <1>5
<1>. QED
  BY <1>5, <1>6 DEF Stream!Discard, Unread, Bytes, u

\* The bytes on the agenda.
LEMMA AgendaBytes ==
  IInv => Bytes(todo) \in Seq(Byte) /\ Len(Bytes(todo)) = Len(todo)
<1>. SUFFICES ASSUME IInv
              PROVE  Bytes(todo) \in Seq(Byte) /\ Len(Bytes(todo)) = Len(todo)
  OBVIOUS
<1>1. FrameInv /\ Received(todo)
  BY DEF Received, IInv, AgendaInv
<1>. QED
  BY <1>1, BytesAre

\* A push is bytes received, or none.
LEMMA PushReceives ==
  ASSUME IInv, Push
  PROVE  [Stream!Next]_(Stream!vars)
<1>1. PICK s \in Chunks : todo' = Given(s)
  BY DEF Push
<1>2. /\ todo = <<>>
      /\ UNCHANGED <<cfg, phs, mrk, len, crc, cnt, rxbuf, delivered>>
  BY DEF Push
<1>3. s \in Seq(Noise(cfg)) /\ s \in Seq(Byte)
  BY ContextFacts, SeqMonotonic DEF IInv, Receivable, ArrivesAsNoise
<1>4. /\ Given(s) \in Seq({"byte"} \X Byte) /\ Len(Given(s)) = Len(s)
  BY <1>3, GivenIs
<1>5. Held' = Held /\ Held \in Seq(Byte)
  BY <1>2, HeldIs DEF Held
<1>6. CASE Len(s) = 0
  <2>1. todo' = <<>>
    BY <1>1, <1>4, <1>6, EmptySeq
  <2>. QED
    BY <1>2, <2>1 DEF Stream!vars, Held, Read
<1>7. CASE Len(s) # 0
  <2>. DEFINE x == Bytes(todo)'
              h == Held
  <2>1. x \in Seq(Byte) /\ Len(x) = Len(s)
    <3>1. (IInv => Bytes(todo) \in Seq(Byte) /\ Len(Bytes(todo)) = Len(todo))'
      BY AgendaBytes, PTL
    <3>. QED
      BY <1>1, <1>4, <3>1, PushKeeps
  <2>2. Bytes(todo) = <<>>
    <3>1. Bytes(todo) \in Seq(Byte) /\ Len(Bytes(todo)) = 0
      BY <1>2, AgendaBytes, EmptySeq
    <3>. QED
      BY <3>1, EmptySeq
  <2>3. Unread = h /\ Unread' = h \o x
    BY <1>5, <2>2, JoinsUnit DEF Unread
  <2>4. h \in Seq(Byte)
    BY <1>5
  <2>. HIDE DEF x, h
  <2>5. h \o x \in Seq(Byte) /\ Len(h \o x) = Len(h) + Len(x)
        /\ Len(h) \in Nat /\ Len(x) \in Nat
    BY <2>1, <2>4, Joins
  <2>6. SubSeq(h \o x, 1, Len(h)) = h /\ SubSeq(h, 1, Len(h)) = h
    <3>1. <<>> \in Seq(Byte) /\ Len(<<>>) = 0 /\ <<>> \o h = h
      BY <2>4, JoinsUnit
    <3>2. SubSeq((<<>> \o h) \o x, Len(<<>>) + 1, Len(<<>>) + Len(h)) = h
      BY <2>1, <2>4, <3>1, Parts
    <3>3. Len(<<>>) + 1 = 1 /\ Len(<<>>) + Len(h) = Len(h)
      BY <2>5, <3>1
    <3>4. SubSeq(h \o x, 1, Len(h)) = h
      BY <3>1, <3>2, <3>3
    <3>. QED
      BY <2>4, <3>4, SubSeqFull
  <2>7. Len(h) <= Len(h \o x) /\ h # h \o x
    BY <1>7, <2>1, <2>5
  <2>8. Stream!IsStrictPrefix(h, h \o x)
    BY <2>6, <2>7 DEF Stream!IsStrictPrefix, Stream!IsPrefix
  <2>9. Unread' \in Seq(0 .. 255) /\ Stream!IsStrictPrefix(Unread, Unread')
    BY <2>3, <2>5, <2>8 DEF Byte
  <2>10. Stream!Receive
    BY <1>2, <2>9 DEF Stream!Receive, Unread, Bytes
  <2>. QED
    BY <2>10 DEF Stream!Next
<1>. QED
  BY <1>6, <1>7

\* A byte that is not a BOF is let go.
LEMMA BofSkipDiscards ==
  ASSUME IInv, BofSkip
  PROVE  [Stream!Next]_(Stream!vars)
<1>. DEFINE b == NextByte
            r == Bytes(Tail(todo))
            D == <<b>>
<1>1. /\ phs = "BOF" /\ phs' = "BOF" /\ Consume /\ todo # <<>>
      /\ UNCHANGED <<cfg, delivered>> /\ b # cfg.bof
  BY DEF BofSkip, Consume
<1>2. Next
  BY DEF Next, Step
<1>3. r \in Seq(Byte) /\ b \in Byte /\ Unread = (Held \o D) \o r
  BY <1>1, UnreadSplits
<1>4. Held = <<>> /\ Unread' = r
  BY <1>1, <1>2, HeldIs, UnreadOutside
<1>5. D \in Seq(Byte) /\ Len(D) = 1 /\ D # <<>> /\ D[1] = b
  BY <1>3
<1>. HIDE DEF b, r, D
<1>6. Unread = D \o r
  BY <1>3, <1>4, <1>5, JoinsUnit
<1>7. Stream!NoFrame(Unread)
  <2>1. 1 \in 1 .. Len(D) + Len(r) /\ 1 <= Len(D)
    BY <1>3, <1>5, LenProperties
  <2>2. (D \o r)[1] = b
    BY <1>3, <1>5, <2>1, ConcatProperties
  <2>3. D \o r \in Seq(Byte) /\ D \o r # <<>>
    <3>1. D \o r \in Seq(Byte) /\ Len(D \o r) # 0
      BY <1>3, <1>5, Joins
    <3>. QED
      BY <3>1, EmptySeq
  <2>4. Head(Unread) = b
    BY <1>6, <2>2, <2>3, HeadIsFirst
  <2>. QED
    BY <1>1, <2>4 DEF Stream!NoFrame
<1>8. \A i \in 2 .. Len(D) : D[i] # cfg.bof
  BY <1>5
<1>9. Stream!Discard
  BY <1>1, <1>3, <1>4, <1>5, <1>6, <1>7, <1>8, FrontIsDiscarded
<1>. QED
  BY <1>9 DEF Stream!Next

\* A BOF is held and still unread;
LEMMA BofFoundStutters ==
  ASSUME IInv, BofFound
  PROVE  [Stream!Next]_(Stream!vars)
<1>1. /\ phs = "BOF" /\ Consume /\ todo # <<>>
      /\ UNCHANGED <<cfg, delivered>> /\ NextByte = cfg.bof
      /\ mrk' = <<>> /\ len' = <<>> /\ cnt' = 0 /\ phs' # "BOF"
  BY DEF BofFound, Consume, ToLen
<1>2. Next
  BY DEF Next, Step
<1>. DEFINE D == <<cfg.bof>>
<1>3. D \in Seq(Byte)
  BY ContextFacts, JoinsOne DEF IInv
<1>4. Held' = ((D \o <<>>) \o <<>>) \o <<>>
  <2>1. [i \in 1 .. 0 |-> rxbuf'[i - 1]] = <<>>
    OBVIOUS
  <2>. QED
    BY <1>1, <2>1 DEF Held
<1>5. Held = <<>>
  BY <1>1, HeldIs
<1>6. Held \o <<NextByte>> = <<>> \o D
  BY <1>1, <1>5
<1>. HIDE DEF D
<1>7. ((D \o <<>>) \o <<>>) \o <<>> = D /\ <<>> \o D = D
  BY <1>3, JoinsUnit
<1>. QED
  BY <1>1, <1>2, <1>4, <1>6, <1>7, StepStutters

\* and so is a byte of the mark.
LEMMA MrkByteStutters ==
  ASSUME IInv, MrkByte
  PROVE  [Stream!Next]_(Stream!vars)
<1>. DEFINE b == NextByte
<1>1. /\ phs = "MRK" /\ Consume /\ todo # <<>>
      /\ UNCHANGED <<cfg, delivered, len, cnt, rxbuf>>
      /\ mrk' = Append(mrk, b) /\ phs' # "BOF"
  BY DEF MrkByte, Consume, ToLen
<1>2. Next
  BY DEF Next, Step
<1>3. len = <<>> /\ cnt = 0 /\ b \in Byte /\ mrk \in Seq(Byte)
  BY <1>1, UnreadSplits, HeldIs DEF IInv, FrameInv
<1>4. Held = Frame(mrk, <<>>, <<>>)
  <2>1. Payload(0) = <<>>
    BY DEF Payload
  <2>. QED
    BY <1>1, <1>3, <2>1, HeldIs
<1>5. Held' = Frame(Append(mrk, b), <<>>, <<>>)
  <2>1. [i \in 1 .. 0 |-> rxbuf[i - 1]] = <<>>
    OBVIOUS
  <2>. QED
    BY <1>1, <1>3, <2>1 DEF Held, Frame
<1>. HIDE DEF b
<1>6. Frame(mrk, <<>>, <<>>) \o <<b>> = Frame(Append(mrk, b), <<>>, <<>>)
  BY <1>3, FrameGrows, JoinsUnit DEF IInv
<1>7. Held' = Held \o <<NextByte>>
  BY <1>4, <1>5, <1>6 DEF b
<1>. QED
  BY <1>1, <1>2, <1>7, StepStutters

\* The bytes held when a byte of the length comes.
LEMMA LenByteHeld ==
  ASSUME IInv, phs = "LEN", todo # <<>>
  PROVE  /\ Held = Frame(mrk, len, <<>>)
         /\ NextByte \in Byte
         /\ Held \o <<NextByte>> = Frame(mrk, Append(len, NextByte), <<>>)
<1>. DEFINE b == NextByte
<1>1. cnt = 0 /\ b \in Byte /\ mrk \in Seq(Byte) /\ len \in Seq(Byte)
  BY UnreadSplits, HeldIs DEF IInv, FrameInv
<1>2. Held = Frame(mrk, len, <<>>)
  <2>1. Payload(0) = <<>>
    BY DEF Payload
  <2>. QED
    BY <1>1, <2>1, HeldIs
<1>. HIDE DEF b
<1>3. Frame(mrk, len, <<>>) \o <<b>> = Frame(mrk, Append(len, b), <<>>)
  BY <1>1, FrameGrows, JoinsUnit DEF IInv
<1>. QED
  BY <1>1, <1>2, <1>3 DEF b

\* A byte of the length is held and still unread.
LEMMA LenByteStutters ==
  ASSUME IInv, LenByte
  PROVE  [Stream!Next]_(Stream!vars)
<1>. DEFINE b == NextByte
<1>1. /\ phs = "LEN" /\ Consume /\ todo # <<>>
      /\ UNCHANGED <<cfg, delivered, mrk, cnt, rxbuf>>
      /\ len' = Append(len, b) /\ phs' # "BOF"
  BY DEF LenByte, Consume
<1>2. Next
  BY DEF Next, Step
<1>3. cnt = 0
  BY <1>1 DEF IInv, FrameInv
<1>4. Held' = Frame(mrk, Append(len, b), <<>>)
  <2>1. [i \in 1 .. 0 |-> rxbuf[i - 1]] = <<>>
    OBVIOUS
  <2>. QED
    BY <1>1, <1>3, <2>1 DEF Held, Frame
<1>5. Held' = Held \o <<NextByte>>
  BY <1>1, <1>4, LenByteHeld
<1>. QED
  BY <1>1, <1>2, <1>5, StepStutters

\* An empty frame is delivered at once: where it would have a checksum, there
\* are none.
LEMMA LenZeroDelivers ==
  ASSUME IInv, NoEmptyFrame, LenZero
  PROVE  [Stream!Next]_(Stream!vars)
<1>1. /\ phs = "LEN" /\ Consume /\ todo # <<>> /\ cfg' = cfg
      /\ UNCHANGED <<mrk, cnt, rxbuf>>
      /\ len' = Append(len, NextByte)
      /\ Len(len') = cfg.lensz /\ Value(len') = 0
  BY DEF LenZero, Consume
<1>2. Next
  BY DEF Next, Step
<1>3. /\ len' \in Seq(Noise(cfg)) /\ 0 < cfg.lensz
      /\ Length(len') = 0 /\ Len(mrk) = cfg.mrksz
  BY <1>1, LenBytes
<1>4. cfg.crcsz = 0
  <2>. DEFINE l == len'
  <2>1. l \in [1 .. cfg.lensz -> Noise(cfg)] /\ Value(l) = 0
    BY <1>1, <1>3, LenProperties
  <2>. HIDE DEF l
  <2>2. cfg.crcsz # 1
    BY <1>3, <2>1 DEF NoEmptyFrame
  <2>3. cfg.crcsz \in 0 .. 1
    BY ContextFacts DEF IInv
  <2>. QED
    BY <2>2, <2>3
<1>5. /\ phs' = "BOF"
      /\ delivered' = [mrk |-> mrk, payload |-> <<>>, odd |-> ~ delivered.odd]
  <2>1. [i \in 1 .. 0 |-> rxbuf[i - 1]] = <<>>
    OBVIOUS
  <2>. QED
    BY <1>4, <2>1 DEF LenZero, ToCrc, CallRxcbk
<1>. DEFINE l == len'
            r == Bytes(Tail(todo))
            F == Frame(mrk, l, <<>>)
<1>6. l \in Seq(Byte) /\ mrk \in Seq(Byte) /\ <<>> \in Seq(Byte)
      /\ Len(<<>>) = 0 /\ cfg.rxlen \in Nat
  <2>1. Noise(cfg) \subseteq Byte
    BY ContextFacts DEF IInv
  <2>. QED
    BY <1>3, <2>1, SeqMonotonic, HeldIs, JoinsUnit, ContextFacts DEF IInv
<1>7. r \in Seq(Byte) /\ Unread = F \o r /\ Unread' = r
  BY <1>1, <1>2, <1>5, UnreadSplits, UnreadOutside, LenByteHeld
<1>8. Unread = Whole(mrk, l, <<>>, <<>>, r)
  <2>1. F \in Seq(Byte)
    BY <1>6, FrameIs DEF IInv
  <2>. HIDE DEF F
  <2>2. F \o <<>> = F
    BY <2>1, JoinsUnit
  <2>. QED
    BY <1>7, <2>2 DEF Whole, F
<1>9. Len(l) = cfg.lensz /\ Length(l) = 0
  BY <1>1, <1>3
<1>. HIDE DEF l, r, F
<1>10. /\ Len(<<>>) = Length(l) /\ Length(l) <= cfg.rxlen
       /\ Len(<<>>) = cfg.crcsz /\ Len(mrk) = cfg.mrksz /\ FrameInv
  BY <1>3, <1>4, <1>6, <1>9 DEF IInv
<1>. DEFINE e == <<>>
<1>11. /\ e \in Seq(Byte) /\ Len(e) = Length(l) /\ Len(e) = cfg.crcsz
       /\ Unread = Whole(mrk, l, e, e, r)
       /\ delivered' = [mrk |-> mrk, payload |-> e, odd |-> ~ delivered.odd]
  BY <1>5, <1>6, <1>8, <1>10
<1>. HIDE DEF e
<1>12. Stream!Deliver
  BY <1>1, <1>4, <1>6, <1>7, <1>9, <1>10, <1>11, WholeIsDelivered
<1>. QED
  BY <1>12 DEF Stream!Next

\* The bytes held once a byte of the payload has come.
LEMMA PckByteHeld ==
  ASSUME IInv, PckByte
  PROVE  /\ NextByte \in Byte
         /\ Payload(cnt)' = Append(Payload(cnt), NextByte)
         /\ Append(Payload(cnt), NextByte) \in Seq(Byte)
         /\ Len(Append(Payload(cnt), NextByte)) = cnt + 1
         /\ Held \o <<NextByte>> =
              Frame(mrk, len, Append(Payload(cnt), NextByte))
<1>. DEFINE b == NextByte
            p == Payload(cnt)
<1>1. /\ phs = "PCK" /\ todo # <<>> /\ cnt' = cnt + 1
      /\ rxbuf' = [rxbuf EXCEPT ![cnt] = b]
  BY DEF PckByte, Consume
<1>2. /\ b \in Byte /\ p \in Seq(Byte) /\ Len(p) = cnt
      /\ mrk \in Seq(Byte) /\ len \in Seq(Byte) /\ FrameInv
      /\ Held = Frame(mrk, len, p)
  BY <1>1, UnreadSplits, HeldIs DEF IInv
<1>3. /\ cnt \in Nat /\ cnt < Length(len) /\ Length(len) \in 0 .. cfg.rxlen
      /\ cfg.limit \in Nat /\ cfg.rxlen \in Nat /\ cfg.rxlen <= cfg.limit
  BY <1>1, LengthFits, ContextFacts DEF IInv, FrameInv
<1>4. /\ rxbuf'[cnt] = b
      /\ \A j \in 0 .. cfg.limit - 1 : j # cnt => rxbuf'[j] = rxbuf[j]
  <2>1. cnt \in 0 .. cfg.limit - 1
    BY <1>3
  <2>2. rxbuf \in [0 .. cfg.limit - 1 -> Byte]
    BY DEF IInv, BufferInv
  <2>. QED
    BY <1>1, <2>1, <2>2
<1>5. p = [i \in 1 .. cnt |-> rxbuf[i - 1]]
  BY DEF Payload
<1>. HIDE DEF b, p
<1>6. Payload(cnt)' = Append(p, b)
  <2>. DEFINE q == [i \in 1 .. cnt + 1 |-> rxbuf'[i - 1]]
  <2>1. \A i \in 1 .. cnt + 1 : q[i] = Append(p, b)[i]
    <3>1. SUFFICES ASSUME NEW i \in 1 .. cnt + 1 PROVE q[i] = Append(p, b)[i]
      OBVIOUS
    <3>2. q[i] = rxbuf'[i - 1]
      OBVIOUS
    <3>3. CASE i = cnt + 1
      <4>1. i - 1 = cnt /\ i = Len(p) + 1
        BY <1>2, <1>3, <3>3
      <4>2. Append(p, b)[Len(p) + 1] = b
        BY <1>2, AppendProperties
      <4>. QED
        BY <1>4, <3>2, <4>1, <4>2
    <3>4. CASE i # cnt + 1
      <4>1. i \in 1 .. cnt /\ i \in 1 .. Len(p) /\ i - 1 # cnt
            /\ i - 1 \in 0 .. cfg.limit - 1
        BY <1>2, <1>3, <3>4
      <4>2. Append(p, b)[i] = p[i]
        BY <1>2, <4>1, AppendProperties
      <4>3. p[i] = rxbuf[i - 1]
        BY <1>5, <4>1
      <4>. QED
        BY <1>4, <3>2, <4>1, <4>2, <4>3
    <3>. QED
      BY <3>3, <3>4
  <2>2. Append(p, b) \in Seq(Byte) /\ Len(Append(p, b)) = cnt + 1
    BY <1>2, AppendProperties
  <2>3. q = Append(p, b)
    <3>1. \A i \in 1 .. cnt + 1 : Append(p, b)[i] \in Byte
      BY <2>2, ElementOfSeq
    <3>2. \A i \in 1 .. cnt + 1 : q[i] \in Byte
      BY <2>1, <3>1
    <3>3. q \in Seq(Byte) /\ Len(q) = cnt + 1
      <4>1. cnt + 1 \in Nat
        BY <1>3
      <4>. QED
        BY <3>2, <4>1
    <3>. HIDE DEF q
    <3>. QED
      BY <2>1, <2>2, <3>3, SeqEqual
  <2>. QED
    BY <1>1, <2>3 DEF Payload
<1>7. /\ Append(p, b) \in Seq(Byte) /\ Len(Append(p, b)) = cnt + 1
      /\ Held \o <<b>> = Frame(mrk, len, Append(p, b))
  BY <1>2, AppendProperties, FrameGrows
<1>. QED
  BY <1>2, <1>6, <1>7 DEF b, p

\* The last byte of the payload of a frame without a checksum delivers it; any
\* other one is taken in.
LEMMA PckByteStep ==
  ASSUME IInv, PckByte
  PROVE  [Stream!Next]_(Stream!vars)
<1>1. /\ phs = "PCK" /\ Consume /\ todo # <<>> /\ cnt' = cnt + 1
      /\ UNCHANGED <<cfg, mrk, len>>
  BY DEF PckByte, Consume
<1>2. Next
  BY DEF Next, Step
<1>. DEFINE b == NextByte
            p == Append(Payload(cnt), b)
            r == Bytes(Tail(todo))
<1>3. /\ b \in Byte /\ Payload(cnt)' = p /\ p \in Seq(Byte)
      /\ Len(p) = cnt + 1 /\ Held \o <<b>> = Frame(mrk, len, p)
  BY PckByteHeld
<1>4. CASE cnt + 1 # Length(len) \/ cfg.crcsz # 0
  <2>1. phs' # "BOF" /\ UNCHANGED delivered
    BY <1>1, <1>4 DEF PckByte, ToCrc
  <2>2. Held' = Frame(mrk, len, Payload(cnt)')
    BY <1>1, <2>1 DEF Held, Frame, Payload
  <2>. QED
    BY <1>1, <1>2, <1>3, <2>1, <2>2, StepStutters
<1>5. CASE cnt + 1 = Length(len) /\ cfg.crcsz = 0
  <2>1. phs' = "BOF"
        /\ delivered' = [mrk |-> mrk, payload |-> Payload(cnt)',
                         odd |-> ~ delivered.odd]
    BY <1>1, <1>5 DEF PckByte, ToCrc, CallRxcbk, Payload
  <2>2. /\ FrameInv /\ Len(mrk) = cfg.mrksz /\ Len(len) = cfg.lensz
        /\ mrk \in Seq(Byte) /\ len \in Seq(Byte) /\ Length(len) <= cfg.rxlen
    BY <1>1, LengthFits, ContextFacts, HeldIs DEF IInv, FrameInv
  <2>3. r \in Seq(Byte) /\ Unread = Frame(mrk, len, p) \o r /\ Unread' = r
    BY <1>1, <1>2, <1>3, <2>1, UnreadSplits, UnreadOutside
  <2>. DEFINE e == <<>>
              F == Frame(mrk, len, p)
  <2>4. e \in Seq(Byte) /\ Len(e) = cfg.crcsz
    BY <1>5, JoinsUnit
  <2>5. F \o e = F
    BY <1>3, <2>2, FrameIs, JoinsUnit
  <2>6. Unread = Whole(mrk, len, p, e, r)
    BY <2>3, <2>5 DEF Whole
  <2>7. Len(p) = Length(len)
    BY <1>3, <1>5
  <2>8. delivered' = [mrk |-> mrk, payload |-> p, odd |-> ~ delivered.odd]
    BY <1>3, <2>1
  <2>9. p \in Seq(Byte) /\ Unread' = r /\ r \in Seq(Byte)
    BY <1>3, <2>3
  <2>. HIDE DEF e, F, p, r
  <2>10. Stream!Deliver
    BY <1>1, <1>5, <2>2, <2>4, <2>6, <2>7, <2>8, <2>9, WholeIsDelivered
  <2>. QED
    BY <2>10 DEF Stream!Next
<1>. QED
  BY <1>4, <1>5

\* A frame with its checksum, as it is unread when the checksum comes.
LEMMA CrcUnread ==
  ASSUME IInv, phs = "CRC", todo # <<>>
  PROVE  /\ FrameInv /\ cfg.crcsz = 1
         /\ mrk \in Seq(Byte) /\ Len(mrk) = cfg.mrksz
         /\ len \in Seq(Byte) /\ Len(len) = cfg.lensz
         /\ cnt = Length(len) /\ Length(len) <= cfg.rxlen
         /\ Payload(cnt) \in Seq(Byte) /\ Len(Payload(cnt)) = cnt
         /\ NextByte \in Byte
         /\ Bytes(Tail(todo)) \in Seq(Byte)
         /\ Unread = Whole(mrk, len, Payload(cnt), <<NextByte>>,
                           Bytes(Tail(todo)))
         /\ FrameCrc(Length(len)) = Crc((mrk \o len) \o Payload(cnt))
<1>1. /\ FrameInv /\ cfg.crcsz = 1 /\ Len(mrk) = cfg.mrksz
      /\ Len(len) = cfg.lensz /\ cnt = Length(len)
  BY DEF IInv, FrameInv
<1>2. Length(len) <= cfg.rxlen
  BY <1>1, ContextFacts DEF FrameInv
<1>3. /\ mrk \in Seq(Byte) /\ len \in Seq(Byte)
      /\ Payload(cnt) \in Seq(Byte) /\ Len(Payload(cnt)) = cnt
      /\ Held = Frame(mrk, len, Payload(cnt))
  BY HeldIs
<1>4. /\ NextByte \in Byte /\ Bytes(Tail(todo)) \in Seq(Byte)
      /\ Unread = (Held \o <<NextByte>>) \o Bytes(Tail(todo))
  BY UnreadSplits
<1>5. FrameCrc(Length(len)) = Crc((mrk \o len) \o Payload(cnt))
  BY <1>1 DEF FrameCrc, Payload
<1>6. Unread = Whole(mrk, len, Payload(cnt), <<NextByte>>, Bytes(Tail(todo)))
  BY <1>3, <1>4 DEF Whole
<1>. QED
  BY <1>1, <1>2, <1>3, <1>4, <1>5, <1>6

\* A checksum that is right delivers the frame.
LEMMA CrcGoodDelivers ==
  ASSUME IInv, CrcGood
  PROVE  [Stream!Next]_(Stream!vars)
<1>. DEFINE b == NextByte
            c == <<b>>
            p == Payload(cnt)
            r == Bytes(Tail(todo))
<1>1. /\ phs = "CRC" /\ phs' = "BOF" /\ Consume /\ todo # <<>> /\ cfg' = cfg
      /\ b = FrameCrc(Length(len))
  BY DEF CrcGood, Consume, CallRxcbk
<1>2. Next
  BY DEF Next, Step
<1>3. delivered' = [mrk |-> mrk, payload |-> p, odd |-> ~ delivered.odd]
  BY <1>1, CrcUnread DEF CrcGood, CallRxcbk, Payload
<1>4. Unread' = r
  BY <1>1, <1>2, UnreadOutside
<1>5. /\ FrameInv /\ cfg.crcsz = 1
      /\ mrk \in Seq(Byte) /\ Len(mrk) = cfg.mrksz
      /\ len \in Seq(Byte) /\ Len(len) = cfg.lensz
      /\ Length(len) <= cfg.rxlen
      /\ p \in Seq(Byte) /\ Len(p) = Length(len)
      /\ b \in Byte /\ r \in Seq(Byte)
      /\ Unread = Whole(mrk, len, p, c, r)
      /\ b = Crc((mrk \o len) \o p)
  BY <1>1, CrcUnread
<1>6. c \in Seq(Byte) /\ Len(c) = cfg.crcsz /\ c[1] = b
  BY <1>5
<1>. HIDE DEF b, c, p, r
<1>7. c[1] = Crc((mrk \o len) \o p)
  BY <1>5, <1>6
<1>8. Stream!Deliver
  BY <1>1, <1>3, <1>4, <1>5, <1>6, <1>7, WholeIsDelivered
<1>. QED
  BY <1>8 DEF Stream!Next

-----------------------------------------------------------------------------
(* A relock, as the stream sees it. *)

\* A sequence is what it has up to a place, and the rest.
LEMMA SplitsAt ==
  ASSUME NEW S, NEW s \in Seq(S), NEW k \in 0 .. Len(s)
  PROVE  /\ SubSeq(s, 1, k) \in Seq(S) /\ Len(SubSeq(s, 1, k)) = k
         /\ \A i \in 1 .. k : SubSeq(s, 1, k)[i] = s[i]
         /\ SubSeq(s, k + 1, Len(s)) \in Seq(S)
         /\ Len(SubSeq(s, k + 1, Len(s))) = Len(s) - k
         /\ \A i \in 1 .. Len(s) - k : SubSeq(s, k + 1, Len(s))[i] = s[k + i]
         /\ s = SubSeq(s, 1, k) \o SubSeq(s, k + 1, Len(s))
<1>. DEFINE n == Len(s)
            x == SubSeq(s, 1, k)
            y == SubSeq(s, k + 1, n)
<1>1. n \in Nat /\ k \in Nat /\ k <= n /\ \A i \in 1 .. n : s[i] \in S
  BY LenProperties, ElementOfSeq
<1>2. x \in Seq(S) /\ Len(x) = k /\ \A i \in 1 .. k : x[i] = s[i]
  BY <1>1
<1>3. y \in Seq(S) /\ Len(y) = n - k /\ \A i \in 1 .. n - k : y[i] = s[k + i]
  BY <1>1
<1>. HIDE DEF x, y
<1>4. /\ x \o y \in Seq(S) /\ Len(x \o y) = Len(x) + Len(y)
      /\ \A i \in 1 .. Len(x) + Len(y) :
           (x \o y)[i] = IF i <= Len(x) THEN x[i] ELSE y[i - Len(x)]
  BY <1>2, <1>3, ConcatProperties
<1>5. Len(x \o y) = n
  BY <1>1, <1>2, <1>3, <1>4
<1>6. ASSUME NEW i \in 1 .. n PROVE (x \o y)[i] = s[i]
  <2>1. CASE i <= k
    <3>1. i \in 1 .. k /\ i \in 1 .. Len(x) + Len(y) /\ i <= Len(x)
      BY <1>1, <1>2, <1>3, <2>1
    <3>. QED
      BY <1>2, <1>4, <3>1
  <2>2. CASE ~ (i <= k)
    <3>1. /\ i - k \in 1 .. n - k /\ i \in 1 .. Len(x) + Len(y)
          /\ ~ (i <= Len(x)) /\ k + (i - k) = i /\ Len(x) = k
      BY <1>1, <1>2, <1>3, <2>2
    <3>2. (x \o y)[i] = y[i - k]
      BY <1>4, <3>1
    <3>3. y[i - k] = s[k + (i - k)]
      BY <1>3, <3>1
    <3>. QED
      BY <3>1, <3>2, <3>3
  <2>. QED
    BY <2>1, <2>2
<1>7. s = x \o y
  BY <1>4, <1>5, <1>6, SeqEqual
<1>. QED
  BY <1>2, <1>3, <1>7 DEF x, y

\* Items read one after the other give their bytes one after the other.
LEMMA BytesJoin ==
  ASSUME FrameInv, NEW s, Received(s), NEW t, Received(t)
  PROVE  Received(s \o t) /\ Bytes(s \o t) = Bytes(s) \o Bytes(t)
<1>. DEFINE j == s \o t
            x == Bytes(s)
            y == Bytes(t)
<1>1. s \in Seq(Items) /\ t \in Seq(Items) /\ Len(s) \in Nat /\ Len(t) \in Nat
  BY LenProperties DEF Received
<1>2. /\ j \in Seq(Items) /\ Len(j) = Len(s) + Len(t)
      /\ \A i \in 1 .. Len(s) + Len(t) :
           j[i] = IF i <= Len(s) THEN s[i] ELSE t[i - Len(s)]
  BY <1>1, ConcatProperties
<1>3. /\ x \in Seq(Byte) /\ Len(x) = Len(s)
      /\ \A i \in 1 .. Len(s) : x[i] = Read(s[i])
      /\ y \in Seq(Byte) /\ Len(y) = Len(t)
      /\ \A i \in 1 .. Len(t) : y[i] = Read(t[i])
  BY BytesAre
<1>. HIDE DEF j, x, y
<1>4. ASSUME NEW i \in 1 .. Len(j)
      PROVE  \/ i \in 1 .. Len(s) /\ j[i] = s[i] /\ i <= Len(s)
             \/ /\ i - Len(s) \in 1 .. Len(t) /\ j[i] = t[i - Len(s)]
                /\ ~ (i <= Len(s))
  BY <1>1, <1>2
<1>5. Received(j)
  <2>1. ASSUME NEW i \in 1 .. Len(j), j[i][1] = "rxbuf"
        PROVE  rxbuf[j[i][2]] \in Noise(cfg)
    BY <1>4, <2>1 DEF Received
  <2>. QED
    BY <1>2, <2>1 DEF Received
<1>6. /\ Bytes(j) \in Seq(Byte) /\ Len(Bytes(j)) = Len(j)
      /\ \A i \in 1 .. Len(j) : Bytes(j)[i] = Read(j[i])
  BY <1>5, BytesAre
<1>7. /\ x \o y \in Seq(Byte) /\ Len(x \o y) = Len(s) + Len(t)
      /\ \A i \in 1 .. Len(s) + Len(t) :
           (x \o y)[i] = IF i <= Len(s) THEN x[i] ELSE y[i - Len(s)]
  <2>1. /\ x \o y \in Seq(Byte) /\ Len(x \o y) = Len(x) + Len(y)
        /\ \A i \in 1 .. Len(x) + Len(y) :
             (x \o y)[i] = IF i <= Len(x) THEN x[i] ELSE y[i - Len(x)]
    <3>1. x \in Seq(Byte) /\ y \in Seq(Byte)
      BY <1>3
    <3>. QED
      BY <3>1, ConcatProperties
  <2>. QED
    BY <1>3, <2>1
<1>8. ASSUME NEW i \in 1 .. Len(j) PROVE Bytes(j)[i] = (x \o y)[i]
  <2>1. i \in 1 .. Len(s) + Len(t) /\ Bytes(j)[i] = Read(j[i])
    BY <1>2, <1>6
  <2>2. CASE i <= Len(s)
    <3>1. i \in 1 .. Len(s) /\ j[i] = s[i]
      BY <1>4, <2>2
    <3>2. (x \o y)[i] = x[i] /\ x[i] = Read(s[i])
      BY <1>3, <1>7, <2>1, <2>2, <3>1
    <3>. QED
      BY <2>1, <3>1, <3>2
  <2>3. CASE ~ (i <= Len(s))
    <3>1. i - Len(s) \in 1 .. Len(t) /\ j[i] = t[i - Len(s)]
      BY <1>4, <2>3
    <3>2. (x \o y)[i] = y[i - Len(s)] /\ y[i - Len(s)] = Read(t[i - Len(s)])
      BY <1>3, <1>7, <2>1, <2>3, <3>1
    <3>. QED
      BY <2>1, <3>1, <3>2
  <2>. QED
    BY <2>2, <2>3
<1>9. Bytes(j) = x \o y
  BY <1>2, <1>6, <1>7, <1>8, SeqEqual
<1>. QED
  BY <1>5, <1>9 DEF j, x, y

\* What given items read.
LEMMA GivenReads ==
  ASSUME FrameInv, NEW s \in Seq(Noise(cfg))
  PROVE  Received(Given(s)) /\ Bytes(Given(s)) = s
<1>. DEFINE t == Given(s)
<1>1. /\ t \in Seq({"byte"} \X Noise(cfg)) /\ Len(t) = Len(s)
      /\ \A i \in 1 .. Len(s) : t[i] = <<"byte", s[i]>>
  BY GivenIs
<1>. HIDE DEF t
<1>2. t \in Seq(Items)
  BY <1>1, SeqMonotonic DEF Items
<1>3. \A i \in 1 .. Len(s) : t[i][1] = "byte" /\ Read(t[i]) = s[i]
  BY <1>1 DEF Read
<1>4. Received(t)
  BY <1>1, <1>2, <1>3 DEF Received
<1>5. /\ Bytes(t) \in Seq(Byte) /\ Len(Bytes(t)) = Len(s)
      /\ \A i \in 1 .. Len(s) : Bytes(t)[i] = s[i]
  BY <1>1, <1>3, <1>4, BytesAre
<1>6. s \in Seq(Byte)
  BY ContextFacts, SeqMonotonic
<1>7. Bytes(t) = s
  BY <1>5, <1>6, SeqEqual
<1>. QED
  BY <1>4, <1>7 DEF t

\* What the items of a range of rxbuf read.
LEMMA RxbufReads ==
  ASSUME FrameInv, BufferInv, NEW f \in 0 .. cnt
  PROVE  /\ Received(InRxbuf(f, cnt - 1))
         /\ Bytes(InRxbuf(f, cnt - 1)) = SubSeq(Payload(cnt), f + 1, cnt)
<1>. DEFINE t == InRxbuf(f, cnt - 1)
            p == Payload(cnt)
            q == SubSeq(p, f + 1, cnt)
<1>1. cnt \in 0 .. cfg.rxlen /\ cnt \in Nat /\ cfg.rxlen \in Nat /\ f \in Nat
  BY ContextFacts DEF FrameInv
<1>2. 0 .. cnt - 1 \subseteq 0 .. cfg.rxlen - 1
  BY <1>1
<1>3. /\ t \in Seq({"rxbuf"} \X (0 .. cfg.rxlen - 1)) /\ Len(t) = cnt - f
      /\ \A i \in 1 .. cnt - f : t[i] = <<"rxbuf", f + i - 1>>
  BY <1>1, <1>2, InRxbufIs
<1>4. p \in Seq(Byte) /\ Len(p) = cnt
  BY <1>1, PayloadIs
<1>5. \A i \in 1 .. cnt : p[i] = rxbuf[i - 1]
  BY DEF Payload
<1>. HIDE DEF t, p
<1>6. /\ q \in Seq(Byte) /\ Len(q) = cnt - f
      /\ \A i \in 1 .. cnt - f : q[i] = p[f + i]
  BY <1>4, SplitsAt
<1>. HIDE DEF q
<1>7. \A i \in 1 .. cnt - f : f + i \in 1 .. cnt /\ f + i - 1 \in 0 .. cnt - 1
  BY <1>1
<1>8. Received(t)
  <2>1. t \in Seq(Items)
    BY <1>3, SeqMonotonic DEF Items
  <2>2. \A i \in 1 .. cnt - f : rxbuf[t[i][2]] \in Noise(cfg)
    BY <1>3, <1>7 DEF BufferInv
  <2>. QED
    BY <1>3, <2>1, <2>2 DEF Received
<1>9. /\ Bytes(t) \in Seq(Byte) /\ Len(Bytes(t)) = cnt - f
      /\ \A i \in 1 .. cnt - f : Bytes(t)[i] = Read(t[i])
  BY <1>3, <1>8, BytesAre
<1>10. \A i \in 1 .. cnt - f : Bytes(t)[i] = q[i]
  <2>1. SUFFICES ASSUME NEW i \in 1 .. cnt - f PROVE Bytes(t)[i] = q[i]
    OBVIOUS
  <2>2. Read(t[i]) = rxbuf[f + i - 1]
    BY <1>3 DEF Read
  <2>3. p[f + i] = rxbuf[f + i - 1]
    BY <1>5, <1>7
  <2>. QED
    BY <1>6, <1>9, <2>2, <2>3
<1>11. Bytes(t) = q
  BY <1>6, <1>9, <1>10, SeqEqual
<1>. QED
  BY <1>8, <1>11 DEF t, q, p

\* What is pushed again are the last bytes of the failed frame; those left out
\* are its BOF and others that are none.
LEMMA PushedBytes ==
  ASSUME IInv, NoEmptyFrame, phs = "CRC", NEW b \in Noise(cfg)
  PROVE  /\ Received(PushedAgain(len, <<b>>))
         /\ \E a, e \in Seq(Byte) :
              /\ a # <<>> /\ \A i \in 2 .. Len(a) : a[i] # cfg.bof
              /\ Frame(mrk, len, Payload(cnt)) = a \o e
              /\ Bytes(PushedAgain(len, <<b>>)) = e \o <<b>>
<1>. DEFINE c == <<b>>
            v == mrk \o len
            p == Payload(cnt)
            B == <<cfg.bof>>
<1>1. /\ FrameInv /\ BufferInv /\ Receivable
      /\ Len(mrk) = cfg.mrksz /\ cnt = Length(len) /\ cfg.crcsz = 1
      /\ len \in Seq(Noise(cfg)) /\ mrk \in Seq(Noise(cfg))
      /\ Len(len) = cfg.lensz
  BY DEF IInv, FrameInv
<1>2. Length(len) # 0
  <2>1. CASE cfg.lensz = 0
    BY <1>1, <2>1, ContextFacts DEF Length
  <2>2. CASE cfg.lensz > 0
    <3>1. len \in [1 .. cfg.lensz -> Noise(cfg)]
      BY <1>1, LenProperties
    <3>2. Value(len) # 0
      BY <1>1, <2>2, <3>1 DEF NoEmptyFrame
    <3>. QED
      BY <1>1, <2>2, <3>2, LengthFits
  <2>. QED
    BY <1>1, <2>1, <2>2, ContextFacts
<1>3. c \in Seq(Noise(cfg))
  OBVIOUS
<1>4. View(len, c) = v /\ v \in Seq(Noise(cfg))
  BY <1>1, <1>2, <1>3, ViewIs
<1>5. PICK g \in Seq(Noise(cfg)), f \in 0 .. cnt : Pushes(len, c, g, f)
  BY <1>1, <1>3, PushedAgainIs
<1>. DEFINE q == SubSeq(p, f + 1, cnt)
            R == InRxbuf(f, cnt - 1)
<1>6. p \in Seq(Byte) /\ Len(p) = cnt /\ \A i \in 1 .. cnt : p[i] = rxbuf[i - 1]
  BY HeldIs DEF Payload
<1>7. /\ Received(PushedAgain(len, c))
      /\ Bytes(PushedAgain(len, c)) = (g \o q) \o c
  <2>. DEFINE G == Given(g)
              C == Given(c)
  <2>1. PushedAgain(len, c) = (G \o R) \o C
    BY <1>1, <1>5 DEF Pushes
  <2>2. Received(G) /\ Bytes(G) = g /\ Received(C) /\ Bytes(C) = c
    BY <1>1, <1>3, GivenReads
  <2>3. Received(R) /\ Bytes(R) = q
    BY <1>1, RxbufReads
  <2>. HIDE DEF G, C, R, q, c
  <2>4. Received(G \o R) /\ Bytes(G \o R) = g \o q
    BY <1>1, <2>2, <2>3, BytesJoin
  <2>. DEFINE H == G \o R
  <2>. HIDE DEF H
  <2>5. Received(H) /\ Bytes(H) = g \o q
    BY <2>4 DEF H
  <2>6. Received(H \o C) /\ Bytes(H \o C) = (g \o q) \o c
    BY <1>1, <2>2, <2>5, BytesJoin
  <2>. QED
    BY <2>1, <2>6 DEF H
<1>8. /\ g \in Seq(Byte) /\ v \in Seq(Byte) /\ B \in Seq(Byte) /\ Len(B) = 1
      /\ mrk \in Seq(Byte) /\ len \in Seq(Byte)
  <2>1. g \in Seq(Byte) /\ v \in Seq(Byte)
    BY <1>1, <1>4, ContextFacts, SeqMonotonic
  <2>. QED
    BY <1>1, <2>1, HeldIs, ContextFacts, JoinsOne
<1>9. Frame(mrk, len, p) = (B \o v) \o p
  <2>1. Regroups(B, mrk, len)
    BY <1>8, JoinsAssociate
  <2>. QED
    BY <2>1 DEF Regroups, Frame
<1>10. B \o v \in Seq(Byte) /\ Len(B \o v) = 1 + Len(v) /\ Len(v) \in Nat
  BY <1>8, Joins
<1>11. \A i \in 2 .. 1 + Len(v) :
         i - 1 \in 1 .. Len(v) /\ (B \o v)[i] = v[i - 1]
  <2>1. SUFFICES ASSUME NEW i \in 2 .. 1 + Len(v)
                 PROVE  i - 1 \in 1 .. Len(v) /\ (B \o v)[i] = v[i - 1]
    OBVIOUS
  <2>2. i \in 1 .. Len(B) + Len(v) /\ ~ (i <= Len(B)) /\ i - Len(B) = i - 1
        /\ i - 1 \in 1 .. Len(v)
    BY <1>8, <1>10
  <2>3. (B \o v)[i] = v[i - Len(B)]
    BY <1>8, <2>2, ConcatProperties
  <2>. QED
    BY <2>2, <2>3
<1>12. g \o q \in Seq(Byte)
  BY <1>6, <1>8, SplitsAt, Joins
<1>13. ASSUME NEW i \in 1 .. Len(v), f = 0, g = SubSeq(v, i, Len(v)),
              \A j \in 1 .. i - 1 : v[j] # cfg.bof
       PROVE  \E a \in Seq(Byte) :
                /\ a # <<>> /\ \A j \in 2 .. Len(a) : a[j] # cfg.bof
                /\ (B \o v) \o p = a \o (g \o q)
  <2>. DEFINE h == SubSeq(v, 1, i - 1)
              a == B \o h
  <2>1. /\ h \in Seq(Byte) /\ Len(h) = i - 1 /\ v = h \o g
        /\ \A j \in 1 .. i - 1 : h[j] = v[j]
    <3>. DEFINE k == i - 1
    <3>1. k \in 0 .. Len(v) /\ k + 1 = i
      BY <1>10
    <3>2. v \in Seq(Byte)
      BY <1>8
    <3>. HIDE DEF k, v
    <3>3. /\ SubSeq(v, 1, k) \in Seq(Byte) /\ Len(SubSeq(v, 1, k)) = k
          /\ \A j \in 1 .. k : SubSeq(v, 1, k)[j] = v[j]
          /\ v = SubSeq(v, 1, k) \o SubSeq(v, k + 1, Len(v))
      BY <3>1, <3>2, SplitsAt
    <3>. QED
      BY <1>13, <3>1, <3>3 DEF k
  <2>2. q = p
    BY <1>6, <1>13, SubSeqFull
  <2>. HIDE DEF h, v, p, B, q
  <2>3. /\ a \in Seq(Byte) /\ Len(a) = i /\ i \in Nat /\ i >= 1
        /\ h \o g \in Seq(Byte) /\ B \o h \in Seq(Byte)
    BY <1>8, <1>10, <2>1, Joins
  <2>4. \A j \in 2 .. Len(a) : a[j] # cfg.bof
    <3>1. SUFFICES ASSUME NEW j \in 2 .. i PROVE a[j] # cfg.bof
      BY <2>3
    <3>2. /\ j \in 1 .. Len(B) + Len(h) /\ ~ (j <= Len(B)) /\ j - Len(B) = j - 1
          /\ j - 1 \in 1 .. i - 1
      BY <1>8, <2>1, <2>3
    <3>3. a[j] = h[j - Len(B)]
      BY <1>8, <2>1, <3>2, ConcatProperties
    <3>. QED
      BY <1>13, <2>1, <3>2, <3>3
  <2>5. (B \o v) \o p = a \o (g \o p)
    <3>1. Regroups(B, h, g)
      BY <1>8, <2>1, JoinsAssociate
    <3>2. Regroups(B \o h, g, p)
      BY <1>6, <1>8, <2>3, JoinsAssociate
    <3>. QED
      BY <2>1, <3>1, <3>2 DEF Regroups
  <2>6. a # <<>>
    BY <2>3, EmptySeq
  <2>. QED
    BY <2>2, <2>3, <2>4, <2>5, <2>6
<1>14. ASSUME g = <<>>, \A j \in 1 .. Len(v) : v[j] # cfg.bof,
              \A j \in 0 .. f - 1 : rxbuf[j] # cfg.bof
       PROVE  \E a \in Seq(Byte) :
                /\ a # <<>> /\ \A j \in 2 .. Len(a) : a[j] # cfg.bof
                /\ (B \o v) \o p = a \o (g \o q)
  <2>. DEFINE h == SubSeq(p, 1, f)
              w == B \o v
              a == w \o h
  <2>1. /\ h \in Seq(Byte) /\ Len(h) = f /\ p = h \o q /\ q \in Seq(Byte)
        /\ \A j \in 1 .. f : h[j] = p[j]
    <3>1. p \in Seq(Byte) /\ f \in 0 .. Len(p) /\ Len(p) = cnt
      BY <1>6
    <3>. HIDE DEF p
    <3>2. /\ SubSeq(p, 1, f) \in Seq(Byte) /\ Len(SubSeq(p, 1, f)) = f
          /\ \A j \in 1 .. f : SubSeq(p, 1, f)[j] = p[j]
          /\ SubSeq(p, f + 1, Len(p)) \in Seq(Byte)
          /\ p = SubSeq(p, 1, f) \o SubSeq(p, f + 1, Len(p))
      BY <3>1, SplitsAt
    <3>. QED
      BY <3>1, <3>2
  <2>2. f \in Nat /\ f <= cnt /\ cnt \in Nat
    BY <1>1, ContextFacts
  <2>3. g \o q = q
    BY <1>14, <2>1, JoinsUnit
  <2>4. /\ w \in Seq(Byte) /\ Len(w) = 1 + Len(v)
        /\ \A j \in 2 .. Len(w) : w[j] # cfg.bof
    BY <1>10, <1>11, <1>14
  <2>. HIDE DEF h, p, q, w
  <2>5. a \in Seq(Byte) /\ Len(a) = 1 + Len(v) + f
    BY <2>1, <2>4, Joins
  <2>6. \A j \in 2 .. Len(a) : a[j] # cfg.bof
    <3>1. SUFFICES ASSUME NEW j \in 2 .. 1 + Len(v) + f PROVE a[j] # cfg.bof
      BY <2>5
    <3>2. j \in 1 .. Len(w) + Len(h)
      BY <1>10, <2>1, <2>2, <2>4
    <3>3. a[j] = IF j <= Len(w) THEN w[j] ELSE h[j - Len(w)]
      BY <2>1, <2>4, <3>2, ConcatProperties
    <3>4. CASE j <= Len(w)
      BY <2>4, <3>3, <3>4
    <3>5. CASE ~ (j <= Len(w))
      <4>. DEFINE k == j - Len(w)
      <4>1. k \in 1 .. f /\ k \in 1 .. cnt /\ k - 1 \in 0 .. f - 1
        BY <1>10, <2>2, <2>4, <3>5
      <4>. HIDE DEF k
      <4>2. h[k] = rxbuf[k - 1]
        BY <1>6, <2>1, <4>1
      <4>3. a[j] = h[k]
        BY <3>3, <3>5 DEF k
      <4>. QED
        BY <1>14, <4>1, <4>2, <4>3
    <3>. QED
      BY <3>4, <3>5
  <2>7. w \o p = a \o q
    <3>1. Regroups(w, h, q)
      BY <2>1, <2>4, JoinsAssociate
    <3>. QED
      BY <2>1, <3>1 DEF Regroups
  <2>8. a # <<>>
    BY <1>10, <2>2, <2>5, EmptySeq
  <2>. QED
    BY <2>3, <2>5, <2>6, <2>7, <2>8 DEF w
<1>15. \E a \in Seq(Byte) :
         /\ a # <<>> /\ \A j \in 2 .. Len(a) : a[j] # cfg.bof
         /\ (B \o v) \o p = a \o (g \o q)
  BY <1>4, <1>5, <1>13, <1>14 DEF Pushes
<1>. QED
  BY <1>7, <1>9, <1>12, <1>15

\* A checksum that is wrong lets go of the BOF, and of no other.
LEMMA CrcBadDiscards ==
  ASSUME IInv, NoEmptyFrame, CrcBad
  PROVE  [Stream!Next]_(Stream!vars)
<1>. DEFINE b == NextByte
            c == <<b>>
            p == Payload(cnt)
            r == Bytes(Tail(todo))
            P == PushedAgain(len, c)
            F == Frame(mrk, len, p)
<1>1. /\ phs = "CRC" /\ phs' = "BOF" /\ todo # <<>>
      /\ todo' = P \o Tail(todo)
      /\ b # FrameCrc(Length(len))
      /\ UNCHANGED <<cfg, rxbuf, delivered>>
  BY DEF CrcBad, RelockBof
<1>2. /\ FrameInv /\ cfg.crcsz = 1
      /\ mrk \in Seq(Byte) /\ Len(mrk) = cfg.mrksz
      /\ len \in Seq(Byte) /\ Len(len) = cfg.lensz
      /\ Length(len) <= cfg.rxlen
      /\ p \in Seq(Byte) /\ Len(p) = Length(len)
      /\ b \in Byte /\ r \in Seq(Byte)
      /\ Unread = Whole(mrk, len, p, c, r)
      /\ b # Crc((mrk \o len) \o p)
  BY <1>1, CrcUnread
<1>3. c \in Seq(Byte) /\ Len(c) = cfg.crcsz /\ c[1] = b
  BY <1>2
<1>4. b \in Noise(cfg)
  BY <1>1, NextByteIsNoise DEF IInv
<1>5. PICK a, e \in Seq(Byte) :
        /\ a # <<>> /\ \A i \in 2 .. Len(a) : a[i] # cfg.bof
        /\ F = a \o e /\ Bytes(P) = e \o c
  BY <1>1, <1>4, PushedBytes
<1>6. Unread' = (e \o c) \o r
  <2>1. Received(P) /\ Received(Tail(todo))
    BY <1>1, <1>4, PushedBytes, UnreadSplits
  <2>. HIDE DEF P
  <2>. DEFINE x == (e \o c) \o r
  <2>2. Bytes(P \o Tail(todo)) = x
    BY <1>2, <1>5, <2>1, BytesJoin
  <2>3. x \in Seq(Byte)
    BY <1>2, <1>3, <1>5, Joins
  <2>4. Bytes(todo)' = Bytes(todo')
    BY <1>1 DEF Bytes, Read
  <2>5. Held' = <<>>
    BY <1>1 DEF Held
  <2>. HIDE DEF x
  <2>6. Unread' = <<>> \o x
    BY <1>1, <2>2, <2>4, <2>5 DEF Unread
  <2>7. Unread' = x
    BY <2>3, <2>6, JoinsUnit
  <2>. QED
    BY <2>7 DEF x
<1>7. Stream!NoFrame(Unread)
  <2>. DEFINE u == Unread
  <2>. HIDE DEF u, b, c, p, r
  <2>1. ReadsAs(mrk, len, p, c, r, u)
    BY <1>2, <1>3, WholeFrame DEF u
  <2>2. Stream!Complete(u) /\ ~ Stream!Checks(u)
    BY <1>2, <1>3, <2>1 DEF ReadsAs
  <2>. QED
    BY <2>2 DEF Stream!NoFrame, u
<1>8. Unread = a \o ((e \o c) \o r)
  <2>. HIDE DEF b, c, p, r, F
  <2>1. e \o c \in Seq(Byte)
    BY <1>3, <1>5, Joins
  <2>2. Regroups(a, e, c)
    BY <1>3, <1>5, JoinsAssociate
  <2>3. Regroups(a, e \o c, r)
    BY <1>2, <1>5, <2>1, JoinsAssociate
  <2>4. Unread = ((a \o e) \o c) \o r
    BY <1>2, <1>5 DEF Whole, F
  <2>. QED
    BY <2>2, <2>3, <2>4 DEF Regroups
<1>9. (e \o c) \o r \in Seq(Byte)
  BY <1>2, <1>3, <1>5, Joins
<1>. DEFINE x == (e \o c) \o r
<1>. HIDE DEF x, c, r, p, P, F
<1>10. Unread = a \o x /\ Unread' = x /\ x \in Seq(Byte)
  BY <1>6, <1>8, <1>9 DEF x
<1>11. Stream!Discard
  BY <1>1, <1>5, <1>7, <1>10, FrontIsDiscarded
<1>. QED
  BY <1>11 DEF Stream!Next

-----------------------------------------------------------------------------

\* Every step is one of the stream, or none of it.
LEMMA StepRefines ==
  IInv /\ NoEmptyFrame /\ [Next]_vars => [Stream!Next]_(Stream!vars)
<1>. SUFFICES ASSUME IInv, NoEmptyFrame, [Next]_vars
              PROVE  [Stream!Next]_(Stream!vars)
  OBVIOUS
<1>1. CASE UNCHANGED vars
  BY <1>1 DEF vars, Stream!vars, Held, Read
<1>2. CASE Next
  BY <1>2, PushReceives, BofSkipDiscards, BofFoundStutters, MrkByteStutters,
     LenByteStutters, LenZeroDelivers, LenTooLongCannot, PckByteStep,
     CrcGoodDelivers, CrcBadDiscards DEF Next, Step
<1>. QED
  BY <1>1, <1>2

\* Nothing is unread at first.
LEMMA InitRefines == Init => Stream!Init
<1>. SUFFICES ASSUME Init PROVE Stream!Init
  OBVIOUS
<1>1. phs = "BOF" /\ todo = <<>>
      /\ delivered = [mrk |-> <<>>, payload |-> <<>>, odd |-> FALSE]
  BY DEF Init
<1>2. Held = <<>>
  BY <1>1 DEF Held
<1>3. [i \in 1 .. Len(todo) |-> Read(todo[i])] = <<>>
  BY <1>1
<1>4. Held \o [i \in 1 .. Len(todo) |-> Read(todo[i])] = <<>>
  BY <1>2, <1>3, JoinsUnit
<1>. QED
  BY <1>1, <1>4 DEF Stream!Init

\* The context stays, and so does what it says of empty frames.
LEMMA NoEmptyFrameStays == NoEmptyFrame /\ [Next]_vars => NoEmptyFrame'
<1>. SUFFICES ASSUME NoEmptyFrame, [Next]_vars PROVE NoEmptyFrame'
  OBVIOUS
<1>1. cfg' = cfg
  BY DEF Next, Step, vars, Push, BofSkip, BofFound, MrkByte, LenByte, LenZero,
     LenTooLong, PckByte, CrcGood, CrcBad
<1>. QED
  BY <1>1 DEF NoEmptyFrame

\* The receiver loses no byte, invents none and looks at none twice; it delivers
\* the frames that are there, in order, and after one that fails the search
\* goes on right after its BOF (WJPv5.h:134-163).
THEOREM ReceivesTheStream ==
  Spec /\ Receivable /\ NoEmptyFrame =>
    Stream!Init /\ [][Stream!Next]_(Stream!vars)
<1>1. Init /\ Receivable => IInv
  BY InitInv
<1>2. IInv /\ NoEmptyFrame /\ [Next]_vars => IInv' /\ NoEmptyFrame'
  BY InvStep, NoEmptyFrameStays
<1>. QED
  BY <1>1, <1>2, InitRefines, StepRefines, PTL DEF Spec
=============================================================================

----------------------------- MODULE WjpEuclid ------------------------------
(* The WJP Euclid receiver of brp/include/rgh/brp/WJPv5.h, one received byte *)
(* at a time.  WJP_euclid_push calls itself through                          *)
(* _wjp_euclid_relock_bof, which pushes again what a failed frame held; the  *)
(* pushes in progress are one agenda, todo, of the bytes still to be         *)
(* consumed, an inner push before the rest of the outer one.  A byte pushed  *)
(* out of rxbuf is read only when its turn comes, after rxbuf may have been  *)
(* written again, so the agenda holds its place in rxbuf and not its value.  *)
EXTENDS Naturals, Sequences, SequencesExt

CONSTANTS Configs,     \* the contexts: cfg, rxlen, and how far a relock may read
          Noise(_),    \* the bytes that may arrive at a context
          Frames(_),   \* the <<mark, payload>> pairs its sender may frame
          Garbage(_),  \* what may come before a frame in the same push
          Crc(_)       \* _wjp_euclid_crc8_rx, wjp_crc8

Byte == 0 .. 255

ASSUME EuclidAssumption ==
  \A c \in Configs : /\ c.bof \in Byte \ {0}
                     /\ c.mrksz \in 0 .. 3 /\ c.lensz \in 0 .. 3 /\ c.crcsz \in 0 .. 1
                     /\ c.rxlen \in Nat \ {0}
                     /\ c.limit \in Nat /\ c.rxlen <= c.limit
                     /\ Noise(c) \subseteq Byte

VARIABLES cfg,        \* the context's configuration and rxlen
          phs,        \* _phs
          mrk,        \* the bytes of _mrk received
          len,        \* the bytes of _len received
          crc,        \* the bytes of _crc received
          cnt,        \* _cnt1 while the payload is received
          rxbuf,      \* the reception buffer, and the bytes that lie after it
          todo,       \* the agenda
          delivered   \* the last call of rxcbk; odd tells it from the one before

vars == <<cfg, phs, mrk, len, crc, cnt, rxbuf, todo,
          delivered>>

\* The items of the agenda.
Given(s) == [i \in 1 .. Len(s) |-> <<"byte", s[i]>>]
InRxbuf(first, last) == [i \in 1 .. last - first + 1 |-> <<"rxbuf", first + i - 1>>]
Read(item) == IF item[1] = "byte" THEN item[2] ELSE rxbuf[item[2]]

Value(s) ==
  LET v[i \in 0 .. Len(s)] ==
        IF i = 0 THEN 0 ELSE v[i - 1] + s[i] * 256 ^ (i - 1)
  IN  v[Len(s)]

\* The number in _len once its bytes are l.
Length(l) == IF cfg.lensz = 0 THEN cfg.rxlen ELSE Value(l)

\* _wjp_euclid_crc8_rx, over n bytes of payload.
FrameCrc(n) == Crc(mrk \o len \o [i \in 1 .. n |-> rxbuf[i - 1]])

\* Mutant: the checksum covers the BOF.
EncodeCrcWithBof(m, p) ==
  LET length == [i \in 1 .. cfg.lensz |-> IF i = 1 THEN Len(p) ELSE 0]
      check == IF cfg.crcsz = 0 THEN <<>> ELSE <<Crc(<<cfg.bof>> \o m \o length \o p)>>
  IN  <<cfg.bof>> \o m \o length \o p \o check

\* WJP_euclid_emplace_frame: what a sender of mark m and payload p emits; the
\* length fits in one byte.
Encode(m, p) ==
  LET length == [i \in 1 .. cfg.lensz |-> IF i = 1 THEN Len(p) ELSE 0]
      check == IF cfg.crcsz = 0 THEN <<>> ELSE <<Crc(m \o length \o p)>>
  IN  <<cfg.bof>> \o m \o length \o p \o check

Init ==
  /\ cfg \in Configs
  /\ phs = "BOF"
  /\ mrk = <<>> /\ len = <<>> /\ crc = <<>> /\ cnt = 0
  /\ rxbuf \in [0 .. cfg.limit - 1 -> Noise(cfg) \cup {0}]
  /\ \A i \in 0 .. cfg.rxlen - 1 : rxbuf[i] = 0
  /\ todo = <<>>
  /\ delivered = [mrk |-> <<>>, payload |-> <<>>, odd |-> FALSE]

-----------------------------------------------------------------------------

\* The owner pushes noise a byte at a time, or a whole frame after garbage.
Chunks == {<<b>> : b \in Noise(cfg)}
            \cup {g \o Encode(f[1], f[2]) : g \in Garbage(cfg), f \in Frames(cfg)}

Push ==
  /\ todo = <<>>
  /\ \E chunk \in Chunks : todo' = Given(chunk)
  /\ UNCHANGED <<cfg, phs, mrk, len, crc, cnt, rxbuf, delivered>>

\* The byte _WJP_EUCLID_CONSUME takes, and what it leaves.
NextByte == Read(Head(todo))
Consume == todo # <<>> /\ todo' = Tail(todo)

\* lbl_call_rxcbk, with n bytes of payload in buf.
CallRxcbk(n, buf) ==
  /\ delivered' = [mrk |-> mrk, payload |-> [i \in 1 .. n |-> buf[i - 1]],
                   odd |-> ~ delivered.odd]
  /\ phs' = "BOF"

\* lbl_crc, with n bytes of payload in buf.
ToCrc(n, buf) ==
  IF cfg.crcsz = 0 THEN CallRxcbk(n, buf)
               ELSE phs' = "CRC" /\ UNCHANGED delivered

\* lbl_len.
ToLen == phs' = IF cfg.lensz = 0 THEN "PCK" ELSE "LEN"

BofSkip ==
  /\ phs = "BOF"
  /\ Consume
  /\ NextByte # cfg.bof
  /\ UNCHANGED <<cfg, phs, mrk, len, crc, cnt, rxbuf, delivered>>

BofFound ==
  /\ phs = "BOF"
  /\ Consume
  /\ NextByte = cfg.bof
  /\ mrk' = <<>> /\ len' = <<>> /\ crc' = <<>> /\ cnt' = 0
  /\ IF cfg.mrksz = 0 THEN ToLen ELSE phs' = "MRK"
  /\ UNCHANGED <<cfg, rxbuf, delivered>>

MrkByte ==
  /\ phs = "MRK"
  /\ Consume
  /\ mrk' = Append(mrk, NextByte)
  /\ IF Len(mrk') = cfg.mrksz THEN ToLen ELSE UNCHANGED phs
  /\ UNCHANGED <<cfg, len, crc, cnt, rxbuf, delivered>>

LenByte ==
  /\ phs = "LEN"
  /\ Consume
  /\ len' = Append(len, NextByte)
  /\ Len(len') = cfg.lensz => Value(len') \in 1 .. cfg.rxlen
  /\ phs' = IF Len(len') = cfg.lensz THEN "PCK" ELSE "LEN"
  /\ UNCHANGED <<cfg, mrk, crc, cnt, rxbuf, delivered>>

LenZero ==
  /\ phs = "LEN"
  /\ Consume
  /\ len' = Append(len, NextByte)
  /\ Len(len') = cfg.lensz /\ Value(len') = 0
  /\ ToCrc(0, rxbuf)
  /\ UNCHANGED <<cfg, mrk, crc, cnt, rxbuf>>

PckByte ==
  /\ phs = "PCK"
  /\ Consume
  /\ rxbuf' = [rxbuf EXCEPT ![cnt] = NextByte]
  /\ cnt' = cnt + 1
  /\ IF cnt' = Length(len) THEN ToCrc(cnt', rxbuf')
                           ELSE UNCHANGED <<phs, delivered>>
  /\ UNCHANGED <<cfg, mrk, len, crc>>

CrcGood ==
  /\ phs = "CRC"
  /\ Consume
  /\ NextByte = FrameCrc(Length(len))
  /\ crc' = <<NextByte>>
  /\ CallRxcbk(Length(len), rxbuf)
  /\ UNCHANGED <<cfg, mrk, len, cnt, rxbuf>>

-----------------------------------------------------------------------------
(* _wjp_euclid_relock_bof: a frame has failed whose bytes are mrk, l, the    *)
(* first Length(l) places of rxbuf and c, the bytes of _crc.                 *)

First(S) == CHOOSE i \in S : \A j \in S : i <= j

\* Mutant: the walk does not stop at rxbuf (WJPv5.h:144 left out).
ViewUnstopped(l, c) == mrk \o l \o [i \in 1 .. Length(l) |-> rxbuf[i - 1]] \o c

\* The walk of _wjp_euclid_rx_view_advance up to rxbuf.  With an empty payload
\* it never stands at rxbuf and goes on through _crc.
View(l, c) == mrk \o l \o (IF Length(l) = 0 THEN c ELSE <<>>)

\* Mutant: the search starts over after the failed frame.
PushedAgainNothing(l, c) == <<>>

\* What it pushes: from the first BOF of the view on, or else from the first
\* BOF of rxbuf on; and the CRC bytes in any case.
PushedAgain(l, c) ==
  LET view == View(l, c)
      inView == {i \in 1 .. Len(view) : view[i] = cfg.bof}
      inRxbuf == {i \in 0 .. Length(l) - 1 : rxbuf[i] = cfg.bof}
  IN  (IF inView # {}
         THEN Given(SubSeq(view, First(inView), Len(view)))
                \o InRxbuf(0, Length(l) - 1)
       ELSE IF inRxbuf # {} THEN InRxbuf(First(inRxbuf), Length(l) - 1)
       ELSE <<>>)
      \o Given(c)

RelockBof(l, c) ==
  /\ todo # <<>>
  /\ todo' = PushedAgain(l, c) \o Tail(todo)
  /\ phs' = "BOF"

\* The length does not fit.  No byte of this frame has reached rxbuf or _crc
\* yet, and the bytes they hold are pushed all the same.
LenTooLong ==
  /\ phs = "LEN"
  /\ todo # <<>>
  /\ len' = Append(len, NextByte)
  /\ Len(len') = cfg.lensz /\ Value(len') > cfg.rxlen
  /\ RelockBof(len', [i \in 1 .. cfg.crcsz |-> 0])
  /\ UNCHANGED <<cfg, mrk, crc, cnt, rxbuf, delivered>>

CrcBad ==
  /\ phs = "CRC"
  /\ todo # <<>>
  /\ NextByte # FrameCrc(Length(len))
  /\ crc' = <<NextByte>>
  /\ RelockBof(len, crc')
  /\ UNCHANGED <<cfg, mrk, len, cnt, rxbuf, delivered>>

Step == \/ BofSkip \/ BofFound \/ MrkByte \/ LenByte \/ LenZero \/ LenTooLong
        \/ PckByte \/ CrcGood \/ CrcBad

Next == Push \/ Step

\* WJP_euclid_push runs to its end; nobody has to call it.
Spec == Init /\ [][Next]_vars /\ WF_vars(Step)

-----------------------------------------------------------------------------

\* The bytes held are those the phase says, and the write index stays in rxbuf.
TypeOK ==
  /\ phs \in {"BOF", "MRK", "LEN", "PCK", "CRC"}
  /\ mrk \in Seq(Byte) /\ Len(mrk) <= cfg.mrksz
  /\ len \in Seq(Byte) /\ Len(len) <= cfg.lensz
  /\ crc \in Seq(Byte) /\ Len(crc) <= cfg.crcsz
  /\ cnt \in 0 .. cfg.rxlen
  /\ phs = "PCK" => cnt < Length(len) /\ Length(len) <= cfg.rxlen
  /\ rxbuf \in [0 .. cfg.limit - 1 -> Byte]
  /\ \A i \in DOMAIN todo :
       \/ todo[i][1] = "byte" /\ todo[i][2] \in Byte
       \/ todo[i][1] = "rxbuf" /\ todo[i][2] \in 0 .. cfg.limit - 1

\* The bytes of the frame being received.
Held == IF phs = "BOF" THEN <<>>
        ELSE <<cfg.bof>> \o mrk \o len \o [i \in 1 .. cnt |-> rxbuf[i - 1]]

Stream == INSTANCE WjpStream
            WITH unread <- Held \o [i \in 1 .. Len(todo) |-> Read(todo[i])]

\* The receiver loses no byte, invents none and looks at none twice: after a
\* frame that fails, the search goes on right after its BOF, through the bytes
\* pushed again and those pushed out of a buffer that is being written
\* (WJPv5.h:134-136).  What it excepts is written in WjpStream: a length that
\* does not fit (:258), and an empty frame that fails (:144).
ResumesAfterBof == Stream!Spec

\* What is pushed is delivered before the next push.
Delivered(f) == todo = <<>> /\ delivered.mrk = f[1] /\ delivered.payload = f[2]

\* A relock of a header g whose length does not fit finds a BOF where there is
\* none of a frame: among its own bytes, or in rxbuf, where no byte of it is.
Misleads(g) == \/ \E i \in 2 .. Len(g) : g[i] = cfg.bof
               \/ g # <<>> /\ \E i \in DOMAIN rxbuf : rxbuf[i] = cfg.bof

\* A frame that fits, pushed while the receiver looks for a BOF, is delivered,
\* whatever the receiver went through before (WJPv5.h:181-192, :289-293).  When
\* the same push starts with a header whose length does not fit, this is said
\* only as long as the relock that follows meets no BOF: the bytes of rxbuf it
\* pushes again are those of earlier frames, or lie after rxbuf (:258-259).
RoundTrip ==
  \A c \in Configs : \A g \in Garbage(c), f \in Frames(c) :
    (cfg = c /\ phs = "BOF" /\ todo = Given(g \o Encode(f[1], f[2])) /\ ~ Misleads(g))
      ~> Delivered(f)

\* A byte on the agenda is read before its place in rxbuf is written again:
\* the writes of the frame being received stay behind the reads.
ReadBeforeWritten ==
  [][\A i \in 1 .. Len(todo') :
       todo'[i][1] = "rxbuf" => rxbuf'[todo'[i][2]] = rxbuf[todo'[i][2]]]_vars
=============================================================================

----------------------------- MODULE WjpStream ------------------------------
(* What a WJP Euclid receiver promises about the bytes it is given, in the   *)
(* order it is given them: it looks for a BOF; a whole frame that checks is  *)
(* delivered and its bytes are spent; otherwise that BOF was not the start   *)
(* of a frame, and the search goes on with the byte right after it.  No byte *)
(* is looked at that was not received, and none is skipped -- except after a *)
(* header whose length does not fit, which strays into other bytes first,    *)
(* and after an empty frame that fails, whose own bytes may come twice.      *)
EXTENDS Naturals, Sequences, SequencesExt

CONSTANTS Crc(_)      \* the checksum of a sequence of bytes

VARIABLES cfg,        \* bof, mrksz, lensz, crcsz, and rxlen
          unread,     \* the bytes received and not yet spent or skipped
          delivered   \* the last frame delivered; odd tells it from the one before

vars == <<cfg, unread, delivered>>

\* The number a little-endian field holds.
Value(s) ==
  LET v[i \in 0 .. Len(s)] ==
        IF i = 0 THEN 0 ELSE v[i - 1] + s[i] * 256 ^ (i - 1)
  IN  v[Len(s)]

\* A frame at the start of u.
HeaderSize == 1 + cfg.mrksz + cfg.lensz
Mark(u) == SubSeq(u, 2, 1 + cfg.mrksz)
Length(u) == IF cfg.lensz = 0 THEN cfg.rxlen ELSE Value(SubSeq(u, 2 + cfg.mrksz, HeaderSize))
Payload(u) == SubSeq(u, HeaderSize + 1, HeaderSize + Length(u))
FrameSize(u) == HeaderSize + Length(u) + cfg.crcsz

TooLong(u) == Len(u) >= HeaderSize /\ Length(u) > cfg.rxlen
Complete(u) == Len(u) >= HeaderSize /\ ~ TooLong(u) /\ Len(u) >= FrameSize(u)
Checks(u) ==
  cfg.crcsz = 0 \/ u[FrameSize(u)] = Crc(SubSeq(u, 2, HeaderSize + Length(u)))

NoFrame(u) == Head(u) # cfg.bof \/ (Complete(u) /\ ~ Checks(u))
FailsEmpty(u) == Complete(u) /\ ~ Checks(u) /\ Length(u) = 0

Init == /\ unread = <<>>
        /\ delivered = [mrk |-> <<>>, payload |-> <<>>, odd |-> FALSE]

Receive ==
  /\ unread' \in Seq(0 .. 255)
  /\ IsStrictPrefix(unread, unread')
  /\ UNCHANGED <<cfg, delivered>>

Deliver ==
  /\ unread # <<>>
  /\ Head(unread) = cfg.bof /\ Complete(unread) /\ Checks(unread)
  /\ delivered' = [mrk |-> Mark(unread), payload |-> Payload(unread),
                   odd |-> ~ delivered.odd]
  /\ unread' = SubSeq(unread, FrameSize(unread) + 1, Len(unread))
  /\ UNCHANGED cfg

\* Bytes that are not BOF cannot start a frame and may go along.
Discard ==
  /\ unread # <<>>
  /\ NoFrame(unread)
  /\ \E n \in 1 .. Len(unread) :
       /\ \A i \in 2 .. n : unread[i] # cfg.bof
       /\ unread' = SubSeq(unread, n + 1, Len(unread))
  /\ UNCHANGED <<cfg, delivered>>

\* Nothing is promised of the bytes searched before those that follow.
Stray ==
  /\ unread # <<>>
  /\ Head(unread) = cfg.bof
  /\ \/ /\ TooLong(unread)
        /\ IsSuffix(SubSeq(unread, HeaderSize + 1, Len(unread)), unread')
     \/ /\ FailsEmpty(unread)
        /\ IsSuffix(SubSeq(unread, FrameSize(unread) + 1, Len(unread)), unread')
  /\ unread' \in Seq(0 .. 255)
  /\ UNCHANGED <<cfg, delivered>>

Next == Receive \/ Deliver \/ Discard \/ Stray

Spec == Init /\ [][Next]_vars /\ WF_vars(Deliver \/ Discard)
=============================================================================

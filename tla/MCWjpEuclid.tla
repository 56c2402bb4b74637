---------------------------- MODULE MCWjpEuclid -----------------------------
(* Instances of WjpEuclid for TLC: few byte values, the BOF and the lengths  *)
(* among them, so that headers and payloads hold false BOFs.                 *)
EXTENDS WjpEuclid

Context(mrksz, lensz, crcsz, rxlen, limit) ==
  [bof |-> 3, mrksz |-> mrksz, lensz |-> lensz, crcsz |-> crcsz,
   rxlen |-> rxlen, limit |-> limit]

\* The format of the repository's own test; no mark and no checksum; payloads
\* of a fixed length.
MCFull == Context(1, 1, 1, 3, 3)
MCBare == Context(0, 1, 0, 3, 3)
MCFixed == Context(0, 0, 1, 3, 3)

\* The first packet of a push does not fit; the relock reads rxbuf, where an
\* earlier frame may have left a BOF, and beyond.
MCOverlong == Context(2, 1, 1, 3, 4)

\* Empty frames that fail.
MCZero == Context(1, 1, 1, 3, 4)

MCConfigs == {MCFull, MCBare, MCFixed, MCZero, MCOverlong}

MCNoise(c) == CASE c \in {MCFull, MCFixed} -> {1, 3}
                [] c = MCBare -> {0, 1, 3}
                [] c = MCZero -> {0, 3}
                [] OTHER -> {1}

MCFrames(c) ==
  CASE c = MCFull -> {<<<<1>>, <<1>>>>, <<<<3>>, <<3, 1, 3>>>>}
    [] c = MCBare -> {<<<<>>, <<1>>>>, <<<<>>, <<1, 3, 1>>>>}
    [] c = MCOverlong -> {<<<<1, 1>>, <<1>>>>, <<<<1, 1>>, <<3, 1, 1>>>>}
    [] OTHER -> {}

MCGarbage(c) == CASE c = MCOverlong -> {<<>>, <<3, 1, 1, 4>>}
                  [] OTHER -> {<<>>}

\* A checksum whose values are bytes that arrive as noise.
MCCheck(s) == IF FoldLeft(LAMBDA x, y : x + y, 0, s) % 2 = 0 THEN 1 ELSE 3
=============================================================================

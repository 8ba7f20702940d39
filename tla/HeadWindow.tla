------------------------------ MODULE HeadWindow ------------------------------
(***************************************************************************)
(* What a picture's first bytes say of it (whirl-worker/pipeline.rs:       *)
(* sniffed, head_window, store; sources/local.rs: header_of): `store` sees *)
(* the bytes of a stream in pieces of any size and keeps a head of them,   *)
(* `header_of` reads a file twice at most, and the two must agree.         *)
(*                                                                         *)
(* A picture is its format and where the parts of its header end; pixels,  *)
(* names and the numbers in the header are left out.                       *)
(***************************************************************************)
EXTENDS Naturals, Sequences, FiniteSetsExt

CONSTANTS Pictures,   \* the byte streams a transport may deliver
          Small,      \* HEAD_WINDOW, and HEAD_BYTES of local.rs
          Wide,       \* WIDE_WINDOW
          Chunks,     \* how many bytes one read returns
          MaxBytes    \* filters.max_bytes

\* kind: the format its first bytes name. parts: of a JPEG, its marker segments in order and
\* where they begin, "junk" where a byte that is no marker follows. meta: of a HEIC, where
\* `meta` ends (a box of size 0, which runs to the end of what was read, is left out).
LeastSize == [segment |-> 4, frame |-> 4, alone |-> 2, fill |-> 1, junk |-> 1]
Clears(p, q) == q.at >= p.at + LeastSize[p.what]
Shapes == {f \in [kind : {"png", "webp", "heic", "jpeg", "other"}, meta : Nat, length : Nat,
                  parts : Seq([what : DOMAIN LeastSize, at : Nat])] :
             \A i, j \in DOMAIN f.parts : i < j => Clears(f.parts[i], f.parts[j])}

ASSUME HeadAssumption ==
  /\ Pictures \subseteq Shapes /\ Chunks \subseteq Nat \ {0}
  /\ Small \in Nat \ {0} /\ Wide \in Nat /\ Small < Wide /\ MaxBytes \in Nat

VARIABLES picture, arrived, pending, head, window, verdict

headVars == <<picture, arrived, pending, head, window, verdict>>

NoPicture == [kind |-> "none"]
Verdicts == {"measured", "beyond_window", "not_an_image"}

-----------------------------------------------------------------------------
\* sniff_jpeg over the first n bytes: the walk stops at a part whose marker and length are
\* not all there, at a byte that is no marker, or at a frame header that is.
SniffJpeg(f, n) ==
  LET Cut(i) == f.parts[i].at + 3 >= n
      Frame(i) == f.parts[i].what = "frame" /\ f.parts[i].at + 9 < n
      stops == {i \in DOMAIN f.parts : Cut(i) \/ f.parts[i].what = "junk" \/ Frame(i)}
  IN  IF stops = {} \/ Cut(Min(stops)) THEN "beyond_window"
      ELSE IF f.parts[Min(stops)].what = "junk" THEN "not_an_image" ELSE "measured"

IsHeic(f, n) == f.kind = "heic" /\ n >= 16

\* sniff_heic: boxes() drops a box that runs past the bytes it is given, so `meta` is found
\* when all of it is there.
Sniffed(f, n) ==
  CASE f.kind = "jpeg" /\ n >= 4 -> SniffJpeg(f, n)
    [] \/ f.kind = "png" /\ n >= 24
       \/ f.kind = "webp" /\ n >= 30
       \/ IsHeic(f, n) /\ f.meta \in 1 .. n -> "measured"
    [] OTHER -> "not_an_image"

\* head_window
HeadWindowOf(f, n) ==
  IF n < Small THEN Small
  ELSE CASE Sniffed(f, n) = "measured" -> Small
         [] Sniffed(f, n) = "beyond_window" -> Wide
         [] OTHER -> IF IsHeic(f, n) THEN Wide ELSE Small

\* header_of, of the same bytes in a file: a small read, and a wider one when it is asked for.
HeaderOf(f) ==
  LET n == Min({f.length, Small})
      w == HeadWindowOf(f, n)
  IN  IF Sniffed(f, n) = "measured" \/ w <= Small THEN Sniffed(f, n)
      ELSE Sniffed(f, Min({f.length, w}))

-----------------------------------------------------------------------------
HeadInit ==
  /\ picture = NoPicture /\ arrived = 0 /\ pending = 0 /\ head = 0 /\ window = Small
  /\ verdict = "none"

OpenStream ==
  /\ picture = NoPicture /\ picture' \in Pictures
  /\ UNCHANGED <<arrived, pending, head, window, verdict>>

Reading == picture # NoPicture /\ verdict = "none"

\* One read of the transport; the cap is checked before anything is kept of it.
ReadChunk ==
  /\ Reading /\ pending = 0 /\ arrived < picture.length
  /\ \E n \in Chunks :
       LET read == Min({n, picture.length - arrived})
       IN  /\ arrived' = arrived + read
           /\ pending' = IF arrived' > MaxBytes THEN 0 ELSE read
           /\ verdict' = IF arrived' > MaxBytes THEN "too_large" ELSE verdict
  /\ UNCHANGED <<picture, head, window>>

\* Mutant: the window is asked for again, and the rest of the piece is not offered to it.
TakeHeadOnce ==
  /\ Reading /\ pending > 0 /\ head < window
  /\ LET take == Min({window - head, pending})
     IN  /\ head' = head + take /\ pending' = 0
         /\ window' = HeadWindowOf(picture, head + take)
  /\ UNCHANGED <<picture, arrived, verdict>>

\* The inner loop: the window is asked for again after each part of the piece it took.
TakeHead ==
  /\ Reading /\ pending > 0 /\ head < window
  /\ LET take == Min({window - head, pending})
     IN  /\ head' = head + take /\ pending' = pending - take
         /\ window' = HeadWindowOf(picture, head + take)
  /\ UNCHANGED <<picture, arrived, verdict>>

HeadIsFull ==
  /\ Reading /\ pending > 0 /\ head >= window /\ pending' = 0
  /\ UNCHANGED <<picture, arrived, head, window, verdict>>

\* The transport or the part file fails: nothing is kept.
StreamFails ==
  /\ Reading /\ verdict' \in {"offline", "cache_unwritable"}
  /\ UNCHANGED <<picture, arrived, pending, head, window>>

EndOfStream ==
  /\ Reading /\ pending = 0 /\ arrived = picture.length
  /\ verdict' = Sniffed(picture, head)
  /\ UNCHANGED <<picture, arrived, pending, head, window>>

HeadNext == OpenStream \/ ReadChunk \/ TakeHead \/ HeadIsFull \/ StreamFails \/ EndOfStream

HeadSpec == HeadInit /\ [][HeadNext]_headVars

-----------------------------------------------------------------------------
\* A download is judged by its bytes and not by how they came: whatever the pieces, `store`
\* says what `header_of` says of the same bytes in a file ("the tests check this verdict
\* against the one the download path reaches for the same bytes").
HeaderOfPieces == verdict \in Verdicts => verdict = HeaderOf(picture)

\* What it takes: sniff_jpeg has the numbers of a frame before it sees the marker after it.
\* A frame of length 4 or more does that; the code asks for 2.
FramesAreReadFirst ==
  \A f \in Pictures : \A i, j \in DOMAIN f.parts :
    i < j /\ f.parts[i].what = "frame" => f.parts[j].at >= f.parts[i].at + 6
=============================================================================

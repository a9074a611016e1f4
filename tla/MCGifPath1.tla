----------------------------- MODULE MCGifPath1 -----------------------------
(* GifPath1 on a buffer that a program or two fill. *)
EXTENDS GifPath1

\* Two quadwords in one piece, and in two because they wrap around VU memory.
MCKicks == {<<2, 0>>, <<1, 1>>}
=============================================================================

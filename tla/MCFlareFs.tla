----------------------------- MODULE MCFlareFs -----------------------------
(* Small instances of FlareFs for TLC. *)
EXTENDS FlareFs, TLC

CONSTANTS a, b, bad

\* Sectors have two bytes here: a text in one sector and one that takes two, padded.
MCTexts == {<<1>>, <<2, 2, 1>>}
\* One and two sectors of one byte.
MCOneOrTwo == {<<1>>, <<1, 1>>}
\* The empty file still takes a sector.
MCEmptyOrLong == {<<>>, <<2, 2, 1>>}
MCNoSource == <<>>
MCSourceNames == <<a>>
MCSourceData == <<<<1, 2>>>>

\* Names are interchangeable when the media holds no files.
NameSymmetry == Permutations({a, b})

\* The properties of the run with failing writes say nothing after a stale mount.
NotStale == ~stale
=============================================================================

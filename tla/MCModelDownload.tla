-------------------------- MODULE MCModelDownload --------------------------
(* Small values for ModelDownload. *)
EXTENDS ModelDownload, TLC

CONSTANTS p1, p2, i1, i2, i3, i4, magic, weights, junk

ProcessSet == {p1, p2}
InodeSet == {i1, i2, i3, i4}
ThreeChunks == <<magic, weights, weights>>
\* The model, a body that ends early, a page that is no model, another model.
EveryBody == {ThreeChunks, <<magic>>, <<junk>>, <<magic, junk, junk>>}
MCBuiltIn == {Definition("other", NoChecksum, 1), Definition("model", NoChecksum, 3)}
\* No file; a size of the user's own, with no checksum; the right checksum; one
\* that no download has, and another model's entry.
MCRegistries ==
  { << >>, <<Definition("model", NoChecksum, 1)>>,
    <<Definition("model", <<junk>>, 1), Definition("model", ThreeChunks, 3)>>,
    <<Definition("model", <<junk, junk>>, 3), Definition("custom", NoChecksum, 1)>> }
Symmetry == Permutations(ProcessSet) \cup Permutations(InodeSet)
=============================================================================

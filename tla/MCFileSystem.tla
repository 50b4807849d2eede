---------------------------- MODULE MCFileSystem ----------------------------
(* Instances of FileSystem for TLC.  "o" is the byte of a zeroed block.     *)
EXTENDS FileSystem, TLC

NameSymmetry == Permutations(Names)

\* contents play no part: what is written is what is there
ZeroPair == {<<"o">>, <<"o", "o">>}
OneBuffer == {<<"x">>}
\* contents that tell writers and positions apart
TwoLetters == {<<"x">>, <<"y">>}
=============================================================================

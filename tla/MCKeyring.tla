----------------------------- MODULE MCKeyring -----------------------------
(***************************************************************************)
(* Two generations of keys, a rotation that keeps the first key, and two   *)
(* tokens checked at once while they expire.                               *)
(***************************************************************************)
EXTENDS Keyring, TLC

CONSTANTS k1, k2, c1, c2

Rotations == {<<KeyFile>>, <<KeyFile, k1>>}

EitherCheck == Permutations({c1, c2})
=============================================================================

---------------------------- MODULE MCFileStore -----------------------------
(* An instance of FileStore for TLC: an object, a key whose second        *)
(* segment would vanish, payloads of one and two chunks.                    *)
EXTENDS FileStore, TLC

MCKey == {<<"a", "x">>, <<"a", ".", "x">>}
MCContent == {<<1>>, <<2, 3>>}
CallerSymmetry == Permutations(Caller)
=============================================================================

-------------------------- MODULE MCCredentialFile --------------------------
(* Instances of CredentialFile for TLC.                                    *)
EXTENDS CredentialFile, TLC

Symmetry == Permutations(Writers) \union Permutations(Readers)
=============================================================================

-------------------------- MODULE MCEntityRegistry --------------------------
(* Two instruments, which may both change their names and their codes.        *)
EXTENDS EntityRegistry, TLC

CONSTANTS i1, i2, codeA, codeB, codeC, name1, name2, name3

TwoCodes == i1 :> codeA @@ i2 :> codeB
TwoNames == i1 :> name1 @@ i2 :> name1
Interchangeable == Permutations({name2, name3})
=============================================================================

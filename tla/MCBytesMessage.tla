--------------------------- MODULE MCBytesMessage ---------------------------
(* A small instance of BytesMessage.                                       *)
EXTENDS BytesMessage

Symmetry == Permutations(Objects)

=============================================================================

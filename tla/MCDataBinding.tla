--------------------------- MODULE MCDataBinding ---------------------------
(* Instances of DataBinding for TLC: bytes of one bit.                     *)
EXTENDS DataBinding, SequencesExt

CONSTANT MaxLength

AllUserData == BoundedSeq(Byte, MaxLength)
AllNonces == [1..NonceLength -> Byte]
=============================================================================

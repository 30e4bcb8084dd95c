----------------------------- MODULE MCOscArena -----------------------------
(* A five-bit size_t, four-byte alignment, and blocks whose header takes    *)
(* four bytes of pages of eight.  The sizes reach both overflow guards.     *)
EXTENDS OscArena

MCInitSizes == {3, 8}
MCSizes == {0, 1, 4, 9, 19, 24, 28, 29, 31}
=============================================================================

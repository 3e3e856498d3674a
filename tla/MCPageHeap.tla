----------------------------- MODULE MCPageHeap -----------------------------
(* A small instance of PageHeap for TLC, with the page size and alignment of *)
(* the program as built (SMALLHEAP, 64-bit).                                 *)
EXTENDS PageHeap

\* Two objects of 4070 bytes, rounded up to 4080, fit on a page, 8000 bytes fit
\* alone, 8168 bytes are within SMALL_OBJECT_LIMIT and 8169 are not.
MCRequest == {4070, 8000, 8168, 8169}

\* &gamma as newstate sets it (10.0), as a percentage (150), and not a number.
MCGamma == {1000, 15000, NotANumber}

=============================================================================

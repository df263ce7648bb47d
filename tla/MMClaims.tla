------------------------------ MODULE MMClaims ------------------------------
(***************************************************************************)
(* Statements about mm.c made by its own comments, or by the way mdriver.c *)
(* uses it, that the code does not keep.                                   *)
(***************************************************************************)
EXTENDS MM

\* mm_realloc returns NULL when there is no memory, as mdriver.c tests ("if
\* ((newp = mm_realloc(oldp, size)) == NULL)").
ReallocReturns == [][pc = "find_fit" => pc' # "crashed"]_vars

\* mm_realloc reads the data of the old block and nothing beyond it: "copy
\* the data from old to new block".
CopyStaysInBlock ==
  pc = "find_fit" /\ req.ptr # NULL =>
    CopyLen(mem, req.ptr, req.size) <= SizeAt(mem, req.ptr - DSIZE) - 4 * WSIZE
=============================================================================

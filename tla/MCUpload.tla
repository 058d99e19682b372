------------------------------ MODULE MCUpload ------------------------------
(* An image of a page, in two blocks.  The end of the first, read as a command,
   starts the user's code.  The second one, read as commands after a reset, is a
   greeting and the start of a WRITE to the last word below the loader. *)
EXTENDS Upload

MCImage == <<1, 2, 3, 4, 5, 6, 33, 222, 127, 49, 206, 8, 0, 0, 252, 12>>
MCOld == <<9, 9, 9, 9>>
MCLoaderVec == <<1, 0, 1, 8>>

ASSUME MCFits == Fits
=============================================================================

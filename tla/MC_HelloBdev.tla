---------------------------- MODULE MC_HelloBdev ----------------------------
(***************************************************************************)
(* Model-checking instance of HelloBdev.  Sizes are in units where         *)
(* BuffSize (MAX_BLOCK_SIZE) is 2: input files of 0 bytes, of a part of a  *)
(* chunk, of whole chunks and of more chunks than the bdev_io pool holds.  *)
(***************************************************************************)
EXTENDS HelloBdev

MC_BuffSize == 2
MC_FileSizes == {0, 3, 4, 5, 6}
MC_PoolSize == 2
\* Only an empty input_file.
MC_EmptyFile == {0}

=============================================================================

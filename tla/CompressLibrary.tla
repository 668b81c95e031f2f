---------------------------- MODULE CompressLibrary ----------------------------
(***************************************************************************)
(* The API compression_local_core.h exports: doca_compress_init,          *)
(* doca_compress (file_compressor: input.txt -> input-comp.txt in zlib),  *)
(* doca_decompress (file_decompressor: input-comp.txt ->                   *)
(* input-decomp.txt on the device, checked against the checksum           *)
(* doca_compress returned) and doca_compress_cleanup.  Both readers use   *)
(* read_local_file_mmap, and both ignore what it and write_local_file     *)
(* return.  doca_compress and doca_decompress clean the context up        *)
(* themselves when they fail.                                              *)
(*                                                                         *)
(* The callers are those of compression_local_main.c, file_compress and   *)
(* file_decompress, run one after the other.  Library calls, failures and *)
(* data labels are those of CompressPassthru, whose operators this module *)
(* instantiates.                                                           *)
(***************************************************************************)
EXTENDS Naturals

\* Contents input.txt may have: "none" (missing) or "good".
CONSTANT Inputs

VARIABLE s

P == INSTANCE CompressPassthru

(***************************************************************************)
(* The record s has the fields of CompressPassthru that its operators     *)
(* use (ctx, core, heap, cf, df, the files, the history flags) and:       *)
(* s.pc  the next call of file_compress ("comp_init", "compress",        *)
(*       "comp_cleanup") or file_decompress ("decomp_init", "decompress", *)
(*       "decomp_cleanup"), or "done";                                    *)
(* s.maps  input files mmapped and never unmapped;                        *)
(* s.exit  "ABORT" once a double free ended the process.                  *)
(***************************************************************************)
TypeOK ==
  /\ s.pc \in {"comp_init", "compress", "comp_cleanup", "decomp_init",
               "decompress", "decomp_cleanup", "done"}
  /\ s.ctx \in {"none", "live", "freed"} /\ s.core \in {"none", "live"}
  /\ s.heap \in [P!Bufs -> {"none", "live", "freed"}]
  /\ s.cf \in P!Bufs \cup {P!NULL} /\ s.df \in P!Bufs \cup {P!NULL}
  /\ s.original_checksum \in P!Data
  /\ s.input \in Inputs /\ s.comp \in P!Files /\ s.decomp \in P!Files
  /\ s.maps \in 0 .. 2
  /\ s.exit \in {"none", "ABORT"}
  /\ s.written \in P!Data
  /\ {s.double_free, s.invalid_free, s.bad_destroy} \subseteq BOOLEAN

(***************************************************************************)
(* read_local_file_mmap of a file f.  r names the check that fails:       *)
(* "open", "fstat", "size" (zero bytes or over MAX_FILE_SIZE), "mmap", or *)
(* "ok".  On failure *file_data keeps the caller's NULL and *file_len is  *)
(* not set.  The mapping and the fd are never released.                   *)
(***************************************************************************)
MmapOutcomes == {"open", "fstat", "size", "mmap", "ok"}

InputFile(st) == [data |-> st.input, tail |-> FALSE]

MmapPossible(f, r) ==
  /\ f.data = "none" <=> r = "open"
  /\ r = "size" => f.data = "stale"    \* only a leftover file may be empty

read_local_file_mmap(st, f, r) ==
  IF r = "ok" THEN [st |-> [st EXCEPT !.maps = @ + 1], data |-> f.data]
  ELSE [st |-> st, data |-> "null"]

(***************************************************************************)
(* file_compressor (lines 562-590).  A failed read leaves file_data NULL   *)
(* and file_len uninitialised (zlen: it happens to be 0).  compress_file   *)
(* in zlib; on failure compressed_file is freed, on success it is written  *)
(* to input-comp.txt and never freed, whatever write_local_file returns.  *)
(***************************************************************************)
file_compressor(st, r, zlen, alloc, w) ==
  LET rd == read_local_file_mmap(st, InputFile(st), r)
      cr == P!compress_file(rd.st, "comp", TRUE, "SW", rd.data, alloc, "ok", "ok", FALSE, zlen)
  IN  IF ~cr.ok
      THEN [st |-> P!free_ptr(cr.st, cr.st.cf), ok |-> FALSE, chksum |-> cr.chksum]
      ELSE [st |-> P!write_local_file(cr.st, "comp", cr.st.cf, cr.chksum, w),
            ok |-> TRUE, chksum |-> cr.chksum]

\* Mutant: the device result is written without the checksum comparison.
file_decompressor_unchecked(st, r, alloc, step, sw, abort, w) ==
  LET rd == read_local_file_mmap(st, st.comp, r)
      cr == P!compress_file(rd.st, "dec", FALSE, "HW", rd.data, alloc, step, sw, abort, FALSE)
      st1 == [cr.st EXCEPT !.df = cr.st.cf]
  IN  CASE ~cr.ok    -> [st |-> P!free_ptr(st1, st1.df), ok |-> FALSE, abort |-> FALSE]
        [] cr.abort  -> [st |-> st1, ok |-> FALSE, abort |-> TRUE]
        [] OTHER     -> [st |-> P!free_ptr([P!write_local_file(st1, "decomp", st1.df, cr.chksum, w)
                                             EXCEPT !.written = cr.chksum], st1.df),
                         ok |-> TRUE, abort |-> FALSE]

(***************************************************************************)
(* file_decompressor (lines 596-637).  compressed_file starts NULL, so a   *)
(* failed read hands the device a NULL source.  On a failed job or a       *)
(* checksum that differs from original_checksum the result is freed and    *)
(* the error returned; otherwise it is written to input-decomp.txt and    *)
(* freed (line 633), also when write_local_file has already freed it.     *)
(***************************************************************************)
file_decompressor(st, r, alloc, step, sw, abort, w) ==
  LET rd == read_local_file_mmap(st, st.comp, r)
      cr == P!compress_file(rd.st, "dec", FALSE, "HW", rd.data, alloc, step, sw, abort, FALSE)
      st1 == [cr.st EXCEPT !.df = cr.st.cf]
  IN  CASE ~cr.ok    -> [st |-> P!free_ptr(st1, st1.df), ok |-> FALSE, abort |-> FALSE]
        [] cr.abort  -> [st |-> st1, ok |-> FALSE, abort |-> TRUE]
        [] cr.chksum # st.original_checksum ->
                        [st |-> P!free_ptr(st1, st1.df), ok |-> FALSE, abort |-> FALSE]
        [] OTHER     -> [st |-> P!free_ptr([P!write_local_file(st1, "decomp", st1.df, cr.chksum, w)
                                             EXCEPT !.written = cr.chksum], st1.df),
                         ok |-> TRUE, abort |-> FALSE]

\* doca_compress (lines 733-751): file_compressor, with the caller's
\* checksum as its output; on failure file_compression_cleanup.  The
\* EXIT_ code it returns is ignored by its caller.
doca_compress(st, r, zlen, alloc, w) ==
  LET fc == file_compressor(st, r, zlen, alloc, w)
  IN  IF fc.ok THEN [fc.st EXCEPT !.original_checksum = fc.chksum]
      ELSE [P!file_compression_cleanup(fc.st) EXCEPT !.original_checksum = fc.chksum]

\* doca_decompress (lines 753-771): file_decompressor; on failure
\* file_compression_cleanup.  abort: the double free ended the process.
doca_decompress(st, r, alloc, step, sw, abort, w) ==
  LET fd == file_decompressor(st, r, alloc, step, sw, abort, w)
  IN  CASE fd.ok    -> [st |-> fd.st, abort |-> FALSE]
        [] fd.abort -> [st |-> fd.st, abort |-> TRUE]
        [] OTHER    -> [st |-> P!file_compression_cleanup(fd.st), abort |-> FALSE]

(***************************************************************************)
(* The repository's callers of the API, compression_local_main.c lines    *)
(* 14-29: file_compress runs doca_compress_init, doca_compress and         *)
(* doca_compress_cleanup; file_decompress runs doca_compress_init,         *)
(* doca_decompress and doca_compress_cleanup.  Neither looks at a result,  *)
(* and they share the globals state, compress_ctx and checksum.  They are  *)
(* run in that order: file_decompress reads the checksum file_compress     *)
(* left.  Each call of the API is one step; s.pc names the next one.       *)
(***************************************************************************)
\* doca_compress_init (lines 707-724), result ignored: a failing log
\* backend or file_compression_init, which destroys what it created.
InitCall(next) ==
  \E lg \in BOOLEAN, i \in P!InitOutcomes :
    /\ ~lg => i = "ok"
    /\ s' = [P!doca_compress_init(s, lg, i) EXCEPT !.pc = next]

\* doca_compress_cleanup (lines 726-731), whatever came before.
CleanupCall(next) == s' = [P!doca_compress_cleanup(s) EXCEPT !.pc = next]

\* file_compress, line 21.
CompressCall ==
  \E r \in MmapOutcomes, zlen, alloc \in BOOLEAN, w \in P!WriteOutcomes :
    /\ MmapPossible(InputFile(s), r)
    /\ zlen => r # "ok"
    /\ s' = [doca_compress(s, r, zlen, alloc, w) EXCEPT !.pc = "comp_cleanup"]

\* file_decompress, line 27.  On a failed mmap, or with the core objects
\* destroyed, the first device call fails (CompressPassthru!HwStepPossible).
DecompressCall ==
  \E r \in MmapOutcomes, alloc \in BOOLEAN, step \in P!HwSteps,
     sw \in P!WriteOutcomes, abort \in BOOLEAN, w \in P!WriteOutcomes :
    /\ MmapPossible(s.comp, r)
    /\ P!HwStepPossible(s, "HW", IF r = "ok" THEN s.comp.data ELSE "null", step)
    /\ step # "ok" => sw = "ok"
    /\ sw = "ok" => ~abort
    /\ LET d == doca_decompress(s, r, alloc, step, sw, abort, w)
       IN  s' = IF d.abort THEN [d.st EXCEPT !.pc = "done", !.exit = "ABORT"]
                ELSE [d.st EXCEPT !.pc = "decomp_cleanup"]

\* The globals start zeroed; input.txt may be missing and the output files
\* may be left by an earlier run.
Init ==
  \E in \in Inputs, comp, decomp \in P!LeftOver :
    s = [pc |-> "comp_init", ctx |-> "none", core |-> "none",
         heap |-> [b \in P!Bufs |-> "none"], cf |-> P!NULL, df |-> P!NULL,
         original_checksum |-> "none", input |-> in, comp |-> comp,
         decomp |-> decomp, maps |-> 0, exit |-> "none", written |-> "none",
         double_free |-> FALSE, invalid_free |-> FALSE, bad_destroy |-> FALSE]

Next ==
  \/ s.pc = "comp_init"      /\ InitCall("compress")
  \/ s.pc = "compress"       /\ CompressCall
  \/ s.pc = "comp_cleanup"   /\ CleanupCall("decomp_init")
  \/ s.pc = "decomp_init"    /\ InitCall("decompress")
  \/ s.pc = "decompress"     /\ DecompressCall
  \/ s.pc = "decomp_cleanup" /\ CleanupCall("done")

Spec == Init /\ [][Next]_s

(***************************************************************************)
(* Properties.                                                             *)
(***************************************************************************)

\* When file_decompress returns, the context and the core objects are
\* destroyed, and no context was destroyed twice: the library's own
\* clean-up on a failing doca_compress or doca_decompress (lines 744, 764)
\* and the callers' doca_compress_cleanup (main.c lines 22, 28) must not
\* both destroy the same context.
ContextReleasedOnce ==
  s.pc = "done" /\ s.exit # "ABORT" =>
    /\ s.ctx # "live" /\ s.core = "none"
    /\ ~s.bad_destroy

\* input-decomp.txt is never written with a leftover input-comp.txt or a
\* broken one: file_compressor ignores a failed write (line 587) and
\* doca_compress still succeeds, and only the checksum comparison of
\* file_decompressor (line 620) keeps that file out.
NoForeignOutput == s.written \notin {"stale", "noise"}

\* No buffer is freed twice (file_decompressor line 633 after a failed
\* write_local_file).
NoDoubleFree == ~s.double_free

\* input-decomp.txt is written only when input.txt was there to compress
\* (file_compressor ignores read_local_file_mmap, line 572).
SuccessMeansInputCompressed == s.written # "none" => s.input = "good"
====

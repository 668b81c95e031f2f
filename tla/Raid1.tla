------------------------------- MODULE Raid1 -------------------------------
(***************************************************************************)
(* The I/O path of the RAID-1 module (src/raid/raid1.c) on one raid I/O    *)
(* channel, i.e. on one SPDK thread.  Every handler below runs to the end  *)
(* without interruption (the reactor is single-threaded); sub-I/O          *)
(* completions are delivered later, as separate steps, in any order.       *)
(*                                                                         *)
(* Read router : raid1_submit_read_request + next_read_base_bdev           *)
(* Write fan-out: raid1_submit_write_request                               *)
(* Aggregator  : raid_bdev_io_complete_part / raid_bdev_io_complete        *)
(*               (bdev_raid.c, not in this repository: from the spec 4.3)  *)
(* Backpressure: -ENOMEM -> raid_bdev_queue_io_wait -> continuation        *)
(* Mirror loss : the framework clears base_channel[i] (spec 3, 6)          *)
(***************************************************************************)
EXTENDS Integers, FiniteSets, FiniteSetsExt

CONSTANTS
  NumBaseBdevs,     \* raid_bdev->num_base_bdevs (slots 0 .. N-1)
  Requests,         \* raid_io contexts of this channel (model values)
  ReadBlocks,       \* possible num_blocks of a read
  MaxNoMem,         \* bound: -ENOMEM answers one request may receive
  MinOperational,   \* base_bdevs_constraint: CONSTRAINT_MIN_BASE_BDEVS_OPERATIONAL
  UINT64_MAX,       \* initial read_blocks_min; above every reachable counter
  UINT8_MAX         \* the "no base bdev" index

ASSUME NumBaseBdevs \in Nat \ {0}
ASSUME MaxNoMem \in Nat /\ MinOperational \in Nat
ASSUME ReadBlocks \subseteq Nat \ {0}
ASSUME UINT8_MAX \notin 0 .. NumBaseBdevs - 1

Slots == 0 .. NumBaseBdevs - 1

VARIABLES
  base_channel,             \* raid_ch->base_channel[i] # NULL
  read_blocks_outstanding,  \* raid1_io_channel counters, per slot
  raid_io,                  \* per-request context, see RaidIo below
  inflight                  \* base-bdev I/Os submitted, not yet completed: <<r, slot>>

vars == <<base_channel, read_blocks_outstanding, raid_io, inflight>>

(***************************************************************************)
(* raid_io[r] holds the fields of struct raid_bdev_io the module uses:     *)
(* remaining = base_bdev_io_remaining, submitted = base_bdev_io_submitted, *)
(* status = base_bdev_io_status.  phase says where the request is:         *)
(* "new" (not yet handed to the module), "queued" (an io_wait continuation *)
(* is registered), "active" (handler returned, sub-I/Os outstanding),      *)
(* "done" (raid_bdev_io_complete called).  The history fields ncomplete,   *)
(* result, issued, failed and nomem observe the request; the code has no  *)
(* counterpart to them.                                                    *)
(***************************************************************************)
Status == {"SUCCESS", "FAILED"}

NewIo(t, b) ==
  [type |-> t, blocks |-> b, phase |-> "new",
   remaining |-> 0, submitted |-> 0, status |-> "SUCCESS",
   ncomplete |-> 0, result |-> "SUCCESS",
   issued |-> [i \in Slots |-> 0], failed |-> FALSE, nomem |-> 0]

\* A request the bdev layer can hand to the module.  The payload of a
\* write does not matter to the module; only a read's length does.
FreshIos == {NewIo("READ", b) : b \in ReadBlocks} \cup {NewIo("WRITE", 1)}

TypeOK ==
  /\ base_channel \in [Slots -> BOOLEAN]
  /\ read_blocks_outstanding \in [Slots -> Nat]
  /\ inflight \subseteq Requests \X Slots
  /\ \A r \in Requests :
       /\ raid_io[r].type \in {"READ", "WRITE"}
       /\ raid_io[r].phase \in {"new", "queued", "active", "done"}
       /\ raid_io[r].remaining \in Int
       /\ raid_io[r].submitted \in Nat
       /\ raid_io[r].status \in Status /\ raid_io[r].result \in Status
       /\ raid_io[r].issued \in [Slots -> Nat]
       /\ raid_io[r].nomem \in 0 .. MaxNoMem

Present == {i \in Slots : base_channel[i]}

raid1_channel_inc_read_counters(idx, num_blocks) ==
  read_blocks_outstanding' = [read_blocks_outstanding EXCEPT ![idx] = @ + num_blocks]

\* Mutant: the counter is decremented once per I/O instead of per block.
raid1_channel_dec_read_counters_per_io(idx, num_blocks) ==
  read_blocks_outstanding' = [read_blocks_outstanding EXCEPT ![idx] = @ - 1]

raid1_channel_dec_read_counters(idx, num_blocks) ==
  read_blocks_outstanding' = [read_blocks_outstanding EXCEPT ![idx] = @ - num_blocks]

(***************************************************************************)
(* The aggregator of bdev_raid.c (spec 4.3).  complete_part subtracts n    *)
(* from remaining (an unsigned counter: the assert remaining >= n is the   *)
(* invariant NoCreditUnderflow below), latches a failure and completes the *)
(* request when remaining reaches 0.                                       *)
(***************************************************************************)
raid_bdev_io_complete(io, st) ==
  [io EXCEPT !.phase = "done", !.ncomplete = @ + 1,
             !.result = IF io.ncomplete = 0 THEN st ELSE @]

raid_bdev_io_complete_part(io, n, st) ==
  LET io1 == [io EXCEPT !.remaining = @ - n,
                        !.status = IF st = "FAILED" THEN "FAILED" ELSE @]
  IN  IF io1.remaining = 0 THEN raid_bdev_io_complete(io1, io1.status) ELSE io1

(***************************************************************************)
(* raid1_channel_next_read_base_bdev: scan the slots in index order and    *)
(* keep the first present slot whose counter is strictly below the least   *)
(* seen so far.                                                            *)
(***************************************************************************)
RECURSIVE ScanReadBaseBdev_le(_, _, _), ScanReadBaseBdev(_, _, _)
\* Mutant: <= instead of <, so the last of equally loaded slots wins.
ScanReadBaseBdev_le(i, read_blocks_min, idx) ==
  IF i = NumBaseBdevs THEN idx
  ELSE IF base_channel[i] /\ read_blocks_outstanding[i] <= read_blocks_min
       THEN ScanReadBaseBdev_le(i + 1, read_blocks_outstanding[i], i)
       ELSE ScanReadBaseBdev_le(i + 1, read_blocks_min, idx)

ScanReadBaseBdev(i, read_blocks_min, idx) ==
  IF i = NumBaseBdevs THEN idx
  ELSE IF base_channel[i] /\ read_blocks_outstanding[i] < read_blocks_min
       THEN ScanReadBaseBdev(i + 1, read_blocks_outstanding[i], i)
       ELSE ScanReadBaseBdev(i + 1, read_blocks_min, idx)

raid1_channel_next_read_base_bdev == ScanReadBaseBdev(0, UINT64_MAX, UINT8_MAX)

\* What a submission call (readv/writev_blocks_ext) can return.
SubmitResults(io) ==
  IF io.nomem < MaxNoMem THEN {"ok", "nomem", "err"} ELSE {"ok", "err"}

(***************************************************************************)
(* raid1_submit_read_request, with the failure handling of its caller      *)
(* raid1_submit_rw_request (a non-zero return completes the request as     *)
(* FAILED).                                                                *)
(***************************************************************************)
raid1_submit_read_request(r) ==
  LET io  == raid_io[r]
      idx == raid1_channel_next_read_base_bdev
      io1 == [io EXCEPT !.remaining = 1]
  IN  IF idx = UINT8_MAX
      THEN /\ raid_io' = [raid_io EXCEPT ![r] =
                            raid_bdev_io_complete([io EXCEPT !.failed = TRUE], "FAILED")]
           /\ UNCHANGED <<read_blocks_outstanding, inflight>>
      ELSE \E ret \in SubmitResults(io) :
           \/ /\ ret = "ok"
              /\ raid1_channel_inc_read_counters(idx, io.blocks)
              /\ inflight' = inflight \cup {<<r, idx>>}
              /\ raid_io' = [raid_io EXCEPT ![r] =
                   [io1 EXCEPT !.submitted = idx, !.phase = "active",
                               !.issued[idx] = @ + 1]]
           \/ /\ ret = "nomem"
              /\ raid_io' = [raid_io EXCEPT ![r] =
                   [io1 EXCEPT !.phase = "queued", !.nomem = @ + 1]]
              /\ UNCHANGED <<read_blocks_outstanding, inflight>>
           \/ /\ ret = "err"
              /\ raid_io' = [raid_io EXCEPT ![r] =
                   raid_bdev_io_complete([io1 EXCEPT !.failed = TRUE], "FAILED")]
              /\ UNCHANGED <<read_blocks_outstanding, inflight>>

(***************************************************************************)
(* raid1_submit_write_request.  The loop runs from slot `submitted` up:    *)
(* an absent slot is skipped with a success credit, a present one gets     *)
(* writev.  The loop stops at the first present slot whose writev fails   *)
(* (`stop`), or at N.  res[i] is what writev returns for slot i.  The     *)
(* absent-slot credits are one credit each in the code; they are applied   *)
(* here as one credit of their number (submissions in between do not touch *)
(* remaining, completions only arrive after the handler returns).          *)
(***************************************************************************)

\* Mutant: remaining is re-armed on every entry, retries included.
raid1_write_remaining_rearmed(io) == [io EXCEPT !.remaining = NumBaseBdevs]

\* remaining is armed only on the first entry (nothing submitted yet).
raid1_write_remaining_init(io) ==
  IF io.submitted = 0 THEN [io EXCEPT !.remaining = NumBaseBdevs] ELSE io

\* Mutant: base_bdev_io_submitted is advanced for skipped slots only.
raid1_write_submitted_skips_only(io, stop, skipped) ==
  io.submitted + Cardinality(skipped)

\* base_bdev_io_submitted after the loop: advanced for every slot passed,
\* skipped (line 181) or submitted (line 204).
raid1_write_submitted_after(io, stop, skipped) == stop

\* Mutant: the slot whose writev failed is not counted as not submitted.
base_bdev_io_not_submitted_off_by_one(io) == NumBaseBdevs - io.submitted - 1

base_bdev_io_not_submitted(io) == NumBaseBdevs - io.submitted

\* After the handler returns: a request not yet completed waits for its
\* sub-I/O completions.
Returned(io) == IF io.phase = "done" THEN io ELSE [io EXCEPT !.phase = "active"]

raid1_submit_write_request(r) ==
  LET io  == raid_io[r]
      io0 == raid1_write_remaining_init(io)
  IN \E res \in [Slots -> SubmitResults(io)] :
     LET Stops   == {i \in io.submitted .. NumBaseBdevs - 1 :
                       base_channel[i] /\ res[i] # "ok"}
         stop    == IF Stops = {} THEN NumBaseBdevs ELSE Min(Stops)
         passed  == io.submitted .. stop - 1
         skipped == {i \in passed : ~base_channel[i]}
         sent    == passed \ skipped
         io1     == [(IF skipped = {} THEN io0
                      ELSE raid_bdev_io_complete_part(io0, Cardinality(skipped), "SUCCESS"))
                     EXCEPT !.submitted = raid1_write_submitted_after(io, stop, skipped),
                            !.issued = [i \in Slots |->
                                          IF i \in sent THEN @[i] + 1 ELSE @[i]]]
         after   ==
           CASE stop = NumBaseBdevs ->
                  IF io1.submitted = 0        \* -ENODEV
                  THEN raid_bdev_io_complete(io1, "FAILED")
                  ELSE Returned(io1)
             [] res[stop] = "nomem" ->
                  [io1 EXCEPT !.phase = "queued", !.nomem = @ + 1]
             [] OTHER ->
                  Returned(raid_bdev_io_complete_part([io1 EXCEPT !.failed = TRUE],
                                                      base_bdev_io_not_submitted(io1),
                                                      "FAILED"))
     IN /\ inflight' = inflight \cup {<<r, i>> : i \in sent}
        /\ raid_io' = [raid_io EXCEPT ![r] = after]
        /\ UNCHANGED read_blocks_outstanding

\* raid1_submit_rw_request: dispatch on the I/O type.
raid1_submit_rw_request(r) ==
  /\ \/ raid_io[r].type = "READ" /\ raid1_submit_read_request(r)
     \/ raid_io[r].type = "WRITE" /\ raid1_submit_write_request(r)
  /\ UNCHANGED base_channel

\* The bdev layer hands a new request to the module.
SubmitRequest(r) ==
  /\ raid_io[r].phase = "new"
  /\ raid1_submit_rw_request(r)

\* _raid1_submit_rw_request: the io_wait continuation fires once.
Retry(r) ==
  /\ raid_io[r].phase = "queued"
  /\ raid1_submit_rw_request(r)

\* Mutant: the sub-I/O's outcome is dropped and every completion credits
\* SUCCESS.
raid1_bdev_io_completion_ignores_status(io, success) ==
  raid_bdev_io_complete_part([io EXCEPT !.failed = @ \/ ~success], 1, "SUCCESS")

\* raid1_bdev_io_completion: credit one unit with the sub-I/O's outcome.
raid1_bdev_io_completion(io, success) ==
  raid_bdev_io_complete_part([io EXCEPT !.failed = @ \/ ~success], 1,
                             IF success THEN "SUCCESS" ELSE "FAILED")

\* Mutant: the counter decremented is the one the router would pick now,
\* not the one the read went to.
raid1_read_bdev_io_completion_rerouted(r, i, success) ==
  /\ <<r, i>> \in inflight
  /\ raid_io[r].type = "READ"
  /\ raid1_channel_dec_read_counters(raid1_channel_next_read_base_bdev, raid_io[r].blocks)
  /\ inflight' = inflight \ {<<r, i>>}
  /\ raid_io' = [raid_io EXCEPT ![r] = raid1_bdev_io_completion(@, success)]
  /\ UNCHANGED base_channel

\* raid1_read_bdev_io_completion: the counter is decremented at the
\* index saved in base_bdev_io_submitted.
raid1_read_bdev_io_completion(r, i, success) ==
  /\ <<r, i>> \in inflight
  /\ raid_io[r].type = "READ"
  /\ raid1_channel_dec_read_counters(raid_io[r].submitted, raid_io[r].blocks)
  /\ inflight' = inflight \ {<<r, i>>}
  /\ raid_io' = [raid_io EXCEPT ![r] = raid1_bdev_io_completion(@, success)]
  /\ UNCHANGED base_channel

raid1_write_bdev_io_completion(r, i, success) ==
  /\ <<r, i>> \in inflight
  /\ raid_io[r].type = "WRITE"
  /\ inflight' = inflight \ {<<r, i>>}
  /\ raid_io' = [raid_io EXCEPT ![r] = raid1_bdev_io_completion(@, success)]
  /\ UNCHANGED <<base_channel, read_blocks_outstanding>>

(***************************************************************************)
(* Framework steps.  A base bdev is removed from the channel unless that   *)
(* would leave fewer than MinOperational (then the framework deconfigures  *)
(* the whole array instead).  In-flight I/O to it still completes.  A      *)
(* completed request is freed and its context reused for a new one.       *)
(***************************************************************************)
RemoveBaseBdev(i) ==
  /\ base_channel[i]
  /\ Cardinality(Present) > MinOperational
  /\ base_channel' = [base_channel EXCEPT ![i] = FALSE]
  /\ UNCHANGED <<read_blocks_outstanding, raid_io, inflight>>

ReuseIo(r) ==
  /\ raid_io[r].phase = "done"
  /\ \A i \in Slots : <<r, i>> \notin inflight
  /\ \E io \in FreshIos : raid_io' = [raid_io EXCEPT ![r] = io]
  /\ UNCHANGED <<base_channel, read_blocks_outstanding, inflight>>

Init ==
  /\ base_channel \in [Slots -> BOOLEAN]
  /\ Cardinality(Present) >= MinOperational
  /\ read_blocks_outstanding = [i \in Slots |-> 0]
  /\ raid_io \in [Requests -> FreshIos]
  /\ inflight = {}

Next ==
  \/ \E r \in Requests : SubmitRequest(r) \/ Retry(r) \/ ReuseIo(r)
  \/ \E r \in Requests, i \in Slots, s \in BOOLEAN :
       \/ raid1_read_bdev_io_completion(r, i, s)
       \/ raid1_write_bdev_io_completion(r, i, s)
  \/ \E i \in Slots : RemoveBaseBdev(i)

(***************************************************************************)
(* Fairness: the bdev layer submits what it was given, fires every         *)
(* registered io_wait continuation once (spec 4.4, 6), and every submitted *)
(* bdev I/O completes (spec 5: no cancellation).  Removal and reuse are    *)
(* not required to happen.                                                 *)
(***************************************************************************)
Fairness ==
  /\ \A r \in Requests : WF_vars(SubmitRequest(r)) /\ WF_vars(Retry(r))
  /\ \A r \in Requests, i \in Slots :
       /\ WF_vars(\E s \in BOOLEAN : raid1_read_bdev_io_completion(r, i, s))
       /\ WF_vars(\E s \in BOOLEAN : raid1_write_bdev_io_completion(r, i, s))

Spec == Init /\ [][Next]_vars /\ Fairness


-----------------------------------------------------------------------------
(***************************************************************************)
(* Properties                                                              *)
(***************************************************************************)

ReadsInFlight(i) ==
  {r \in Requests : <<r, i>> \in inflight /\ raid_io[r].type = "READ"}

(* The outstanding-read counter of every slot equals the blocks of the     *)
(* reads in flight on it (spec 8): raid1_submit_read_request adds only     *)
(* after readv succeeded, raid1_read_bdev_io_completion subtracts the same *)
(* length at the index saved in base_bdev_io_submitted, across -ENOMEM     *)
(* retries, mirror removal and completions in any order.                   *)
ReadCountersMatchInflight ==
  \A i \in Slots :
    read_blocks_outstanding[i] = MapThenSumSet(LAMBDA r : raid_io[r].blocks, ReadsInFlight(i))

\* The credits a request is still owed: one per sub-I/O in flight and, for
\* a write waiting to resume, one per slot the loop has not passed yet (a
\* write loop that returned has passed or batch-credited every slot).
Owed(r) ==
  Cardinality({i \in Slots : <<r, i>> \in inflight})
  + (IF raid_io[r].type = "WRITE" /\ raid_io[r].phase = "queued"
     THEN NumBaseBdevs - raid_io[r].submitted ELSE 0)

(* The aggregator's remaining count always equals the credits still owed,  *)
(* and a completed request has none owed: no credit is lost, none is given *)
(* twice, none arrives after completion (spec 4.3, 9).  This is what the   *)
(* write loop's bookkeeping of skipped slots, the remaining count armed    *)
(* only on first entry, and the batch credit after a hard error keep.      *)
CreditsMatchOutstanding ==
  \A r \in Requests :
    /\ raid_io[r].phase = "active" => raid_io[r].remaining = Owed(r)
    /\ raid_io[r].phase = "queued" /\ raid_io[r].type = "WRITE"
         => raid_io[r].remaining = Owed(r)
    /\ raid_io[r].phase = "done" =>
         /\ Owed(r) = 0
         /\ raid_io[r].ncomplete = 1
         /\ raid_io[r].type = "WRITE" => raid_io[r].remaining = 0

(* A request is reported FAILED exactly when one of its steps failed: a    *)
(* sub-I/O completed with an error, a submission failed hard, or no mirror *)
(* was left for a read.  A later success never clears an earlier failure   *)
(* (the latched status of complete_part), whatever the completion order.   *)
FinalStatusReflectsFailures ==
  \A r \in Requests :
    raid_io[r].phase = "done" => (raid_io[r].result = "FAILED" <=> raid_io[r].failed)

(* No base bdev receives the same request twice: a write resumed after     *)
(* -ENOMEM restarts at the slot that failed (base_bdev_io_submitted), and  *)
(* a read is submitted to one mirror only.                                 *)
NoDuplicateSubmission ==
  \A r \in Requests :
    /\ \A i \in Slots : raid_io[r].issued[i] <= 1
    /\ raid_io[r].type = "READ" =>
         Cardinality({i \in Slots : raid_io[r].issued[i] > 0}) <= 1

\* Reference read selection: the lowest-index present slot among those with
\* the fewest outstanding read blocks.
LeastLoaded ==
  {i \in Present : \A j \in Present : read_blocks_outstanding[i] <= read_blocks_outstanding[j]}

(* raid1_channel_next_read_base_bdev picks the least loaded present mirror *)
(* and, among equally loaded ones, the lowest index; "none" only when no   *)
(* mirror is present (spec 4.1, 8), in every reachable counter state.      *)
ReadSelectionIsLeastLoaded ==
  raid1_channel_next_read_base_bdev =
    IF Present = {} THEN UINT8_MAX ELSE Min(LeastLoaded)

(* Every request handed to the module is eventually completed, through     *)
(* -ENOMEM retries, hard errors, absent slots and mirror loss.             *)
EveryRequestCompletes ==
  \A r \in Requests : raid_io[r].phase = "new" ~> raid_io[r].phase = "done"

(* A write reported successful was written to at least one mirror (spec    *)
(* 4.2: a loop that submitted nothing is a fatal configuration condition,  *)
(* not a silent success).                                                  *)
SuccessfulWriteIsStored ==
  \A r \in Requests :
    raid_io[r].type = "WRITE" /\ raid_io[r].phase = "done" /\ raid_io[r].result = "SUCCESS"
      => \E i \in Slots : raid_io[r].issued[i] > 0

=============================================================================

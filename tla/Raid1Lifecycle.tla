---------------------------- MODULE Raid1Lifecycle ----------------------------
(***************************************************************************)
(* Start and stop of the RAID-1 module (src/raid/raid1.c, lines 242-308)   *)
(* and the SPDK io_device it registers.  raid1_start computes the array   *)
(* capacity, truncates the base bdevs to it, allocates r1info and          *)
(* registers it as an io_device whose per-thread channel holds the read    *)
(* counters.  The framework gets a module channel on each thread that      *)
(* creates a raid channel (raid1_get_io_channel) and puts it when that     *)
(* raid channel is destroyed.  raid1_stop unregisters the io_device and    *)
(* returns false (asynchronous); SPDK calls raid1_io_device_unregister_done *)
(* once the last channel is released, which reports the stop to the        *)
(* framework and frees r1info.                                             *)
(*                                                                         *)
(* The io_device rules (spdk_get_io_channel returns NULL once the device  *)
(* is unregistering; the unregister callback runs after the last put) are *)
(* SPDK's, not of this repository: they follow spec.md 4.5 and 6.          *)
(***************************************************************************)
EXTENDS Naturals, FiniteSets

CONSTANTS
  NumBaseBdevs,   \* raid_bdev->num_base_bdevs
  Threads,        \* SPDK threads that may open a raid channel
  Sizes,          \* block counts a present base bdev may have
  AbsentSizes,    \* data_size the framework leaves in an absent slot
  UINT64_MAX      \* initial min_blockcnt

ASSUME NumBaseBdevs >= 2     \* g_raid1_module.base_bdevs_min
ASSUME \A n \in Sizes \cup AbsentSizes : n \in Nat /\ n < UINT64_MAX

Slots == 0 .. NumBaseBdevs - 1

VARIABLES
  phase,       \* the framework's view: "configured", "started", "failed",
               \* "stopping", "stopped"
  present,     \* slot i holds a base bdev (fixed while the array runs)
  size,        \* the base bdev's own block count (history of data_size)
  data_size,   \* base_info->data_size
  blockcnt,    \* raid_bdev->bdev.blockcnt
  r1info,      \* "none", "live", "freed"
  device,      \* the io_device: "none", "registered", "unregistering", "gone"
  unreg_cb,    \* callback given to spdk_io_device_unregister
  channel,     \* channel[t]: thread t holds the module channel
  stop_done    \* raid_bdev_module_stop_done calls

vars == <<phase, present, size, data_size, blockcnt, r1info, device, unreg_cb,
          channel, stop_done>>

TypeOK ==
  /\ phase \in {"configured", "started", "failed", "stopping", "stopped"}
  /\ present \in [Slots -> BOOLEAN]
  /\ size \in [Slots -> Sizes \cup AbsentSizes]
  /\ data_size \in [Slots -> Nat] /\ blockcnt \in Nat
  /\ r1info \in {"none", "live", "freed"}
  /\ device \in {"none", "registered", "unregistering", "gone"}
  /\ unreg_cb \in {"none", "raid1_io_device_unregister_done"}
  /\ channel \in [Threads -> BOOLEAN]
  /\ stop_done \in Nat

\* Mutant: the loop starts at slot 1.
MinBlockcntFromSecond(ds) ==
  LET rest == {ds[i] : i \in Slots \ {0}} IN CHOOSE m \in rest : \A n \in rest : m <= n

\* The first RAID_FOR_EACH_BASE_BDEV loop: spdk_min over every slot,
\* starting from UINT64_MAX.
MinBlockcnt(ds) ==
  LET all == {ds[i] : i \in Slots} \cup {UINT64_MAX}
  IN  CHOOSE m \in all : \A n \in all : m <= n

\* raid1_start.  alloc = FALSE: calloc fails, -ENOMEM, nothing changes and
\* the framework does not bring the array up.
raid1_start ==
  /\ phase = "configured"
  /\ \E alloc \in BOOLEAN :
       IF ~alloc
       THEN /\ phase' = "failed"
            /\ UNCHANGED <<present, size, data_size, blockcnt, r1info, device,
                           unreg_cb, channel, stop_done>>
       ELSE LET min_blockcnt == MinBlockcnt(data_size)
            IN  /\ r1info' = "live"
                /\ data_size' = [i \in Slots |-> min_blockcnt]
                /\ blockcnt' = min_blockcnt
                /\ device' = "registered"
                /\ phase' = "started"
                /\ UNCHANGED <<present, size, unreg_cb, channel, stop_done>>

\* spdk_get_io_channel: NULL unless the device is registered; the
\* channel of a thread is created once (raid1_ioch_create returns 0).
spdk_get_io_channel(t) ==
  /\ device = "registered"
  /\ channel' = [channel EXCEPT ![t] = TRUE]

\* raid1_get_io_channel on thread t, when the framework creates a raid
\* channel there.  module_private must still be r1info.
raid1_get_io_channel(t) ==
  /\ phase = "started"
  /\ ~channel[t]
  /\ r1info = "live"
  /\ spdk_get_io_channel(t)
  /\ UNCHANGED <<phase, present, size, data_size, blockcnt, r1info, device,
                 unreg_cb, stop_done>>

\* spdk_put_io_channel from the raid channel's destroy callback;
\* raid1_ioch_destroy has nothing to release.
PutIoChannel(t) ==
  /\ channel[t]
  /\ channel' = [channel EXCEPT ![t] = FALSE]
  /\ UNCHANGED <<phase, present, size, data_size, blockcnt, r1info, device,
                 unreg_cb, stop_done>>

\* Mutant: the unregister is started without a completion callback.
raid1_stop_no_cb ==
  /\ phase = "started"
  /\ device' = "unregistering" /\ unreg_cb' = "none"
  /\ phase' = "stopping"
  /\ UNCHANGED <<present, size, data_size, blockcnt, r1info, channel, stop_done>>

\* Mutant: r1info is freed at once instead of in the unregister callback.
raid1_stop_frees ==
  /\ phase = "started"
  /\ device' = "unregistering" /\ unreg_cb' = "raid1_io_device_unregister_done"
  /\ r1info' = "freed"
  /\ phase' = "stopping"
  /\ UNCHANGED <<present, size, data_size, blockcnt, channel, stop_done>>

\* raid1_stop: spdk_io_device_unregister(r1info, unregister_done); false.
raid1_stop ==
  /\ phase = "started"
  /\ device' = "unregistering" /\ unreg_cb' = "raid1_io_device_unregister_done"
  /\ phase' = "stopping"
  /\ UNCHANGED <<present, size, data_size, blockcnt, r1info, channel, stop_done>>

\* raid1_io_device_unregister_done: raid_bdev_module_stop_done, then
\* free(r1info).
raid1_io_device_unregister_done ==
  /\ stop_done' = stop_done + 1
  /\ phase' = "stopped"
  /\ r1info' = IF r1info = "live" THEN "freed" ELSE "double_free"

\* SPDK finishes the unregister once no thread holds a channel and calls
\* the callback, if one was given.
UnregisterDone ==
  /\ device = "unregistering"
  /\ \A t \in Threads : ~channel[t]
  /\ device' = "gone"
  /\ IF unreg_cb = "raid1_io_device_unregister_done"
     THEN raid1_io_device_unregister_done
     ELSE UNCHANGED <<phase, r1info, stop_done>>
  /\ UNCHANGED <<present, size, data_size, blockcnt, unreg_cb, channel>>

\* The framework configures N >= 2 slots; a present slot's data_size is
\* its bdev's size, an absent one's is whatever the framework left there.
Init ==
  /\ phase = "configured"
  /\ present \in [Slots -> BOOLEAN]
  /\ \E i \in Slots : present[i]
  /\ size \in [Slots -> Sizes \cup AbsentSizes]
  /\ \A i \in Slots : size[i] \in (IF present[i] THEN Sizes ELSE AbsentSizes)
  /\ data_size = size
  /\ blockcnt = 0
  /\ r1info = "none" /\ device = "none" /\ unreg_cb = "none"
  /\ channel = [t \in Threads |-> FALSE]
  /\ stop_done = 0

Next ==
  \/ raid1_start
  \/ \E t \in Threads : raid1_get_io_channel(t) \/ PutIoChannel(t)
  \/ raid1_stop
  \/ UnregisterDone

(***************************************************************************)
(* Fairness: once the array is stopping, the framework destroys its raid   *)
(* channels (each puts its module channel), and SPDK completes an         *)
(* unregister whose channels are all gone.  Nothing forces start or stop.  *)
(***************************************************************************)
Spec ==
  /\ Init /\ [][Next]_vars
  /\ \A t \in Threads : WF_vars(phase = "stopping" /\ PutIoChannel(t))
  /\ WF_vars(UnregisterDone)

-----------------------------------------------------------------------------
\* Reference: the smallest block count of a present base bdev.
MinPresent == CHOOSE m \in {size[i] : i \in Slots} :
                /\ \E i \in Slots : present[i] /\ size[i] = m
                /\ \A i \in Slots : present[i] => m <= size[i]

(* After raid1_start every slot's data_size equals the array's blockcnt,   *)
(* and no present base bdev is smaller than it: every block of the array   *)
(* exists on every mirror, whichever the read router picks (spec 3).       *)
CapacityFitsEveryMirror ==
  phase \in {"started", "stopping", "stopped"} =>
    \A i \in Slots : data_size[i] = blockcnt /\ (present[i] => blockcnt <= size[i])

(* The array's capacity is the minimum over the present mirrors (spec 3,   *)
(* 4.5, and the scenario 1000/1200 -> 1000 of spec 8).                     *)
CapacityIsMinOfPresent ==
  phase \in {"started", "stopping", "stopped"} => blockcnt = MinPresent

(* r1info is freed only after the framework was told the stop is done and  *)
(* no thread holds a channel whose context it backs; it is freed once.     *)
InfoFreedAfterLastChannel ==
  r1info \in {"freed", "double_free"} =>
    /\ r1info = "freed"
    /\ stop_done = 1
    /\ \A t \in Threads : ~channel[t]

(* A stop that raid1_stop reported as pending is eventually completed to   *)
(* the framework (raid_bdev_module_stop_done), once the channels are gone. *)
StopCompletes == phase = "stopping" ~> stop_done = 1
=============================================================================

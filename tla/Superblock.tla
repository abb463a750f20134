----------------------------- MODULE Superblock -----------------------------
(***************************************************************************)
(* The superblock load and flush pipelines of                             *)
(* src/metadata/metadata_superblock.c, run by the step engine of           *)
(* src/utils/utils_pipeline.c, against a cache device with a volatile     *)
(* write cache, I/O errors, allocation failures and power loss.           *)
(*                                                                         *)
(* Data is abstracted to versions: a segment's contents are a number, its *)
(* crc is that number (crc32 is taken to tell different contents apart).  *)
(* The flapping segments (part_config, core_config, core_uuid) have two    *)
(* on-disk copies; the in-memory superblock (sb_config) names the current  *)
(* one in flapping_idx and records each segment's checksum.               *)
(*                                                                         *)
(* Not under src/ and modelled from their names and the callers here:     *)
(* the pipeline macros (OCF_PL_STEP_FOREACH runs the step once per arg,    *)
(* OCF_PL_FINISH_RET is ocf_pipeline_finish and return), and the metadata *)
(* I/O helpers ocf_metadata_load_segment / flush_segment / calculate_crc / *)
(* check_crc and ocf_submit_volume_flush.  A flapping segment is written   *)
(* to the copy ocf_metadata_superblock_get_next_flapping_idx names and     *)
(* read from the one ocf_metadata_superblock_get_flapping_idx names.      *)
(***************************************************************************)
EXTENDS Integers, Sequences, FiniteSets

CONSTANTS
  MaxVer,      \* bound on the versions a segment's contents go through
  MaxCalls,    \* bound on management calls (load, flush, shutdown status)
  MaxCrashes,  \* bound on power losses
  Faults,      \* subset of {"nomem", "io"}: the failures the run allows
  NONE

ASSUME MaxVer \in Nat \ {0} /\ MaxCalls \in Nat /\ MaxCrashes \in Nat
       /\ Faults \subseteq {"nomem", "io"}

\* Segment ids of the model (metadata_segment_*); the runtime segments are
\* never written by these pipelines and are left out.
FlapSegs == {"part_config", "core_config", "core_uuid"}
Segs == FlapSegs \cup {"sb_config"}
Ver == 0..MaxVer
Idx == 0..1

\* Error codes (-OCF_ERR_NO_MEM, -OCF_ERR_INVAL, an I/O error).
ERR_NO_MEM == -1
ERR_INVAL == -2
ERR_IO == -3

\* (flapping_idx - 1) % 2 on the unsigned 32-bit field: 0 - 1 wraps to
\* 2^32 - 1, which is odd.
UDecMod2(x) == IF x = 0 THEN 1 ELSE (x - 1) % 2

(***************************************************************************)
(* Definitions named ...No... or ...Current are mutations: plausible slips *)
(* in the code the definition after them models.                          *)
(***************************************************************************)
\* get_next_flapping_idx returning the current index (mutation).
NextFlappingIdxCurrent(sb) == sb.idx

\* ocf_metadata_superblock_get_flapping_idx / get_next_flapping_idx.
FlappingIdx(sb) == sb.idx
NextFlappingIdx(sb) == (sb.idx + 1) % 2

\* The fields env_crc32 covers in ocf_metadata_calculate_crc_sb_config.
SbFields(sb) == <<sb.idx, sb.csum, sb.shut>>

SbRec == [idx : Idx, csum : [FlapSegs -> Ver], shut : {0, 1},
          crc : (Idx \X [FlapSegs -> Ver] \X {0, 1}) \cup {NONE}]

\* Disk locations: the superblock and both copies of each flapping segment.
SbLoc == <<2, "sb_config">>
Locs == {SbLoc} \cup (Idx \X FlapSegs)

-----------------------------------------------------------------------------
(* Step tables (struct ocf_pipeline_properties), FOREACH steps unrolled.  *)
St(fn, arg) == [fn |-> fn, arg |-> arg]
Each(fn, args) == [i \in 1..Len(args) |-> St(fn, args[i])]

\* ocf_metadata_load_sb_store_segment_args / _load_segment_args /
\* _recov_load_segment_args / ocf_metadata_flush_sb_args, runtime segments
\* left out.
StoreArgs == <<"sb_config", "part_config", "core_config">>
LoadArgs == <<"part_config", "core_config", "core_uuid">>
RecovLoadArgs == <<"part_config", "core_config", "core_uuid">>
FlushArgs == <<"part_config", "core_config", "core_uuid">>

LoadSteps(args) ==
  Each("store_segment", StoreArgs) \o <<St("load_segment", "sb_config"),
  St("check_crc_sb_config", NONE)>> \o Each("load_segment", args)
  \o Each("check_crc", args) \o <<St("load_superblock_post", NONE), St("term", NONE)>>

\* ocf_metadata_load_sb_recov_pipeline_props: the load's steps over the
\* recovery argument list.
RecovSteps == LoadSteps(RecovLoadArgs)

\* The flush table without the device flush after the superblock write
\* (mutation).
PropsNoFinalFlush ==
  [load |-> LoadSteps(LoadArgs), recov |-> RecovSteps,
   flush |-> <<St("flush_superblock_prepare", NONE)>> \o Each("calculate_crc", FlushArgs)
             \o Each("flush_segment", FlushArgs)
             \o <<St("flush_disk", NONE), St("flush_superblock_flap", NONE),
                  St("calculate_crc_sb_config", NONE), St("flush_segment", "sb_config"),
                  St("term", NONE)>>]

Props == [load |-> LoadSteps(LoadArgs), recov |-> RecovSteps,
          flush |-> <<St("flush_superblock_prepare", NONE)>>
                    \o Each("calculate_crc", FlushArgs)
                    \o Each("flush_segment", FlushArgs)
                    \o <<St("flush_disk", NONE), St("flush_superblock_flap", NONE),
                         St("calculate_crc_sb_config", NONE),
                         St("flush_segment", "sb_config"), St("flush_disk", NONE),
                         St("term", NONE)>>]

-----------------------------------------------------------------------------
VARIABLES
  mem,       \* in-memory contents of each flapping segment
  msb,       \* in-memory sb_config
  durable,   \* what the device keeps across power loss, per location
  pending,   \* writes in the device's volatile cache, per location, or NONE
  state,     \* "running" (metadata loaded) or "down" (after power loss)
  pl,        \* the pipeline: [alive, props, next_step, finish, error, queued,
             \*   copy (segment_copy[].mem_pool, or NONE)]
  call,      \* "busy" while a management call waits for its completion
  cmpls,     \* completions context->cmpl has delivered to the current call
  uaf,       \* a pipeline request ran or was pushed after ocf_pipeline_destroy
  calls, crashes,
  flushFailed, \* a flush has failed since the last one that completed
  done,      \* versions the last flush completed with 0 wrote
  tried      \* versions written by flushes since then

vars == <<mem, msb, durable, pending, state, pl, call, cmpls, uaf, calls, crashes,
          flushFailed, done, tried>>

NoPipeline == [alive |-> FALSE, props |-> NONE, next_step |-> 1, finish |-> FALSE,
               error |-> 0, queued |-> 0, copy |-> [s \in Segs |-> NONE]]

ZeroSb == [idx |-> 0, csum |-> [s \in FlapSegs |-> 0], shut |-> 0, crc |-> NONE]

\* A cache that has been attached and flushed: copy 0 current, version 1.
Init == /\ mem = [s \in FlapSegs |-> 1]
        /\ msb = [idx |-> 0, csum |-> [s \in FlapSegs |-> 1], shut |-> 0,
                  crc |-> <<0, [s \in FlapSegs |-> 1], 0>>]
        /\ durable = [l \in Locs |-> IF l = SbLoc THEN msb
                                     ELSE IF l[1] = 0 THEN 1 ELSE 0]
        /\ pending = [l \in Locs |-> NONE]
        /\ state = "running"
        /\ pl = NoPipeline
        /\ call = "idle" /\ cmpls = 0 /\ uaf = FALSE
        /\ calls = 0 /\ crashes = 0
        /\ flushFailed = FALSE
        /\ done = [s \in FlapSegs |-> 1] /\ tried = [s \in FlapSegs |-> {}]

\* What a read of the device returns: the cached write, else the media.
Current(l) == IF pending[l] # NONE THEN pending[l] ELSE durable[l]

-----------------------------------------------------------------------------
(* utils_pipeline.c                                                        *)
\* ocf_pipeline_next: push the pipeline's request to the management queue.
OcfPipelineNext(p) == [p EXCEPT !.queued = @ + 1]

\* ocf_pipeline_finish: set finish, record the error, push the request.
OcfPipelineFinish(p, err) == [p EXCEPT !.finish = TRUE, !.error = err, !.queued = @ + 1]

\* A management call: ocf_pipeline_create (env_vzalloc and ocf_req_new may
\* fail: OCF_CMPL_RET with -OCF_ERR_NO_MEM), fill the context,
\* ocf_pipeline_next.
StartCall(props) ==
  /\ calls < MaxCalls /\ ~pl.alive /\ pl.queued = 0 /\ call = "idle"
  /\ calls' = calls + 1
  /\ \/ /\ pl' = OcfPipelineNext([NoPipeline EXCEPT !.alive = TRUE, !.props = props])
        /\ call' = "busy" /\ cmpls' = 0
     \/ /\ "nomem" \in Faults
        /\ UNCHANGED <<pl, call>> /\ cmpls' = 1
  /\ UNCHANGED <<uaf, crashes, flushFailed, done, tried>>

\* ocf_metadata_load_superblock: a pipeline over the load table.
OcfMetadataLoadSuperblock ==
  /\ state = "down" /\ StartCall("load")
  /\ UNCHANGED <<mem, msb, durable, pending, state>>

\* ocf_metadata_load_superblock_recovery: the same over the recovery table.
OcfMetadataLoadSuperblockRecovery ==
  /\ state = "down" /\ StartCall("recov")
  /\ UNCHANGED <<mem, msb, durable, pending, state>>

\* ocf_metadata_flush_superblock.
OcfMetadataFlushSuperblock ==
  /\ state = "running" /\ StartCall("flush")
  /\ UNCHANGED <<mem, msb, durable, pending, state>>

\* ocf_metadata_set_shutdown_status: set clean_shutdown (and the magic
\* number) in memory, then ocf_metadata_flush_superblock.
OcfMetadataSetShutdownStatus(st) ==
  /\ state = "running" /\ StartCall("flush")
  /\ msb' = [msb EXCEPT !.shut = st]
  /\ UNCHANGED <<mem, durable, pending, state>>

\* Management changes a flapping segment in memory (io class or core
\* configuration) between superblock flushes.
UpdateSegment(s) ==
  /\ state = "running" /\ ~pl.alive /\ mem[s] < MaxVer
  /\ mem' = [mem EXCEPT ![s] = @ + 1]
  /\ UNCHANGED <<msb, durable, pending, state, pl, call, cmpls, uaf, calls, crashes,
                 flushFailed, done, tried>>
-----------------------------------------------------------------------------
(* The steps.  Each takes the pipeline p as _ocf_pipeline_run_step left it *)
(* (next_step advanced) and ends in ocf_pipeline_next or _finish.         *)
Go(p) == pl' = OcfPipelineNext(p)
Fail(p, err) == pl' = OcfPipelineFinish(p, err)

\* ocf_metadata_store_segment that goes on after OCF_PL_FINISH (mutation).
OcfMetadataStoreSegmentNoRet(s, p) ==
  /\ \/ "nomem" \in Faults /\ pl' = OcfPipelineNext(OcfPipelineFinish(p, ERR_NO_MEM))
     \/ Go([p EXCEPT !.copy[s] = IF s = "sb_config" THEN msb ELSE mem[s]])
  /\ UNCHANGED <<mem, msb, durable, pending, tried>>

\* ocf_metadata_store_segment: env_malloc a copy of the segment (may fail:
\* finish -OCF_ERR_NO_MEM) and env_memcpy it (same sizes: cannot fail).
OcfMetadataStoreSegment(s, p) ==
  /\ \/ "nomem" \in Faults /\ Fail(p, ERR_NO_MEM)
     \/ Go([p EXCEPT !.copy[s] = IF s = "sb_config" THEN msb ELSE mem[s]])
  /\ UNCHANGED <<mem, msb, durable, pending, tried>>

\* ocf_metadata_load_segment: read the segment (sb_config, or the copy the
\* loaded flapping_idx names) from the device; the read may fail.
LoadSegment(s, p) ==
  /\ \/ "io" \in Faults /\ Fail(p, ERR_IO) /\ UNCHANGED <<mem, msb>>
     \/ /\ IF s = "sb_config"
           THEN msb' = Current(SbLoc) /\ UNCHANGED mem
           ELSE mem' = [mem EXCEPT ![s] = Current(<<FlappingIdx(msb), s>>)] /\ UNCHANGED msb
        /\ Go(p)
  /\ UNCHANGED <<durable, pending, tried>>

\* ocf_metadata_check_crc_sb_config: the crc over the loaded sb_config
\* fields must match its checksum[sb_config], else -OCF_ERR_INVAL.
OcfMetadataCheckCrcSbConfig(p) ==
  /\ IF msb.crc # SbFields(msb) THEN Fail(p, ERR_INVAL) ELSE Go(p)
  /\ UNCHANGED <<mem, msb, durable, pending, tried>>

\* ocf_metadata_check_crc: the loaded segment against sb checksum[segment].
CheckCrc(s, p) ==
  /\ IF mem[s] # msb.csum[s] THEN Fail(p, ERR_INVAL) ELSE Go(p)
  /\ UNCHANGED <<mem, msb, durable, pending, tried>>

\* ocf_metadata_calculate_crc: checksum[segment] = crc of the segment.
CalculateCrc(s, p) ==
  /\ msb' = [msb EXCEPT !.csum[s] = mem[s]]
  /\ Go(p)
  /\ UNCHANGED <<mem, durable, pending, tried>>

\* ocf_metadata_flush_segment: write sb_config, or a flapping segment to
\* the next copy; a failed write may still have reached the device cache.
FlushSegment(s, p) ==
  LET l == IF s = "sb_config" THEN SbLoc ELSE <<NextFlappingIdx(msb), s>>
      v == IF s = "sb_config" THEN msb ELSE mem[s]
      wrote == /\ pending' = [pending EXCEPT ![l] = v]
               /\ tried' = IF s = "sb_config" THEN tried
                           ELSE [tried EXCEPT ![s] = @ \cup {v}]
  IN /\ \/ wrote /\ Go(p)
        \/ /\ "io" \in Faults /\ Fail(p, ERR_IO)
           /\ \/ wrote
              \/ UNCHANGED <<pending, tried>>
     /\ UNCHANGED <<mem, msb, durable>>

\* ocf_metadata_flush_disk_end returning on error without finishing the
\* pipeline (mutation).
OcfMetadataFlushDiskNoFinish(p) ==
  /\ \/ /\ durable' = [l \in Locs |-> Current(l)]
        /\ pending' = [l \in Locs |-> NONE]
        /\ Go(p)
     \/ "io" \in Faults /\ pl' = p /\ UNCHANGED <<durable, pending>>
  /\ UNCHANGED <<mem, msb, tried>>

\* ocf_metadata_flush_disk / ocf_metadata_flush_disk_end: a cache flush of
\* the device; on error OCF_PL_FINISH_RET, else ocf_pipeline_next.
OcfMetadataFlushDisk(p) ==
  /\ \/ /\ durable' = [l \in Locs |-> Current(l)]
        /\ pending' = [l \in Locs |-> NONE]
        /\ Go(p)
     \/ "io" \in Faults /\ Fail(p, ERR_IO) /\ UNCHANGED <<durable, pending>>
  /\ UNCHANGED <<mem, msb, tried>>

\* The flap without "% 2" (mutation).
OcfMetadataFlushSuperblockFlapNoMod(p) ==
  /\ msb' = [msb EXCEPT !.idx = @ + 1]
  /\ Go(p)
  /\ UNCHANGED <<mem, durable, pending, tried>>

\* ocf_metadata_flush_superblock_flap: flapping_idx = (flapping_idx + 1) % 2.
OcfMetadataFlushSuperblockFlap(p) ==
  /\ msb' = [msb EXCEPT !.idx = (@ + 1) % 2]
  /\ Go(p)
  /\ UNCHANGED <<mem, durable, pending, tried>>

\* ocf_metadata_calculate_crc_sb_config.
OcfMetadataCalculateCrcSbConfig(p) ==
  /\ msb' = [msb EXCEPT !.crc = SbFields(msb)]
  /\ Go(p)
  /\ UNCHANGED <<mem, durable, pending, tried>>

\* ocf_metadata_flush_superblock_prepare: sync the core volume types into
\* core_config (the same values: no new version), go on.
OcfMetadataFlushSuperblockPrepare(p) == Go(p) /\ UNCHANGED <<mem, msb, durable, pending, tried>>

\* ocf_metadata_load_superblock_post: core_count and valid_parts_no are in
\* range in every superblock this model writes, so it goes on.
OcfMetadataLoadSuperblockPost(p) == Go(p) /\ UNCHANGED <<mem, msb, durable, pending, tried>>

Exec(st, p) ==
  CASE st.fn = "store_segment"       -> OcfMetadataStoreSegment(st.arg, p)
    [] st.fn = "load_segment"        -> LoadSegment(st.arg, p)
    [] st.fn = "check_crc_sb_config" -> OcfMetadataCheckCrcSbConfig(p)
    [] st.fn = "check_crc"           -> CheckCrc(st.arg, p)
    [] st.fn = "calculate_crc"       -> CalculateCrc(st.arg, p)
    [] st.fn = "flush_segment"       -> FlushSegment(st.arg, p)
    [] st.fn = "flush_disk"          -> OcfMetadataFlushDisk(p)
    [] st.fn = "flush_superblock_flap" -> OcfMetadataFlushSuperblockFlap(p)
    [] st.fn = "calculate_crc_sb_config" -> OcfMetadataCalculateCrcSbConfig(p)
    [] st.fn = "flush_superblock_prepare" -> OcfMetadataFlushSuperblockPrepare(p)
    [] st.fn = "load_superblock_post" -> OcfMetadataLoadSuperblockPost(p)

\* ocf_metadata_load_sb_restore: copy back every stored segment.
OcfMetadataLoadSbRestore(p) ==
  /\ msb' = IF p.copy["sb_config"] # NONE THEN p.copy["sb_config"] ELSE msb
  /\ mem' = [s \in FlapSegs |-> IF p.copy[s] # NONE THEN p.copy[s] ELSE mem[s]]

\* ocf_metadata_load_superblock_finish: on error ocf_metadata_error and
\* restore; free the copies, context->cmpl, ocf_pipeline_destroy.
OcfMetadataLoadSuperblockFinish(p) ==
  /\ IF p.error # 0
     THEN OcfMetadataLoadSbRestore(p) /\ UNCHANGED state
     ELSE state' = "running" /\ UNCHANGED <<mem, msb>>
  /\ UNCHANGED <<flushFailed, done, tried>>

\* ocf_metadata_flush_superblock_finish: on error ocf_metadata_error and
\* flapping_idx = (flapping_idx - 1) % 2; context->cmpl, destroy.
OcfMetadataFlushSuperblockFinish(p) ==
  /\ IF p.error # 0
     THEN /\ msb' = [msb EXCEPT !.idx = UDecMod2(@)]
          /\ flushFailed' = TRUE /\ UNCHANGED <<done, tried>>
     ELSE /\ UNCHANGED msb
          /\ flushFailed' = FALSE /\ done' = msb.csum
          /\ tried' = [s \in FlapSegs |-> {}]
  /\ UNCHANGED <<mem, state>>

\* properties->finish, then context->cmpl and ocf_pipeline_destroy, which
\* puts the pipeline's request (its pushes must all have run by now).
FinishCb(p) ==
  /\ IF p.props = "flush" THEN OcfMetadataFlushSuperblockFinish(p)
     ELSE OcfMetadataLoadSuperblockFinish(p)
  /\ call' = "idle" /\ cmpls' = cmpls + 1
  /\ pl' = [p EXCEPT !.alive = FALSE]
  /\ UNCHANGED <<durable, pending>>

\* _ocf_pipeline_run_step: the management queue runs the pushed request:
\* step = steps[next_step++]; its cb unless it is the terminator or finish
\* is set, else properties->finish.  A request run after destroy is a use
\* after free.
OcfPipelineRunStep ==
  /\ pl.queued > 0
  /\ LET p == [pl EXCEPT !.queued = @ - 1, !.next_step = @ + 1] IN
     IF ~pl.alive
     THEN /\ uaf' = TRUE /\ pl' = p
          /\ UNCHANGED <<mem, msb, durable, pending, state, call, cmpls, flushFailed, done, tried>>
     ELSE LET st == Props[pl.props][pl.next_step] IN
          IF st.fn # "term" /\ ~pl.finish
          THEN Exec(st, p) /\ UNCHANGED <<state, call, cmpls, uaf, flushFailed, done>>
          ELSE FinishCb(p) /\ UNCHANGED uaf
  /\ UNCHANGED <<calls, crashes>>

\* Power loss: memory and the running pipeline are gone; the device keeps
\* any subset of the writes still in its cache.
Crash ==
  /\ crashes < MaxCrashes
  /\ crashes' = crashes + 1
  /\ \E S \in SUBSET {l \in Locs : pending[l] # NONE} :
       durable' = [l \in Locs |-> IF l \in S THEN pending[l] ELSE durable[l]]
  /\ pending' = [l \in Locs |-> NONE]
  /\ mem' = [s \in FlapSegs |-> 0] /\ msb' = ZeroSb
  /\ state' = "down" /\ pl' = NoPipeline /\ call' = "idle" /\ cmpls' = 0
  /\ UNCHANGED <<uaf, calls, flushFailed, done, tried>>

Next == \/ OcfMetadataLoadSuperblock \/ OcfMetadataLoadSuperblockRecovery
        \/ OcfMetadataFlushSuperblock
        \/ \E st \in {0, 1} : OcfMetadataSetShutdownStatus(st)
        \/ \E s \in FlapSegs : UpdateSegment(s)
        \/ OcfPipelineRunStep
        \/ Crash

Spec == Init /\ [][Next]_vars

\* The management queue thread runs every request pushed to it, and the
\* device completes every I/O (with success or an error).
FairSpec == Spec /\ WF_vars(OcfPipelineRunStep)

-----------------------------------------------------------------------------
TypeOK ==
  /\ mem \in [FlapSegs -> Ver] /\ msb \in SbRec
  /\ DOMAIN durable = Locs /\ DOMAIN pending = Locs
  /\ durable[SbLoc] \in SbRec /\ pending[SbLoc] \in SbRec \cup {NONE}
  /\ \A l \in Locs \ {SbLoc} : durable[l] \in Ver /\ pending[l] \in Ver \cup {NONE}
  /\ state \in {"running", "down"} /\ call \in {"idle", "busy"}
  /\ pl.queued \in Nat /\ pl.next_step \in Nat \ {0}
  /\ cmpls \in Nat /\ uaf \in BOOLEAN /\ flushFailed \in BOOLEAN
  /\ done \in [FlapSegs -> Ver] /\ tried \in [FlapSegs -> SUBSET Ver]

\* The superblock on the media names a copy of every flapping segment whose
\* contents match the checksum it records, and its own crc is valid: a
\* power loss at this moment leaves metadata ocf_metadata_load_superblock
\* accepts.
DurableConsistent ==
  LET sb == durable[SbLoc] IN
  /\ sb.crc = SbFields(sb)
  /\ \A s \in FlapSegs : durable[<<FlappingIdx(sb), s>>] = sb.csum[s]

\* Crash safety of the flush pipeline (segments to the spare copy, device
\* flush, flap, superblock, device flush): as long as no flush has failed
\* since the last one completed, the media is consistent at every moment.
DurableConsistentUntilError == ~flushFailed => DurableConsistent

\* A load that succeeds returns, for every flapping segment, what the last
\* flush completed with 0 wrote, or what a flush begun since wrote: a
\* flush reported done is never lost to a power loss.
LoadDurable ==
  [][state = "down" /\ state' = "running" =>
       \A s \in FlapSegs : mem'[s] \in {done[s]} \cup tried[s]]_vars

\* Every management call's completion runs exactly once, and no request
\* of a destroyed pipeline runs.
PipelineSound == ~uaf /\ cmpls <= 1

\* Every load or flush call completes (or the cache loses power).
CallCompletes == call = "busy" ~> call = "idle"
=============================================================================

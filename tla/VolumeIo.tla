------------------------------ MODULE VolumeIo ------------------------------
(***************************************************************************)
(* The data object (volume) layer of src/ocf_data_obj.c: registering a    *)
(* type (its I/O allocator), creating, initialising, opening and           *)
(* destroying objects, allocating I/Os from the type's allocator and       *)
(* submitting I/O, flush and discard to the adapter; and its user          *)
(* ocf_metadata_read_sb of src/metadata/metadata_superblock.c, which reads *)
(* the first page of a volume into a zeroed context and hands it to the   *)
(* caller's completion, which validates it                                *)
(* (ocf_metadata_validate_superblock).                                    *)
(*                                                                         *)
(* Memory is a set of allocation tokens: a free of a token not allocated, *)
(* or a use of one, sets uaf.  The adapter is the one of                  *)
(* example/simple/src/dobj.c, whose submit functions call io->end(io, 0)  *)
(* before they return, or one that completes later from the device.       *)
(* ocf_io_put (not under src/) frees an I/O nobody else holds, through the *)
(* type's allocator; ocf_volume_new_io / ocf_volume_submit_io, which       *)
(* ocf_metadata_read_sb calls, are the later names of ocf_dobj_new_io /   *)
(* ocf_dobj_submit_io.                                                     *)
(***************************************************************************)
EXTENDS Integers, Sequences

CONSTANTS
  Props,     \* property tables a type may be registered with: [ops, atomic]
  Objs,      \* data objects
  Embedded,  \* objects embedded in a caller's struct (ocf_dobj_init); the
             \* others are allocated by ocf_dobj_create
  Ios,       \* I/O slots
  VolSbs,    \* superblocks the volume's first page may hold
  Faults,    \* subset of {"nomem", "io", "set_data"}: the failures allowed
  Modes,     \* subset of {"sync", "async"}: how the adapter completes
  NONE

OpNames == {"new_io", "submit_io", "submit_flush", "submit_discard",
            "submit_metadata", "open", "close", "get_max_io_size", "get_length"}

ASSUME /\ Props \subseteq [ops : SUBSET OpNames, atomic : BOOLEAN]
       /\ Embedded \subseteq Objs
       /\ Faults \subseteq {"nomem", "io", "set_data"}
       /\ Modes \subseteq {"sync", "async"} /\ Modes # {}

\* Error codes: -EINVAL, -OCF_ERR_NO_MEM, -OCF_ERR_IO,
\* -OCF_ERR_NO_METADATA, -OCF_ERR_METADATA_VER, -OCF_ERR_INVAL, -ENOMEM.
EINVAL == -1
ERR_NO_MEM == -2
ERR_IO == -3
ERR_NO_METADATA == -4
ERR_METADATA_VER == -5
ERR_INVAL == -6
ENOMEM == -7

-----------------------------------------------------------------------------
(* ocf_metadata_validate_superblock, over which fields of the superblock  *)
(* hold a valid value, checked in the code's order.                       *)
SbFields == <<"magic", "version", "line_size", "layout", "cache_mode",
              "shutdown", "dirty_flushed">>
FieldErr(f) == CASE f = "magic" -> ERR_NO_METADATA
                 [] f = "version" -> ERR_METADATA_VER
                 [] OTHER -> ERR_INVAL

RECURSIVE FirstInvalid(_, _)
FirstInvalid(sb, k) ==
  IF k > Len(SbFields) THEN 0
  ELSE IF ~sb[SbFields[k]] THEN FieldErr(SbFields[k]) ELSE FirstInvalid(sb, k + 1)

OcfMetadataValidateSuperblock(sb) == FirstInvalid(sb, 1)

\* The context env_zalloc gives: magic, version and line size 0 are
\* invalid, the enumerations and flags 0 are in range.
ZeroSb == [f \in {SbFields[k] : k \in 1..Len(SbFields)} |->
             f \in {"layout", "cache_mode", "shutdown", "dirty_flushed"}]

-----------------------------------------------------------------------------
VARIABLES
  typ,    \* the registered type: [reg, props]
  obj,    \* per object: [st ("none", "init"), open, copy (uuid_copy),
          \*   uuid ("null", "caller", "dup": obj->uuid.data)]
  io,     \* per I/O slot: [st ("free", "alloc", "sub"), obj, by ("client", "rs")]
  rs,     \* the ocf_metadata_read_sb call: [st ("idle", "wait", "done"),
          \*   io, ret, sb (context->superblock), cmpls, got]
  volSb,  \* what the volume's first page holds
  heap,   \* live allocations
  uaf,    \* a freed or never allocated token was used or freed
  bug,    \* an ENV_BUG_ON fired
  ret     \* the return value of the last call

vars == <<typ, obj, io, rs, volSb, heap, uaf, bug, ret>>

NoIo == [st |-> "free", obj |-> NONE, by |-> NONE]
NoCall == [st |-> "idle", io |-> NONE, ret |-> 0, sb |-> ZeroSb, cmpls |-> 0, got |-> NONE]

Init == /\ typ = [reg |-> FALSE, props |-> NONE]
        /\ obj = [o \in Objs |-> [st |-> "none", open |-> FALSE, copy |-> FALSE,
                                 uuid |-> "null"]]
        /\ io = [i \in Ios |-> NoIo]
        /\ rs = NoCall
        /\ volSb \in VolSbs
        /\ heap = {} /\ uaf = FALSE /\ bug = FALSE /\ ret = 0

\* One step's memory traffic: allocate A, free F, use U.
Mem(A, F, U) == /\ heap' = (heap \cup A) \ F
                /\ uaf' = (uaf \/ ~((F \cup U) \subseteq (heap \cup A)))

Ops == typ.props.ops

\* Allocation tokens: the type, its allocator, read_sb's context and data.
TypeTok == <<"type", NONE>>
AllocTok == <<"allocator", NONE>>
CtxTok == <<"ctx", NONE>>
DataTok == <<"data", NONE>>

\* ctx_data_alloc / ctx_data_free of the context: the dobj_data struct and
\* its pages, allocated and freed together (one token).
CtxDataAlloc == {DataTok}
CtxDataFree == {DataTok}

ObjZero == [st |-> "none", open |-> FALSE, copy |-> FALSE, uuid |-> "null"]

\* Choices of an allocation that may fail.
Outcomes == IF "nomem" \in Faults THEN BOOLEAN ELSE {TRUE}

-----------------------------------------------------------------------------
(* Types.                                                                  *)
\* The ops ocf_data_obj_type_init requires.
RequiredOps == {"new_io", "submit_io", "open", "close", "get_max_io_size", "get_length"}

\* A check without the atomic-writes clause (mutant).
TypeValidNoAtomic(p) == RequiredOps \subseteq p.ops

TypeValid(p) == /\ RequiredOps \subseteq p.ops
                /\ p.atomic => "submit_metadata" \in p.ops

\* ocf_data_obj_type_init: check the ops, env_zalloc the type, create its
\* I/O allocator (on failure env_free the type, -ENOMEM).
OcfDataObjTypeInit(p) ==
  /\ ~typ.reg
  /\ IF ~TypeValid(p)
     THEN ret' = EINVAL /\ UNCHANGED <<typ, heap, uaf>>
     ELSE \/ "nomem" \in Faults /\ ret' = ERR_NO_MEM /\ UNCHANGED <<typ, heap, uaf>>
          \/ /\ "nomem" \in Faults /\ ret' = ENOMEM
             /\ Mem({TypeTok}, {TypeTok}, {}) /\ UNCHANGED typ
          \/ /\ typ' = [reg |-> TRUE, props |-> p] /\ ret' = 0
             /\ Mem({TypeTok, AllocTok}, {}, {})
  /\ UNCHANGED <<obj, io, rs, volSb, bug>>

\* ocf_data_obj_type_deinit: destroy the allocator, free the type.  Its
\* caller unregisters a type no object uses.
OcfDataObjTypeDeinit ==
  /\ typ.reg /\ \A o \in Objs : obj[o].st # "init"
  /\ typ' = [reg |-> FALSE, props |-> NONE]
  /\ Mem({}, {AllocTok, TypeTok}, {})
  /\ UNCHANGED <<obj, io, rs, volSb, bug, ret>>

-----------------------------------------------------------------------------
(* Objects.                                                                *)
\* An init that does not check env_strdup's result (mutant).
OcfDobjInitNoCheck(o, u, c, ok) ==
  CASE u = "none" -> [ob |-> [obj[o] EXCEPT !.st = "init", !.copy = FALSE], A |-> {}, r |-> 0]
    [] c -> [ob |-> [obj[o] EXCEPT !.st = "init", !.copy = TRUE, !.uuid = "dup"],
             A |-> IF ok THEN {<<"uuid", o>>} ELSE {}, r |-> 0]
    [] OTHER -> [ob |-> [obj[o] EXCEPT !.st = "init", !.copy = FALSE, !.uuid = "caller"],
                 A |-> {}, r |-> 0]

\* ocf_dobj_init(obj, type, uuid, uuid_copy) for a uuid ("none": NULL) and
\* whether env_strdup succeeds: the object, what it allocated, the result.
OcfDobjInit(o, u, c, ok) ==
  CASE u = "none" -> [ob |-> [obj[o] EXCEPT !.st = "init", !.copy = FALSE], A |-> {}, r |-> 0]
    [] c /\ ok -> [ob |-> [obj[o] EXCEPT !.st = "init", !.copy = TRUE, !.uuid = "dup"],
                   A |-> {<<"uuid", o>>}, r |-> 0]
    [] c -> [ob |-> [obj[o] EXCEPT !.copy = TRUE, !.uuid = "null"], A |-> {}, r |-> ERR_NO_MEM]
    [] OTHER -> [ob |-> [obj[o] EXCEPT !.st = "init", !.copy = FALSE, !.uuid = "caller"],
                 A |-> {}, r |-> 0]

\* ocf_dobj_deinit: free the uuid if it was copied and the copy exists.
OcfDobjDeinit(o) == IF obj[o].copy /\ obj[o].uuid # "null" THEN {<<"uuid", o>>} ELSE {}

\* A caller initialising an object embedded in its own structure.
InitEmbedded(o) ==
  /\ o \in Embedded /\ obj[o].st = "none" /\ typ.reg
  /\ \E u \in {"none", "given"}, c \in BOOLEAN, ok \in Outcomes :
       LET w == OcfDobjInit(o, u, c, ok) IN
       /\ obj' = [obj EXCEPT ![o] = w.ob] /\ ret' = w.r
       /\ Mem(w.A, {}, {})
  /\ UNCHANGED <<typ, io, rs, volSb, bug>>

\* ... and releasing it: ocf_dobj_deinit; the structure is not reused.
DeinitEmbedded(o) ==
  /\ o \in Embedded /\ obj[o].st = "init" /\ ~obj[o].open
  /\ obj' = [obj EXCEPT ![o].st = "gone"]
  /\ Mem({}, OcfDobjDeinit(o), {})
  /\ UNCHANGED <<typ, io, rs, volSb, bug, ret>>

\* ocf_dobj_create: env_zalloc the object, ocf_dobj_init with a copied
\* uuid; if that fails env_free the object and return its error.
OcfDobjCreate(o) ==
  /\ o \notin Embedded /\ obj[o].st = "none" /\ typ.reg
  /\ \/ "nomem" \in Faults /\ ret' = ERR_NO_MEM /\ UNCHANGED <<obj, heap, uaf>>
     \/ \E u \in {"none", "given"}, ok \in Outcomes :
          LET w == OcfDobjInit(o, u, TRUE, ok) IN
          IF w.r # 0
          THEN ret' = w.r /\ Mem({<<"obj", o>>} \cup w.A, {<<"obj", o>>}, {})
               /\ UNCHANGED obj
          ELSE ret' = 0 /\ Mem({<<"obj", o>>} \cup w.A, {}, {})
               /\ obj' = [obj EXCEPT ![o] = w.ob]
  /\ UNCHANGED <<typ, io, rs, volSb, bug>>

\* ocf_data_obj_destroy: ocf_dobj_deinit, env_free the object.  Its caller
\* has closed it and put its I/Os.
OcfDataObjDestroy(o) ==
  /\ o \notin Embedded /\ obj[o].st = "init" /\ ~obj[o].open
  /\ obj' = [obj EXCEPT ![o] = ObjZero]
  /\ Mem({}, OcfDobjDeinit(o) \cup {<<"obj", o>>}, {<<"obj", o>>})
  /\ UNCHANGED <<typ, io, rs, volSb, bug, ret>>

\* I/O of an object still outstanding (allocated or submitted).
Busy(o) == \/ \E i \in Ios : io[i].st # "free" /\ io[i].obj = o
           \/ rs.st = "wait" /\ io[rs.io].obj = o

\* ocf_dobj_open / ocf_dobj_close: the adapter's open (which may fail) and
\* close.
OcfDobjOpen(o) ==
  /\ obj[o].st = "init" /\ ~obj[o].open
  /\ \/ obj' = [obj EXCEPT ![o].open = TRUE] /\ ret' = 0
     \/ "io" \in Faults /\ ret' = ERR_IO /\ UNCHANGED obj
  /\ UNCHANGED <<typ, io, rs, volSb, heap, uaf, bug>>

OcfDobjClose(o) ==
  /\ obj[o].open /\ ~Busy(o)
  /\ obj' = [obj EXCEPT ![o].open = FALSE]
  /\ UNCHANGED <<typ, io, rs, volSb, heap, uaf, bug, ret>>

-----------------------------------------------------------------------------
(* I/O.                                                                    *)
\* ocf_data_obj_new_io (the adapter's new_io): an I/O from the type's
\* allocator (ocf_io_allocator_new may fail: NULL), io->obj set.
OcfDataObjNewIo(i, o, by) == [io EXCEPT ![i] = [st |-> "alloc", obj |-> o, by |-> by]]

\* What ocf_data_obj_del_io reads to free an I/O: io->obj (memory of the
\* data object layer unless embedded in the caller) and its type's allocator.
ObjUses(o) == {AllocTok} \cup (IF o \in Embedded THEN {} ELSE {<<"obj", o>>})
PutUses(i) == {<<"io", i>>} \cup ObjUses(io[i].obj)

\* A client end that never puts the I/O (mutant).
ClientEndNoPut(i) == /\ io' = [io EXCEPT ![i] = NoIo]
                     /\ Mem({}, {}, {<<"io", i>>})

\* The client's io->end: its completion puts the I/O (ocf_data_obj_del_io).
ClientEnd(i) == /\ io' = [io EXCEPT ![i] = NoIo]
                /\ Mem({}, {<<"io", i>>}, PutUses(i))

\* ocf_dobj_new_io: ops.new_io of an open object.
OcfDobjNewIo(o, i) ==
  /\ obj[o].open /\ io[i].st = "free"
  /\ \/ /\ io' = OcfDataObjNewIo(i, o, "client") /\ ret' = 0
        /\ Mem({<<"io", i>>}, {}, {AllocTok})
     \/ "nomem" \in Faults /\ ret' = ERR_NO_MEM /\ UNCHANGED <<io, heap, uaf>>
  /\ UNCHANGED <<typ, obj, rs, volSb, bug>>

\* dobj_submit_io / dobj_submit_flush / dobj_submit_discard of the
\* example adapter: io->end(io, 0) before returning; or an adapter that
\* hands the I/O to the device.
AdapterSubmit(i) ==
  \/ "sync" \in Modes /\ ClientEnd(i)
  \/ "async" \in Modes /\ io' = [io EXCEPT ![i].st = "sub"] /\ Mem({}, {}, {<<"io", i>>})

\* ocf_dobj_submit_io: ENV_BUG_ON(!ops.submit_io), ops.submit_io.
OcfDobjSubmitIo(i) ==
  /\ io[i].st = "alloc" /\ io[i].by = "client"
  /\ bug' = (bug \/ "submit_io" \notin Ops)
  /\ AdapterSubmit(i)
  /\ UNCHANGED <<typ, obj, rs, volSb, ret>>

\* ocf_dobj_submit_flush: ENV_BUG_ON(!ops.submit_flush); then, if there is
\* no submit_flush, ocf_io_end(io, 0), else ops.submit_flush.
OcfDobjSubmitFlush(i) ==
  /\ io[i].st = "alloc" /\ io[i].by = "client"
  /\ bug' = (bug \/ "submit_flush" \notin Ops)
  /\ IF "submit_flush" \notin Ops THEN ClientEnd(i) ELSE AdapterSubmit(i)
  /\ UNCHANGED <<typ, obj, rs, volSb, ret>>

\* ocf_dobj_submit_discard: without submit_discard ocf_io_end(io, 0) and
\* return, else ops.submit_discard.
OcfDobjSubmitDiscard(i) ==
  /\ io[i].st = "alloc" /\ io[i].by = "client"
  /\ IF "submit_discard" \notin Ops THEN ClientEnd(i) ELSE AdapterSubmit(i)
  /\ UNCHANGED <<typ, obj, rs, volSb, bug, ret>>

\* The device completes a client I/O.
DeviceEnd(i) ==
  /\ io[i].st = "sub" /\ io[i].by = "client"
  /\ ClientEnd(i)
  /\ UNCHANGED <<typ, obj, rs, volSb, bug, ret>>

-----------------------------------------------------------------------------
(* ocf_metadata_read_sb and its completion.                               *)
\* ocf_metadata_read_sb_complete with error e: unless e, copy the page into
\* context->superblock; ctx_data_free, ocf_io_put, context->error = e,
\* context->cmpl(context) (the caller validates the superblock), env_free.
\* A completion that copies the page whatever the error (mutant).
ReadSbCompleteCopyAlways(i, e, call) ==
  /\ rs' = [call EXCEPT !.st = "done", !.sb = volSb, !.cmpls = @ + 1,
                        !.got = [err |-> e, valid |-> OcfMetadataValidateSuperblock(volSb)]]
  /\ io' = [io EXCEPT ![i] = NoIo]

ReadSbComplete(i, e, call) ==
  LET sb == IF e = 0 THEN volSb ELSE call.sb IN
  /\ rs' = [call EXCEPT !.st = "done", !.sb = sb, !.cmpls = @ + 1,
                        !.got = [err |-> e, valid |-> OcfMetadataValidateSuperblock(sb)]]
  /\ io' = [io EXCEPT ![i] = NoIo]

\* ocf_metadata_read_sb: env_zalloc the context, ocf_volume_new_io,
\* ctx_data_alloc, ocf_io_set_data, each failure undoing the earlier ones;
\* then ocf_volume_submit_io and return 0.
OcfMetadataReadSb(o, i) ==
  /\ rs.st # "wait" /\ obj[o].open /\ io[i].st = "free"
  /\ LET call == [NoCall EXCEPT !.st = "done", !.io = i] IN
     \/ "nomem" \in Faults /\ rs' = [call EXCEPT !.ret = ERR_NO_MEM]
        /\ UNCHANGED <<io, heap, uaf>>
     \/ "nomem" \in Faults /\ rs' = [call EXCEPT !.ret = ERR_NO_MEM]
        /\ Mem({CtxTok}, {CtxTok}, {}) /\ UNCHANGED io
     \/ "nomem" \in Faults /\ rs' = [call EXCEPT !.ret = ERR_NO_MEM]
        /\ Mem({CtxTok, <<"io", i>>}, {<<"io", i>>, CtxTok}, {}) /\ UNCHANGED io
     \/ "set_data" \in Faults /\ rs' = [call EXCEPT !.ret = ERR_IO]
        /\ Mem({CtxTok, <<"io", i>>} \cup CtxDataAlloc, CtxDataFree \cup {<<"io", i>>, CtxTok}, {})
        /\ UNCHANGED io
     \/ "sync" \in Modes /\ ReadSbComplete(i, 0, call)
        /\ Mem({CtxTok, <<"io", i>>} \cup CtxDataAlloc, CtxDataFree \cup {<<"io", i>>, CtxTok},
               {CtxTok, DataTok, <<"io", i>>} \cup ObjUses(o))
     \/ /\ "async" \in Modes
        /\ rs' = [call EXCEPT !.st = "wait"]
        /\ io' = [OcfDataObjNewIo(i, o, "rs") EXCEPT ![i].st = "sub"]
        /\ Mem({CtxTok, <<"io", i>>} \cup CtxDataAlloc, {}, {})
  /\ ret' = rs'.ret
  /\ UNCHANGED <<typ, obj, volSb, bug>>

\* The device completes the superblock read, with or without an error.
ReadSbEnd(e) ==
  /\ rs.st = "wait" /\ e \in IF "io" \in Faults THEN {0, ERR_IO} ELSE {0}
  /\ ReadSbComplete(rs.io, e, rs)
  /\ Mem({}, CtxDataFree \cup {<<"io", rs.io>>, CtxTok}, {CtxTok, DataTok} \cup PutUses(rs.io))
  /\ UNCHANGED <<typ, obj, volSb, bug, ret>>

-----------------------------------------------------------------------------
Next ==
  \/ \E p \in Props : OcfDataObjTypeInit(p)
  \/ OcfDataObjTypeDeinit
  \/ \E o \in Objs : \/ InitEmbedded(o) \/ DeinitEmbedded(o)
                     \/ OcfDobjCreate(o) \/ OcfDataObjDestroy(o)
                     \/ OcfDobjOpen(o) \/ OcfDobjClose(o)
  \/ \E o \in Objs, i \in Ios : OcfDobjNewIo(o, i) \/ OcfMetadataReadSb(o, i)
  \/ \E i \in Ios : \/ OcfDobjSubmitIo(i) \/ OcfDobjSubmitFlush(i)
                    \/ OcfDobjSubmitDiscard(i) \/ DeviceEnd(i)
  \/ \E e \in {0, ERR_IO} : ReadSbEnd(e)

Spec == Init /\ [][Next]_vars

-----------------------------------------------------------------------------
TypeOK ==
  /\ typ.reg \in BOOLEAN /\ typ.props \in Props \cup {NONE}
  /\ typ.reg => /\ RequiredOps \subseteq Ops
                /\ typ.props.atomic => "submit_metadata" \in Ops
  /\ \A o \in Objs : obj[o].st \in {"none", "init", "gone"}
                     /\ obj[o].uuid \in {"null", "caller", "dup"}
  /\ \A i \in Ios : io[i].st \in {"free", "alloc", "sub"}
                    /\ (io[i].st # "free" => io[i].obj \in Objs)
  /\ rs.st \in {"idle", "wait", "done"} /\ rs.cmpls \in Nat
  /\ uaf \in BOOLEAN /\ bug \in BOOLEAN

\* What the data object layer and ocf_metadata_read_sb own at this moment:
\* a registered type and its allocator, each created object and its uuid
\* copy, each allocated or submitted I/O, and a pending read's context
\* and data.
Owned ==
  (IF typ.reg THEN {TypeTok, AllocTok} ELSE {})
  \cup {<<"obj", o>> : o \in {x \in Objs \ Embedded : obj[x].st = "init"}}
  \cup {<<"uuid", o>> : o \in {x \in Objs : obj[x].st = "init" /\ obj[x].uuid = "dup"}}
  \cup {<<"io", i>> : i \in {x \in Ios : io[x].st # "free"}}
  \cup (IF rs.st = "wait" THEN {CtxTok, DataTok} ELSE {})

\* Every error path of ocf_data_obj_type_init, ocf_dobj_create,
\* ocf_dobj_init and ocf_metadata_read_sb gives back what it allocated,
\* and deinit, destroy, del_io and the read's completion free exactly what
\* they own: nothing leaks.
VolumeMemoryBalanced == heap = Owned

\* No allocation is used or freed after it was freed, whether the adapter
\* completes an I/O inside its submit call or later: no double end of an
\* I/O, no free of a borrowed or failed uuid.
VolumeMemorySafe == ~uaf

\* An ocf_metadata_read_sb call that returned an error never calls back; one
\* that returned 0 calls back exactly once, with the volume's superblock
\* if the read succeeded and with the zeroed one (no metadata) if it failed.
ReadSbSound ==
  /\ rs.cmpls <= 1
  /\ rs.st = "done" => (rs.cmpls = 1 <=> rs.ret = 0)
  /\ rs.got # NONE =>
       rs.got.valid = IF rs.got.err = 0 THEN OcfMetadataValidateSuperblock(volSb)
                      ELSE ERR_NO_METADATA

\* No ENV_BUG_ON fires for a type ocf_data_obj_type_init accepted.
NoBugOn == ~bug
=============================================================================

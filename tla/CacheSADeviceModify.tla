------------------------- MODULE CacheSADeviceModify -------------------------
(***************************************************************************)
(* The modify operations computed on the GPU                               *)
(* (include/ecache/ec_set_associative_device_modify.cuh), called through   *)
(* GpuTable with modify_on_gpu.                                            *)
(*                                                                         *)
(* An operation takes its event from the registry, locks modify_mutex_,    *)
(* queues the kernels that compute the modify list and invalidate its      *)
(* tags, waits for them (cudaStreamSynchronize), records the event under   *)
(* custom_flow_mutex_, and queues the kernels that write rows and tags     *)
(* behind that event.  It returns without waiting for those.               *)
(*                                                                         *)
(* Which keys an insert admits and which ways it evicts depends on         *)
(* counters and priorities; here it is any choice.  All operations use one *)
(* modify stream, as docs/advanced.md requires.                            *)
(***************************************************************************)
EXTENDS EmbedCacheSA

vars == <<d_tags, cache, contexts, stream, held, failed, flow, modify_stream, list,
          sync_event, ahead, pc, op, req>>
hostVars == <<pc, op, req>>

\* GpuTable::insert, update, update_accumulate, erase: create the event, call the cache.
Call(m, o, r) ==
    /\ pc[m] = "idle"
    /\ create_sync_event(m)
    /\ pc' = [pc EXCEPT ![m] = "call"]
    /\ op' = [op EXCEPT ![m] = o]
    /\ req' = [req EXCEPT ![m] = r]
    /\ UNCHANGED <<d_tags, cache, contexts, stream, held, failed, flow, modify_stream, list, ahead>>

\* Mutant: the operations do not lock modify_mutex_.
modify_mutex_Unlocked == {}

\* modify_mutex_ is held from the start of the cache operation to its return.
modify_mutex == {m \in Modifiers : pc[m] \in {"sync", "commit"}}

Start(m) ==
    /\ pc[m] = "call"
    /\ modify_mutex = {}
    /\ QueueModify(<<Kernel("invalidate", m)>>)
    /\ pc' = [pc EXCEPT ![m] = "sync"]
    /\ UNCHANGED <<d_tags, cache, contexts, stream, held, failed, flow, list, sync_event, ahead, op, req>>

\* ComputeSetUpdateData and ComputeSetInvalidateData: the slots that hold the keys.
HitList(r) == {e \in Entries : /\ e.key \in DOMAIN r
                               /\ e.slot \in WayMask(e.key)
                               /\ e.val = r[e.key]}

\* Mutant: a key that is already in the cache is inserted again.
ReplaceLists_NoHitCheck(r) ==
    {l \in SUBSET {e \in Entries : /\ e.key \in DOMAIN r
                                   /\ e.slot \in {SetOf[e.key]} \X Ways
                                   /\ e.val = r[e.key]} :
        \A e, f \in l : (e.slot = f.slot \/ e.key = f.key) => e = f}

\* ComputeSetReplaceData: some of the absent keys, each in a way of its set of its own.
ReplaceLists(r) ==
    {l \in SUBSET {e \in Entries : /\ e.key \in DOMAIN r
                                   /\ WayMask(e.key) = {}
                                   /\ e.slot \in {SetOf[e.key]} \X Ways
                                   /\ e.val = r[e.key]} :
        \A e, f \in l : (e.slot = f.slot \/ e.key = f.key) => e = f}

ComputeAndInvalidate ==
    /\ ModifyRuns({"invalidate"})
    /\ LET m == ModifyHead.m IN
       \E l \in IF op[m] = "insert" THEN ReplaceLists(req[m]) ELSE {HitList(req[m])} :
          InvalidateTags(l)
    /\ UNCHANGED hostVars

\* Mutant: the event is recorded without custom_flow_mutex_.
RecordEvent_NoFlowLock(m) ==
    /\ Synced(m)
    /\ event_record(m)
    /\ pc' = [pc EXCEPT ![m] = "commit"]
    /\ UNCHANGED <<d_tags, cache, contexts, stream, held, failed, flow, modify_stream, list, sync_event, op, req>>

\* The tail of invalidate_tags_and_sync: custom_flow_mutex_ is taken exclusively, so no
\* custom flow is half queued, and is released as soon as the event is recorded.
RecordEvent(m) ==
    /\ Synced(m)
    /\ ~FlowLockOwned
    /\ event_record(m)
    /\ pc' = [pc EXCEPT ![m] = "commit"]
    /\ UNCHANGED <<d_tags, cache, contexts, stream, held, failed, flow, modify_stream, list, sync_event, op, req>>

\* A CUDA error in event_record or event_wait_stream makes invalidate_tags_and_sync return
\* an error; its callers do not look at it and go on.
RecordEventFails(m) ==
    /\ EventMayFail
    /\ Synced(m)
    /\ ~FlowLockOwned
    /\ ahead' = [ahead EXCEPT ![m] = [c \in Contexts |-> 0]]
    /\ pc' = [pc EXCEPT ![m] = "commit"]
    /\ UNCHANGED <<d_tags, cache, contexts, stream, held, failed, flow, modify_stream, list, sync_event, op, req>>

\* Mutant: an accumulation does not restore the tags it invalidated.
CommitKernels_NoTags(m) ==
    CASE op[m] = "invalidate" -> <<>>
      [] op[m] = "update_accumulate" -> <<Kernel("acc", m)>>
      [] OTHER -> <<Kernel("mem", m), Kernel("tags", m)>>

\* The rest of the operation: queue the row and tag kernels (none for invalidate), return.
CommitKernels(m) ==
    CASE op[m] = "invalidate" -> <<>>
      [] op[m] = "update_accumulate" -> <<Kernel("acc", m), Kernel("tags", m)>>
      [] OTHER -> <<Kernel("mem", m), Kernel("tags", m)>>

Commit(m) ==
    /\ pc[m] = "commit"
    /\ QueueModify(CommitKernels(m))
    /\ list' = [list EXCEPT ![m] = IF op[m] = "invalidate" THEN {} ELSE @]
    /\ sync_event' = [sync_event EXCEPT ![m] = {}]
    /\ pc' = [pc EXCEPT ![m] = "idle"]
    /\ op' = [op EXCEPT ![m] = "none"]
    /\ req' = [req EXCEPT ![m] = <<>>]
    /\ UNCHANGED <<d_tags, cache, contexts, stream, held, failed, flow, ahead>>

\* clear_cache; its caller has synchronised with every other operation before the call.
clear_cache(m) ==
    /\ \A n \in Modifiers : pc[n] = "idle"
    /\ modify_stream = <<>>
    /\ QueueModify(<<Kernel("clear", m)>>)
    /\ UNCHANGED <<d_tags, cache, contexts, stream, held, failed, flow, list, sync_event, ahead>>
    /\ UNCHANGED hostVars

FillTags ==
    /\ ModifyRuns({"clear"})
    /\ d_tags' = [s \in Slots |-> Sentinel]
    /\ modify_stream' = Tail(modify_stream)
    /\ UNCHANGED <<cache, contexts, stream, held, failed, flow, list, sync_event, ahead>>
    /\ UNCHANGED hostVars

LookupNext(c) ==
    \/ ContextCreate(c, Quiet)
    \/ ContextDestroy(c)
    \/ \E k \in Keys : lookup(c, k)
    \/ \E k \in Keys : start_custom_flow(c, k, FALSE)
    \/ start_custom_flow_throws(c)
    \/ end_custom_flow(c)
    \/ ReadTags(c)
    \/ ReadRow(c)

ModifyNext(m) ==
    \/ \E o \in Calls[m], r \in Requests : Call(m, o, r)
    \/ Start(m)
    \/ RecordEvent(m)
    \/ RecordEventFails(m)
    \/ Commit(m)
    \/ clear_cache(m)

Next ==
    \/ \E c \in Contexts : LookupNext(c) /\ UNCHANGED hostVars
    \/ \E m \in Modifiers : ModifyNext(m)
    \/ ComputeAndInvalidate
    \/ MemUpdate /\ UNCHANGED hostVars
    \/ TagUpdate /\ UNCHANGED hostVars
    \/ FillTags

Spec == Init /\ [][Next]_vars

\* Queued kernels run, a flow that was started is ended, and a thread that holds no lock it
\* waits for goes on.  Both mutexes are strongly fair: a thread that finds a mutex free
\* again and again gets it in the end.
FairSpec ==
    /\ Spec
    /\ WF_vars(ComputeAndInvalidate)
    /\ WF_vars(MemUpdate /\ UNCHANGED hostVars)
    /\ WF_vars(TagUpdate /\ UNCHANGED hostVars)
    /\ WF_vars(FillTags)
    /\ \A c \in Contexts :
          /\ WF_vars(ReadTags(c) /\ UNCHANGED hostVars)
          /\ WF_vars(ReadRow(c) /\ UNCHANGED hostVars)
          /\ WF_vars(end_custom_flow(c) /\ UNCHANGED hostVars)
    /\ \A m \in Modifiers : SF_vars(Start(m)) /\ SF_vars(RecordEvent(m)) /\ WF_vars(Commit(m))

\* Every modify call returns: the stream it waits for drains and the custom flows it waits
\* for end.
ModifyReturns == \A m \in Modifiers : pc[m] = "call" ~> pc[m] = "idle"

\* A key that an update has hidden becomes visible again, in the same slot:
\* an update does not evict.
UpdateRestoresKey ==
    \A m \in Modifiers, e \in Entries :
        pc[m] = "commit" /\ op[m] \in {"update", "update_accumulate"} /\ e \in list[m] ~> d_tags[e.slot] = e.key

-----------------------------------------------------------------------------
\* What every step of the cache keeps when contexts are created between operations only and
\* events do not fail: the shapes of the queues, what the event and the invalidation cover,
\* and with them NoRowRace, TaggedRowIsOwn and LookupIsAtomic.
DInv == PlacesInv /\ EventsInv /\ RowsInv
=============================================================================

-------------------------- MODULE CacheSAHostModify --------------------------
(***************************************************************************)
(* The modify operations computed on the host                              *)
(* (include/ecache/ec_set_associative_host_modify.h), called through       *)
(* GpuTable without modify_on_gpu.                                         *)
(*                                                                         *)
(* The host keeps its own copy of the tags, h_tags_.  An operation takes   *)
(* rw_lock_ (shared for the updates), searches h_tags_ for the slots of    *)
(* its keys, changes h_tags_ at once when it is an insert or an            *)
(* invalidate, and returns early when it found nothing.  Then it queues    *)
(* the invalidation of the device tags, waits for it, takes                *)
(* custom_flow_mutex_ exclusively, records the event, queues the row and   *)
(* tag kernels behind it and returns, which releases both locks.           *)
(***************************************************************************)
EXTENDS EmbedCacheSA

CONSTANT
    SyncAfterClear    \* does the caller of clear_cache synchronise the stream after it?

ASSUME SyncAssumption == SyncAfterClear \in BOOLEAN

Writers == {"insert", "invalidate"}   \* operations that take rw_lock_ exclusively

VARIABLES
    h_tags,   \* h_tags_: the tags as the host knows them
    h_list,   \* h_list[m]: context->list, the list in the host memory of modify context m
    errors    \* history: has the event of some operation failed?

vars == <<d_tags, cache, contexts, stream, held, failed, flow, modify_stream, list,
          sync_event, ahead, pc, op, req, h_tags, h_list, errors>>
hostVars == <<pc, op, req, h_tags, h_list, errors>>

HInit ==
    /\ Init
    /\ h_tags = [s \in Slots |-> Sentinel]
    /\ h_list = [m \in Modifiers |-> {}]
    /\ errors = FALSE

ClearQueued == \E i \in 1 .. Len(modify_stream) : modify_stream[i].kind = "clear"

\* custom_flow_mutex_ is held exclusively from the recording of the event to the return.
FlowWriter == \E m \in Modifiers : pc[m] = "commit"

\* GpuTable::insert, update, update_accumulate, erase: create the event, call the cache.
Call(m, o, r) ==
    /\ pc[m] = "idle"
    /\ SyncAfterClear => ~ClearQueued
    /\ create_sync_event(m)
    /\ pc' = [pc EXCEPT ![m] = "call"]
    /\ op' = [op EXCEPT ![m] = o]
    /\ req' = [req EXCEPT ![m] = r]
    /\ UNCHANGED <<d_tags, cache, contexts, stream, held, failed, flow, modify_stream, list, ahead,
                   h_tags, h_list, errors>>

\* rw_lock_ is held from the start of the cache operation to its return.
rw_lock == {m \in Modifiers : pc[m] \in {"sync", "commit"}}

\* Mutant: every operation takes rw_lock_ shared.
CanLock_Shared(m) == TRUE

CanLock(m) == IF op[m] \in Writers THEN rw_lock = {}
              ELSE \A n \in rw_lock : op[n] \notin Writers

HostWays(k) == {s \in {SetOf[k]} \X Ways : h_tags[s] = k}

\* Mutant: the search takes any way of the set for a hit.
SearchTags_AnyWay(r) == {e \in Entries : /\ e.key \in DOMAIN r
                                         /\ e.slot \in {SetOf[e.key]} \X Ways
                                         /\ e.val = r[e.key]}

\* search_tag_storage_for_update, and the same search in invalidate.
SearchTags(r) == {e \in Entries : /\ e.key \in DOMAIN r
                                  /\ e.slot \in HostWays(e.key)
                                  /\ e.val = r[e.key]}

\* Mutant: a key that is already in the cache is inserted again.
InsertMaps_NoHitCheck(r) ==
    {l \in SUBSET {e \in Entries : /\ e.key \in DOMAIN r
                                   /\ e.slot \in {SetOf[e.key]} \X Ways
                                   /\ e.val = r[e.key]} : Injective(l)}

\* The insertMap of insert: some keys of the batch, each in a way of its set of its own (which
\* ones depends on counters and priorities).  The keys take their turns, each on the tags that
\* the turns before it left: a key that was resident is inserted only when an earlier key of
\* the batch took its way, and a way that was taken is not taken again.
InsertMaps(r) ==
    {l \in SUBSET {e \in Entries : /\ e.key \in DOMAIN r
                                   /\ e.slot \in {SetOf[e.key]} \X Ways
                                   /\ e.val = r[e.key]} :
        /\ Injective(l)
        /\ \E turn \in [l -> 1 .. MaxUpdate] :
              \A e \in l : \A s \in HostWays(e.key) : \E f \in l : f.slot = s /\ turn[f] < turn[e]}

\* Mutant: invalidate leaves h_tags_ as it was.
TagsAfter_InsertOnly(o, l) ==
    [s \in Slots |-> IF s \in SlotsOf(l) /\ o = "insert" THEN EntryAt(l, s).key ELSE h_tags[s]]

\* h_tags_ after the host part of operation o on list l.
TagsAfter(o, l) ==
    [s \in Slots |-> IF s \notin SlotsOf(l) \/ o \notin Writers THEN h_tags[s]
                     ELSE IF o = "insert" THEN EntryAt(l, s).key ELSE Sentinel]

Return(m) ==
    /\ pc' = [pc EXCEPT ![m] = "idle"]
    /\ op' = [op EXCEPT ![m] = "none"]
    /\ req' = [req EXCEPT ![m] = <<>>]
    /\ sync_event' = [sync_event EXCEPT ![m] = {}]

\* The cache operation up to its cudaStreamSynchronize, or its early return.
Start(m) ==
    /\ pc[m] = "call"
    /\ CanLock(m)
    /\ \E l \in IF op[m] = "insert" THEN InsertMaps(req[m]) ELSE {SearchTags(req[m])} :
          /\ h_list' = [h_list EXCEPT ![m] = l]
          /\ h_tags' = TagsAfter(op[m], l)
          /\ IF l = {}
             THEN Return(m) /\ UNCHANGED modify_stream
             ELSE /\ QueueModify(<<Kernel("invalidate", m)>>)
                  /\ pc' = [pc EXCEPT ![m] = "sync"]
                  /\ UNCHANGED <<op, req, sync_event>>
    /\ UNCHANGED <<d_tags, cache, contexts, stream, held, failed, flow, list, ahead, errors>>

\* The copy of the list to the device and invalidate_tag_kernel.
CopyAndInvalidate ==
    /\ ModifyRuns({"invalidate"})
    /\ InvalidateTags(h_list[ModifyHead.m])
    /\ UNCHANGED hostVars

\* WriteLock(custom_flow_mutex_), event_record and event_wait_stream of modify.
RecordEvent(m) ==
    /\ Synced(m)
    /\ ~FlowLockOwned
    /\ ~FlowWriter
    /\ event_record(m)
    /\ pc' = [pc EXCEPT ![m] = "commit"]
    /\ UNCHANGED <<d_tags, cache, contexts, stream, held, failed, flow, modify_stream, list, sync_event,
                   op, req, h_tags, h_list, errors>>

\* A CUDA error in event_record or event_wait_stream: modify returns it, rows and tags are
\* not written, and h_tags_ stays as Start left it.
RecordEventFails(m) ==
    /\ EventMayFail
    /\ Synced(m)
    /\ ~FlowLockOwned
    /\ ~FlowWriter
    /\ Return(m)
    /\ list' = [list EXCEPT ![m] = {}]
    /\ h_list' = [h_list EXCEPT ![m] = {}]
    /\ errors' = TRUE
    /\ UNCHANGED <<d_tags, cache, contexts, stream, held, failed, flow, modify_stream, ahead, h_tags>>

\* The rest of modify: queue the row and tag kernels (none for invalidate), return.
CommitKernels(m) ==
    CASE op[m] = "invalidate" -> <<>>
      [] op[m] = "update_accumulate" -> <<Kernel("acc", m), Kernel("tags", m)>>
      [] OTHER -> <<Kernel("mem", m), Kernel("tags", m)>>

Commit(m) ==
    /\ pc[m] = "commit"
    /\ QueueModify(CommitKernels(m))
    /\ Return(m)
    /\ list' = [list EXCEPT ![m] = IF op[m] = "invalidate" THEN {} ELSE @]
    /\ h_list' = [h_list EXCEPT ![m] = {}]
    /\ UNCHANGED <<d_tags, cache, contexts, stream, held, failed, flow, ahead, h_tags, errors>>

\* clear_cache: fills h_tags_ and queues a copy of it to the device; its caller has
\* synchronised with every other operation before the call.
clear_cache(m) ==
    /\ \A n \in Modifiers : pc[n] = "idle"
    /\ modify_stream = <<>>
    /\ h_tags' = [s \in Slots |-> Sentinel]
    /\ QueueModify(<<Kernel("clear", m)>>)
    /\ UNCHANGED <<d_tags, cache, contexts, stream, held, failed, flow, list, sync_event, ahead,
                   pc, op, req, h_list, errors>>

\* The copy reads the pinned h_tags_ when it runs, not when it was queued.
CopyTags ==
    /\ ModifyRuns({"clear"})
    /\ d_tags' = h_tags
    /\ modify_stream' = Tail(modify_stream)
    /\ UNCHANGED <<cache, contexts, stream, held, failed, flow, list, sync_event, ahead>>
    /\ UNCHANGED hostVars

LookupNext(c) ==
    \/ ContextCreate(c, Quiet)
    \/ ContextDestroy(c)
    \/ \E k \in Keys : lookup(c, k)
    \/ \E k \in Keys : start_custom_flow(c, k, FlowWriter)
    \/ start_custom_flow_throws(c)
    \/ end_custom_flow(c)
    \/ ReadTags(c)
    \/ ReadRow(c)

ModifyNext(m) ==
    \/ \E o \in Calls[m], r \in Requests : Call(m, o, r)
    \/ Start(m)
    \/ RecordEvent(m)
    \/ RecordEventFails(m)
    \/ Commit(m)
    \/ clear_cache(m)

Next ==
    \/ \E c \in Contexts : LookupNext(c) /\ UNCHANGED hostVars
    \/ \E m \in Modifiers : ModifyNext(m)
    \/ CopyAndInvalidate
    \/ MemUpdate /\ UNCHANGED hostVars
    \/ TagUpdate /\ UNCHANGED hostVars
    \/ CopyTags

Spec == HInit /\ [][Next]_vars

-----------------------------------------------------------------------------
\* At any time, a slot the device shows under a key is one the host knows under that key,
\* or one that a running operation or a queued copy is about to hide.
DeviceTagsKnown ==
    \A s \in Slots : d_tags[s] \notin {Sentinel, h_tags[s]} =>
        ClearQueued \/ \E m \in Modifiers : pc[m] = "sync" /\ s \in SlotsOf(h_list[m])

\* When no operation runs and the modify stream is empty, the host's tags h_tags_ are the
\* device's, so that the next operation decides on what lookups really see.  When an event
\* has failed, the device still shows no key the host does not know.
MirrorAgrees ==
    /\ ~errors /\ Owners = {} /\ modify_stream = <<>> => h_tags = d_tags
    /\ DeviceTagsKnown

\* As long as no event has failed, a lookup copies its own key's row as it was at one moment
\* of the lookup.
LookupsAtomic == ~errors => TaggedRowIsOwn /\ LookupIsAtomic

\* An update or accumulation writes only to slots the device shows under the key it updates,
\* so it changes no key's residency: the list was searched in h_tags_, and is still right for
\* d_tags_ when the kernel gets to it.
UpdatesItsOwn ==
    \A m \in Modifiers : op[m] \notin Writers /\ list'[m] \notin {list[m], {}} =>
        \A e \in list'[m] : d_tags[e.slot] = e.key

\* As long as no event has failed, updates keep to the slots of their keys.
UpdateKeepsResidency == [][~errors => UpdatesItsOwn]_vars

-----------------------------------------------------------------------------
(***************************************************************************)
(* The inductive invariant (proved in HostModifyProofs).                   *)
(***************************************************************************)
\* The invalidation of m is queued.
Pending(m) == pc[m] = "sync" /\ ~Synced(m)

\* Slot s shows key k, or will once the tag kernel that is queued has run.
WillShow(s, k) ==
    \/ d_tags[s] = k
    \/ \E m \in Modifiers : Queued(m, {"tags"}) /\ \E e \in list[m] : e.slot = s /\ e.key = k

HostTypeOK ==
    /\ h_tags \in [Slots -> Tags]
    /\ h_list \in [Modifiers -> SUBSET Entries]
    /\ errors \in BOOLEAN
    /\ \A m \in Modifiers : pc[m] # "idle" => op[m] \in Calls[m]

\* The host knows each key in one way.
HostApart == \A k \in Keys : \A s, t \in HostWays(k) : s = t

\* The list of a running operation is what h_tags_ says of its slots, the device has the same
\* list as soon as it has invalidated it, and an operation outside the cache has none.
ListsMirrored ==
    \A m \in Modifiers :
        IF m \notin Owners THEN h_list[m] = {}
        ELSE /\ Injective(h_list[m])
             /\ ~Pending(m) => list[m] = h_list[m]
             /\ \A e \in h_list[m] :
                   /\ e.slot \in {SetOf[e.key]} \X Ways
                   /\ h_tags[e.slot] = IF op[m] = "invalidate" THEN Sentinel ELSE e.key

\* While the copy of the cleared tags is queued, nothing else runs.
ClearAlone ==
    ClearQueued => (\A m \in Modifiers : pc[m] = "idle") /\ \A s \in Slots : h_tags[s] = Sentinel

\* The host knows what the device shows or will show, except where an invalidation is queued.
ShownIsKnown ==
    \A s \in Slots, k \in Keys : WillShow(s, k) =>
        h_tags[s] = k \/ ClearQueued \/ \E m \in Modifiers : Pending(m) /\ s \in SlotsOf(h_list[m])

\* A queued invalidation hides its keys wherever they show: where they will be, or where
\* another key of the list will be.
PendingHides ==
    \A m \in Modifiers : Pending(m) =>
        \A e \in h_list[m] : \A s \in {SetOf[e.key]} \X Ways :
            WillShow(s, e.key) => s \in SlotsOf(h_list[m])

\* Without errors the device shows or will show what the host knows, except where an operation
\* is about to write, and an update finds the keys it was called for.
KnownIsShown ==
    /\ \A s \in Slots, k \in Keys : h_tags[s] = k =>
          WillShow(s, k) \/ \E m \in Owners : s \in SlotsOf(h_list[m])
    /\ \A m \in Modifiers : Pending(m) /\ op[m] \notin Writers =>
          \A e \in h_list[m] : WillShow(e.slot, e.key)

\* What every step keeps: the mirror and the device's tags agree up to the operation that is
\* running, also after errors; rows and lookups are right as long as there are none.
HInv ==
    /\ PlacesInv
    /\ EventsInv
    /\ HostTypeOK
    /\ HostApart
    /\ ListsMirrored
    /\ ClearAlone
    /\ ShownIsKnown
    /\ PendingHides
    /\ ~errors => KnownIsShown /\ RowsInv
=============================================================================

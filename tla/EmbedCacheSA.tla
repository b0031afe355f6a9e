---------------------------- MODULE EmbedCacheSA ----------------------------
(***************************************************************************)
(* The set-associative GPU embedding cache: what include/ecache/           *)
(* ec_set_associative.h and ec_set_associative.cuh give to both modify     *)
(* implementations (CacheSAHostModify and CacheSADeviceModify), driven the *)
(* way src/gpu_table.cu drives them.                                       *)
(*                                                                         *)
(* The module holds the device state (tags and rows), the lookup streams   *)
(* with the kernels queued on them, the modify stream, the registry of     *)
(* execution contexts and the custom-flow lock.  Kernels of one stream run *)
(* in FIFO order, kernels of different streams in any order: that is all   *)
(* the ordering CUDA gives.  The host side of the modify operations is in  *)
(* CacheSAHostModify and CacheSADeviceModify, which extend this module.    *)
(*                                                                         *)
(* Abstractions.  A tag is the key it encodes.  A row is the key it was    *)
(* written for and a value, so that a row read under the wrong key is      *)
(* visible.  A lookup kernel handles one key: the threads of a kernel      *)
(* treat their keys independently and every property below is about one    *)
(* key and one slot.                                                       *)
(***************************************************************************)
EXTENDS Naturals, Sequences, FiniteSets

CONSTANTS
    Contexts,      \* execution contexts; each one owns a lookup stream
    FlowContexts,  \* contexts whose lookups are large enough to be custom flows
    Modifiers,     \* host threads that call modify operations, one modify context each
    Keys,          \* embedding keys
    Sets,          \* cache sets
    Ways,          \* ways of a set (NUM_WAYS)
    SetOf,         \* embed_cache_hash_set_idx: the set of each key
    MaxVal,        \* row values are 0..MaxVal, accumulation wraps around
    MaxQueue,      \* bound: lookup kernels queued on one stream
    MaxUpdate,     \* max_update_sz of a modify context
    Sentinel,      \* sentinel_key, the tag of a free slot
    LateContexts,  \* may a context be created while a modify operation runs?
    EventMayFail,  \* may recording or waiting on an event return a CUDA error?
    Calls          \* bound: the operations each modifier calls

Ops == {"insert", "update", "update_accumulate", "invalidate"}

ASSUME SetsAssumption == SetOf \in [Keys -> Sets]
ASSUME SentinelAssumption == Sentinel \notin Keys
ASSUME BoundsAssumption == MaxVal \in Nat /\ MaxQueue \in Nat /\ MaxUpdate \in Nat
ASSUME FlowAssumption == FlowContexts \subseteq Contexts
ASSUME SwitchAssumption == {LateContexts, EventMayFail} \subseteq BOOLEAN
ASSUME CallsAssumption == Calls \in [Modifiers -> SUBSET Ops]

Slots == Sets \X Ways
Values == 0 .. MaxVal
Tags == Keys \cup {Sentinel}
Rows == [key : Tags, val : Values]

\* One element of a ModifyList: the slot to modify, its new tag and its source row.
Entries == [slot : Slots, key : Keys, val : Values]

\* Values of "held": no tag was read yet, or the tags were read and none matched.
Nothing == [is |-> "nothing"]
Missed == [is |-> "missed"]
\* "row" is history: the row the slot had when its tag was read.
Found(s, k, r) == [is |-> "found", slot |-> s, key |-> k, row |-> r]
Held == {Nothing, Missed} \cup {Found(s, k, r) : s \in Slots, k \in Keys, r \in Rows}

LookupKernels == [kind : {"lookup", "find", "gather"}, key : Keys]
ModifyKernels == [kind : {"invalidate", "mem", "acc", "tags", "clear"}, m : Modifiers]

\* The keys and source rows of a call: unique keys, at most max_update_sz of them.
Requests == UNION {[ks -> Values] : ks \in {ks \in SUBSET Keys : Cardinality(ks) \in 1 .. MaxUpdate}}

Pcs == {"idle", "call", "sync", "commit"}

VARIABLES
    d_tags,         \* d_tags_: the tag of each slot, on the device
    cache,          \* cache_: the row of each slot
    contexts,       \* ContextRegistry::contexts_, and with it lookup_streams_
    stream,         \* stream[c]: lookup kernels queued on the stream of c, oldest first
    held,           \* held[c]: what the running lookup of c read in the tags
    failed,         \* contexts whose last custom flow ended with an exception
    flow,           \* flow[c]: key of the custom flow c is queueing, or Sentinel
    modify_stream,  \* kernels queued on the modify stream, oldest first
    list,           \* list[m]: the ModifyList in the device memory of modify context m
    sync_event,     \* sync_event[m]: lookup streams the event of m covers
    ahead,          \* ahead[m][c]: kernels of stream c that the recorded event of m waits for
    pc,             \* pc[m]: where modifier m is in its operation
    op,             \* op[m]: the operation
    req             \* req[m]: the keys and source rows passed to it

\* The slots whose tag matches k (embed_cache_get_way_mask).
WayMask(k) == {s \in {SetOf[k]} \X Ways : d_tags[s] = k}

\* modify_context_create: each thread has a modify context with an empty list and is idle.
modify_context_create ==
    /\ list = [m \in Modifiers |-> {}]
    /\ sync_event = [m \in Modifiers |-> {}]
    /\ ahead = [m \in Modifiers |-> [c \in Contexts |-> 0]]
    /\ pc = [m \in Modifiers |-> "idle"]
    /\ op = [m \in Modifiers |-> "none"]
    /\ req = [m \in Modifiers |-> <<>>]

Init ==
    /\ d_tags = [s \in Slots |-> Sentinel]
    /\ cache = [s \in Slots |-> [key |-> Sentinel, val |-> 0]]
    /\ contexts \in SUBSET Contexts
    /\ stream = [c \in Contexts |-> <<>>]
    /\ held = [c \in Contexts |-> Nothing]
    /\ failed = {}
    /\ flow = [c \in Contexts |-> Sentinel]
    /\ modify_stream = <<>>
    /\ modify_context_create

-----------------------------------------------------------------------------
(***************************************************************************)
(* Execution contexts.  The constructor registers the context, the         *)
(* destructor first waits for both of its streams to drain.                *)
(***************************************************************************)
\* quiet: no modify operation is between taking its event and recording it.
ContextCreate(c, quiet) ==
    /\ c \notin contexts
    /\ LateContexts \/ quiet
    /\ contexts' = contexts \cup {c}
    /\ UNCHANGED <<d_tags, cache, stream, held, failed, flow, modify_stream, list, sync_event, ahead>>

ContextDestroy(c) ==
    /\ c \in contexts
    /\ flow[c] = Sentinel
    /\ stream[c] = <<>>
    /\ modify_stream = <<>>
    /\ contexts' = contexts \ {c}
    /\ UNCHANGED <<d_tags, cache, stream, held, failed, flow, modify_stream, list, sync_event, ahead>>

-----------------------------------------------------------------------------
(***************************************************************************)
(* Queueing lookups.  A lookup is one kernel, or a custom flow of several  *)
(* kernels (sort-gather, pipeline gather): a "find" kernel that turns keys *)
(* into row addresses and a "gather" kernel that copies the rows, queued   *)
(* between start_custom_flow and end_custom_flow.                          *)
(***************************************************************************)
Queue(c, kind, k) == stream' = [stream EXCEPT ![c] = Append(@, [kind |-> kind, key |-> k])]

CanQueue(c) == c \in contexts /\ flow[c] = Sentinel /\ Len(stream[c]) < MaxQueue

lookup(c, k) ==
    /\ CanQueue(c)
    /\ Queue(c, "lookup", k)
    /\ UNCHANGED <<d_tags, cache, contexts, held, failed, flow, modify_stream, list, sync_event, ahead>>

\* custom_flow_lock_ is a single std::shared_lock object of the cache.
FlowLockOwned == \E c \in Contexts : flow[c] # Sentinel

\* writer: a modify operation owns custom_flow_mutex_ exclusively.
start_custom_flow(c, k, writer) ==
    /\ c \in FlowContexts
    /\ CanQueue(c)
    /\ ~FlowLockOwned
    /\ ~writer
    /\ flow' = [flow EXCEPT ![c] = k]
    /\ failed' = failed \ {c}
    /\ Queue(c, "find", k)
    /\ UNCHANGED <<d_tags, cache, contexts, held, modify_stream, list, sync_event, ahead>>

\* lock() of a shared_lock object that already owns the mutex throws std::system_error.
start_custom_flow_throws(c) ==
    /\ c \in FlowContexts
    /\ CanQueue(c)
    /\ FlowLockOwned
    /\ failed' = failed \cup {c}
    /\ UNCHANGED <<d_tags, cache, contexts, stream, held, flow, modify_stream, list, sync_event, ahead>>

\* Mutant: the custom flow never unlocks.
end_custom_flow_NoUnlock(c) ==
    /\ flow[c] # Sentinel
    /\ stream[c] = <<>>
    /\ Queue(c, "gather", flow[c])
    /\ UNCHANGED <<d_tags, cache, contexts, held, failed, flow, modify_stream, list, sync_event, ahead>>

end_custom_flow(c) ==
    /\ flow[c] # Sentinel
    /\ Queue(c, "gather", flow[c])
    /\ flow' = [flow EXCEPT ![c] = Sentinel]
    /\ UNCHANGED <<d_tags, cache, contexts, held, failed, modify_stream, list, sync_event, ahead>>

-----------------------------------------------------------------------------
(***************************************************************************)
(* Lookup kernels on the device.  A lookup reads the tags of its set, and  *)
(* later copies the row it found: two steps, with the modify stream free   *)
(* to run in between.                                                      *)
(***************************************************************************)
Running(c) == Head(stream[c])

\* The kernel at the head of stream c completes: every event recorded behind it moves closer.
Completes(c) ==
    /\ stream' = [stream EXCEPT ![c] = Tail(@)]
    /\ ahead' = [m \in Modifiers |->
                    [ahead[m] EXCEPT ![c] = IF @ > 0 THEN @ - 1 ELSE @]]

\* The query kernel or the find kernel reads the tags.
ReadTags(c) ==
    /\ stream[c] # <<>>
    /\ Running(c).kind \in {"lookup", "find"}
    /\ held[c].is = "nothing"
    /\ LET k == Running(c).key IN
       \/ \E s \in WayMask(k) :
            /\ held' = [held EXCEPT ![c] = Found(s, k, cache[s])]
            /\ IF Running(c).kind = "find" THEN Completes(c) ELSE UNCHANGED <<stream, ahead>>
       \/ /\ WayMask(k) = {}
          /\ held' = [held EXCEPT ![c] = IF Running(c).kind = "find" THEN Missed ELSE Nothing]
          /\ Completes(c)
    /\ UNCHANGED <<d_tags, cache, contexts, failed, flow, modify_stream, list, sync_event>>

\* The query kernel or the gather kernel copies the row out of the cache.
ReadRow(c) ==
    /\ stream[c] # <<>>
    /\ Running(c).kind \in {"lookup", "gather"}
    /\ held[c].is # "nothing"
    /\ held' = [held EXCEPT ![c] = Nothing]
    /\ Completes(c)
    /\ UNCHANGED <<d_tags, cache, contexts, failed, flow, modify_stream, list, sync_event>>

-----------------------------------------------------------------------------
(***************************************************************************)
(* Kernels of the modify stream.  A kernel is [kind, m, arg]; mem and acc  *)
(* stand behind the cudaStreamWaitEvent calls of event_wait_stream, so     *)
(* they start only when the lookups recorded by the event have finished.   *)
(***************************************************************************)
ModifyHead == Head(modify_stream)
ModifyRuns(kinds) == modify_stream # <<>> /\ ModifyHead.kind \in kinds
EventReached(m) == \A c \in Contexts : ahead[m][c] = 0

SlotsOf(l) == {e.slot : e \in l}
EntryAt(l, s) == CHOOSE e \in l : e.slot = s

\* Mutant: the tags stay visible while the rows are rewritten.
InvalidateTags_Visible(l) ==
    /\ list' = [list EXCEPT ![ModifyHead.m] = l]
    /\ modify_stream' = Tail(modify_stream)
    /\ UNCHANGED <<d_tags, cache, contexts, stream, held, failed, flow, sync_event, ahead>>

\* invalidate_tag_kernel, with the list l the operation computed for it.
InvalidateTags(l) ==
    /\ list' = [list EXCEPT ![ModifyHead.m] = l]
    /\ d_tags' = [s \in Slots |-> IF s \in SlotsOf(l) THEN Sentinel ELSE d_tags[s]]
    /\ modify_stream' = Tail(modify_stream)
    /\ UNCHANGED <<cache, contexts, stream, held, failed, flow, sync_event, ahead>>

\* mem_update_kernel overwrites the rows, mem_update_accumulate_kernel adds to them.
MemUpdate ==
    /\ ModifyRuns({"mem", "acc"})
    /\ EventReached(ModifyHead.m)
    /\ LET l == list[ModifyHead.m] IN
       cache' = [s \in Slots |->
                   IF s \notin SlotsOf(l) THEN cache[s]
                   ELSE IF ModifyHead.kind = "mem"
                        THEN [key |-> EntryAt(l, s).key, val |-> EntryAt(l, s).val]
                        ELSE [cache[s] EXCEPT !.val = (@ + EntryAt(l, s).val) % (MaxVal + 1)]]
    /\ modify_stream' = Tail(modify_stream)
    /\ UNCHANGED <<d_tags, contexts, stream, held, failed, flow, list, sync_event, ahead>>

\* tag_update_kernel makes the slots of the list visible again; the list is dead from then on.
TagUpdate ==
    /\ ModifyRuns({"tags"})
    /\ LET l == list[ModifyHead.m] IN
       d_tags' = [s \in Slots |-> IF s \in SlotsOf(l) THEN EntryAt(l, s).key ELSE d_tags[s]]
    /\ list' = [list EXCEPT ![ModifyHead.m] = {}]
    /\ modify_stream' = Tail(modify_stream)
    /\ UNCHANGED <<cache, contexts, stream, held, failed, flow, sync_event, ahead>>

-----------------------------------------------------------------------------
(***************************************************************************)
(* The event of a modify operation.  GpuTable::create_sync_event takes the *)
(* lookup streams of the registry; DefaultECEvent::event_record marks the  *)
(* end of each of those streams.                                           *)
(***************************************************************************)
create_sync_event(m) == sync_event' = [sync_event EXCEPT ![m] = contexts]

\* Mutant: the event is recorded on no stream.
event_record_NoStreams(m) == ahead' = [ahead EXCEPT ![m] = [c \in Contexts |-> 0]]

event_record(m) ==
    ahead' = [ahead EXCEPT ![m] =
                [c \in Contexts |-> IF c \in sync_event[m] THEN Len(stream[c]) ELSE 0]]

Kernel(kind, m) == [kind |-> kind, m |-> m]
QueueModify(ks) == modify_stream' = modify_stream \o ks

\* No operation holds an event it has not recorded yet.
Quiet == \A m \in Modifiers : pc[m] \in {"idle", "commit"}

\* cudaStreamSynchronize: the invalidation of m, and all that was queued before it, is done.
Synced(m) == pc[m] = "sync" /\ \A i \in 1 .. Len(modify_stream) : modify_stream[i] # Kernel("invalidate", m)

-----------------------------------------------------------------------------
(***************************************************************************)
(* Properties shared by both implementations.                              *)
(***************************************************************************)
\* The variables of the cache hold values of their types; no event waits for a negative count.
TypeOK ==
    /\ d_tags \in [Slots -> Tags]
    /\ cache \in [Slots -> Rows]
    /\ contexts \subseteq Contexts
    /\ stream \in [Contexts -> Seq(LookupKernels)]
    /\ held \in [Contexts -> Held]
    /\ failed \subseteq Contexts
    /\ flow \in [Contexts -> Tags]
    /\ modify_stream \in Seq(ModifyKernels)
    /\ list \in [Modifiers -> SUBSET Entries]
    /\ sync_event \in [Modifiers -> SUBSET Contexts]
    /\ ahead \in [Modifiers -> [Contexts -> Nat]]
    /\ pc \in [Modifiers -> Pcs]
    /\ op \in [Modifiers -> Ops \cup {"none"}]
    /\ req \in [Modifiers -> Requests \cup {<<>>}]

\* A mem_update or accumulate kernel that may run never writes a row that a lookup has
\* found in the tags and has not finished copying: the commit half of "invalidate and
\* commit" waits for every lookup that can still see the old tag.
NoRowRace ==
    ModifyRuns({"mem", "acc"}) /\ EventReached(ModifyHead.m) =>
        \A c \in Contexts :
            held[c].is = "found" => held[c].slot \notin SlotsOf(list[ModifyHead.m])

\* A slot that the tags show as holding key k holds a row written for k, whatever
\* operations replaced, updated or cleared it before.
TaggedRowIsOwn == \A s \in Slots : d_tags[s] # Sentinel => cache[s].key = d_tags[s]

\* A lookup is atomic: the row it copies is, to the last moment of the copy, the row that
\* was in the slot when it read the tag, and it is a row of the key it looks up.
LookupIsAtomic ==
    \A c \in Contexts : held[c].is = "found" =>
        cache[held[c].slot] = held[c].row /\ held[c].row.key = held[c].key

\* A key is visible in at most one way of its set, so the way a lookup picks is not ambiguous.
OneWayPerKey == \A k \in Keys : \A s, t \in WayMask(k) : s = t

-----------------------------------------------------------------------------
(***************************************************************************)
(* The inductive invariants of both implementations (proved in             *)
(* DeviceModifyProofs and HostModifyProofs).                               *)
(***************************************************************************)
\* A find kernel is followed by its gather, or its flow is still being queued; a stream
\* whose lookup has read the tags is at the kernel that copies the row.
LookupShape ==
    \A c \in Contexts :
        /\ \A i \in 1 .. Len(stream[c]) : stream[c][i].kind = "find" =>
              IF i < Len(stream[c]) THEN stream[c][i + 1].kind = "gather" ELSE flow[c] # Sentinel
        /\ held[c].is # "nothing" =>
              IF stream[c] = <<>> THEN flow[c] # Sentinel
              ELSE stream[c][1].kind \in {"lookup", "gather"}
        /\ c \notin contexts => stream[c] = <<>> /\ flow[c] = Sentinel

\* The operations inside the cache, under its lock.
Owners == {m \in Modifiers : pc[m] \in {"sync", "commit"}}

\* The lock of the cache keeps the kernels of two operations apart: what is queued is at
\* most the row and tag kernels of one operation, then the invalidation of the next.
ModifyShape ==
    /\ \A m, n \in Owners : m = n
    /\ \A i \in 1 .. Len(modify_stream) :
          LET k == modify_stream[i] IN
          /\ k.kind = "invalidate" => i = Len(modify_stream) /\ pc[k.m] = "sync"
          /\ k.kind \in {"mem", "acc"} =>
                i = 1 /\ Len(modify_stream) >= 2 /\ modify_stream[2] = Kernel("tags", k.m)
          /\ k.kind = "tags" =>
                i = 1 \/ (i = 2 /\ modify_stream[1].kind \in {"mem", "acc"} /\ modify_stream[1].m = k.m)
          /\ k.kind = "clear" => i = 1
    /\ \A m \in Modifiers :
          /\ pc[m] = "commit" => modify_stream = <<>>
          /\ pc[m] = "sync" /\ modify_stream # <<>> =>
                modify_stream[Len(modify_stream)] = Kernel("invalidate", m)

Queued(m, kinds) == \E i \in 1 .. Len(modify_stream) : modify_stream[i].kind \in kinds /\ modify_stream[i].m = m

\* m has invalidated the slots of its list and not yet made them visible again.
Claims(m) == Synced(m) \/ pc[m] = "commit" \/ Queued(m, {"mem", "acc", "tags"})

\* No tag of a claimed slot is visible.
ClaimedHidden == \A m \in Modifiers : Claims(m) => \A s \in SlotsOf(list[m]) : d_tags[s] = Sentinel

\* Each key of a list has one slot, each slot one key.
Injective(l) == \A e, f \in l : e.slot = f.slot \/ e.key = f.key => e = f

\* The keys of a claimed list are visible nowhere, and the list has one slot of its own set
\* for each.
ClaimedFresh ==
    \A m \in Modifiers : Claims(m) =>
        /\ Injective(list[m])
        /\ \A e \in list[m] : e.slot \in {SetOf[e.key]} \X Ways /\ WayMask(e.key) = {}

\* What every step keeps, whatever fails: the shapes of the queues and what the invalidation
\* of an operation hides.
PlacesInv ==
    /\ TypeOK
    /\ LookupShape
    /\ ModifyShape
    /\ ClaimedHidden
    /\ ClaimedFresh
    /\ OneWayPerKey

\* m has recorded its event and not yet written its rows: the event still waits for every
\* lookup that holds one of them.
EventCovers ==
    \A m \in Modifiers, c \in Contexts :
        /\ pc[m] = "commit" \/ Queued(m, {"mem", "acc"})
        /\ held[c].is = "found"
        /\ held[c].slot \in SlotsOf(list[m])
        => ahead[m][c] > 0

\* The event an operation is about to record was created for all contexts there are.
SnapshotCovers == \A m \in Modifiers : pc[m] \in {"call", "sync"} => contexts \subseteq sync_event[m]

EventsInv == EventCovers /\ SnapshotCovers

OwnRows(m) == \A s \in SlotsOf(list[m]) : cache[s].key = EntryAt(list[m], s).key

\* Accumulation adds to rows of its own keys, and tags are written over such rows only.
RowsOwn ==
    \A m \in Modifiers :
        \/ (Synced(m) \/ pc[m] = "commit") /\ op[m] = "update_accumulate"
        \/ Queued(m, {"acc"})
        \/ modify_stream # <<>> /\ modify_stream[1] = Kernel("tags", m)
        => OwnRows(m)

RowsInv == RowsOwn /\ TaggedRowIsOwn /\ LookupIsAtomic
=============================================================================

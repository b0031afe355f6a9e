------------------------- MODULE DeviceModifyProofs -------------------------
(***************************************************************************)
(* Proofs about CacheSADeviceModify, for any number of contexts, modifiers,*)
(* keys, sets and ways and any queue bound: each key is visible in one way *)
(* whatever fails, and no row is ever written while a lookup is copying    *)
(* it, so every lookup is atomic, when events do not fail and contexts are *)
(* not created during an operation.  What the actions of both variants     *)
(* have in common is in EmbedCacheProofs.                                  *)
(***************************************************************************)
EXTENDS CacheSADeviceModify, EmbedCacheProofs

\* The mutex of the device variant is the lock of the cache.
LEMMA MutexOwners == modify_mutex = Owners
  BY Zenon DEF modify_mutex, Owners

\* An update or invalidation finds each of its keys in one slot.
LEMMA HitListFacts ==
    ASSUME PlacesInv, NEW r
    PROVE  /\ HitList(r) \in SUBSET Entries
           /\ Injective(HitList(r))
           /\ \A e \in HitList(r) : /\ e.slot \in {SetOf[e.key]} \X Ways /\ d_tags[e.slot] = e.key
                                    /\ WayMask(e.key) \subseteq SlotsOf(HitList(r))
  <1>1. \A e \in HitList(r) : e \in Entries /\ e.key \in Keys /\ e.slot \in WayMask(e.key) /\ e.val = r[e.key]
    BY Zenon DEF HitList, Entries
  <1>2. \A e \in HitList(r) : e.slot \in {SetOf[e.key]} \X Ways /\ d_tags[e.slot] = e.key
    BY Zenon, <1>1 DEF WayMask
  <1>3. \A e \in HitList(r) : \A s \in WayMask(e.key) : s = e.slot
    BY Zenon, <1>1 DEF PlacesInv, OneWayPerKey
  <1>4. Injective(HitList(r))
    <2> SUFFICES ASSUME NEW e \in HitList(r), NEW f \in HitList(r), e.slot = f.slot \/ e.key = f.key
                 PROVE  e = f
      BY Zenon DEF Injective
    <2>1. e.key = f.key
      BY Zenon, <1>2
    <2>2. e.slot = f.slot
      BY ZenonT(60), <1>1, <1>3, <2>1
    <2>3. e.val = f.val
      BY Zenon, <1>1, <2>1
    <2> QED
      BY <1>1, <2>1, <2>2, <2>3 DEF Entries
  <1>5. \A e \in HitList(r) : WayMask(e.key) \subseteq SlotsOf(HitList(r))
    BY ZenonT(60), <1>3 DEF SlotsOf
  <1> QED
    BY Zenon, <1>1, <1>2, <1>4, <1>5

\* An insertion has a slot for each of its keys, which are visible nowhere.
LEMMA ReplaceListFacts ==
    ASSUME NEW r, NEW l \in ReplaceLists(r)
    PROVE  /\ l \in SUBSET Entries
           /\ Injective(l)
           /\ \A e \in l : e.slot \in {SetOf[e.key]} \X Ways /\ WayMask(e.key) \subseteq SlotsOf(l)
  BY Zenon DEF ReplaceLists, Injective

\* The device's invalidation keeps the invariants, whichever list it computes.
LEMMA ComputeStep ==
    ASSUME PlacesInv, ComputeAndInvalidate
    PROVE  /\ PlacesInv'
           /\ EventsInv => EventsInv'
           /\ RowsInv => RowsInv'
  <1>0. PICK m : m = ModifyHead.m
    BY Zenon
  <1>1. ModifyRuns({"invalidate"}) /\ UNCHANGED <<pc, op, req>>
    BY Zenon, Z3T(60) DEF ComputeAndInvalidate, hostVars
  <1>2. PICK l \in IF op[m] = "insert" THEN ReplaceLists(req[m]) ELSE {HitList(req[m])} : InvalidateTags(l)
    BY Zenon, Z3T(60), <1>0 DEF ComputeAndInvalidate
  <1>3. CASE op[m] = "insert"
    <2>1. l \in ReplaceLists(req[m])
      BY Zenon, <1>2, <1>3
    <2>2. /\ l \in SUBSET Entries
          /\ Injective(l)
          /\ \A e \in l : e.slot \in {SetOf[e.key]} \X Ways /\ WayMask(e.key) \subseteq SlotsOf(l)
      BY ZenonT(60), <2>1, ReplaceListFacts
    <2> QED
      BY ZenonT(60), <1>0, <1>1, <1>2, <1>3, <2>2, InvalidateStep
  <1>4. CASE op[m] # "insert"
    <2>1. l = HitList(req[m])
      BY Zenon, <1>2, <1>4
    <2>2. /\ l \in SUBSET Entries
          /\ Injective(l)
          /\ \A e \in l : e.slot \in {SetOf[e.key]} \X Ways /\ WayMask(e.key) \subseteq SlotsOf(l)
          /\ \A e \in l : d_tags[e.slot] = e.key
      BY ZenonT(60), <2>1, HitListFacts
    <2> QED
      BY ZenonT(60), <1>0, <1>1, <1>2, <2>2, InvalidateStep
  <1> QED
    BY Zenon, <1>3, <1>4

\* Queueing the rows and tags of an operation, or giving up what an invalidation claimed.
LEMMA DeviceCommitStep ==
    ASSUME PlacesInv, NEW m \in Modifiers, Commit(m)
    PROVE  /\ PlacesInv'
           /\ EventsInv => EventsInv'
           /\ RowsInv => RowsInv'
  <1>1. list \in [Modifiers -> SUBSET Entries] /\ modify_stream \in Seq(ModifyKernels)
    BY Zenon DEF PlacesInv, TypeOK
  <1>2. /\ pc[m] = "commit" /\ QueueModify(CommitKernels(m))
        /\ pc' = [pc EXCEPT ![m] = "idle"] /\ op' = [op EXCEPT ![m] = "none"] /\ req' = [req EXCEPT ![m] = <<>>]
        /\ sync_event' = [sync_event EXCEPT ![m] = {}]
        /\ list' = [list EXCEPT ![m] = IF op[m] = "invalidate" THEN {} ELSE @]
        /\ UNCHANGED <<d_tags, cache, contexts, stream, held, failed, flow, ahead>>
    BY Zenon DEF Commit
  <1>3. CASE op[m] = "invalidate"
    <2>1. list' = [list EXCEPT ![m] = {}]
      BY Zenon, <1>2, <1>3
    <2>2. modify_stream' = modify_stream
      BY <1>1, <1>2, <1>3 DEF QueueModify, CommitKernels
    <2> QED
      BY Zenon, <1>2, <2>1, <2>2, ReturnStep
  <1>4. CASE op[m] # "invalidate"
    <2>1. list' = list
      BY Zenon, <1>1, <1>2, <1>4
    <2>2. PICK kind \in {"mem", "acc"} :
             /\ kind = "acc" => op[m] = "update_accumulate"
             /\ QueueModify(<<Kernel(kind, m), Kernel("tags", m)>>)
      <3>1. CASE op[m] = "update_accumulate"
        BY Zenon, Z3T(60), <1>2, <3>1 DEF CommitKernels
      <3>2. CASE op[m] # "update_accumulate"
        BY Zenon, Z3T(60), <1>2, <1>4, <3>2 DEF CommitKernels
      <3> QED
        BY Zenon, <3>1, <3>2
    <2> QED
      BY Zenon, <1>2, <2>1, <2>2, CommitStep
  <1> QED
    BY Zenon, <1>3, <1>4

\* The event of m fails: the operation goes on as if it had nothing to wait for.
LEMMA FailedEventStep ==
    ASSUME PlacesInv, NEW m \in Modifiers, RecordEventFails(m)
    PROVE  PlacesInv'
  <1>1. [c \in Contexts |-> 0] \in [Contexts -> Nat]
    BY Zenon
  <1>2. /\ Synced(m)
        /\ ahead' = [ahead EXCEPT ![m] = [c \in Contexts |-> 0]]
        /\ pc' = [pc EXCEPT ![m] = "commit"]
        /\ UNCHANGED <<d_tags, cache, contexts, stream, held, failed, flow, modify_stream, list, sync_event, op, req>>
    BY Zenon DEF RecordEventFails
  <1> QED
    BY ZenonT(60), <1>1, <1>2, RecordStep

\* The event of m is recorded on the streams there are.
LEMMA DeviceRecordStep ==
    ASSUME PlacesInv, NEW m \in Modifiers, RecordEvent(m)
    PROVE  /\ PlacesInv'
           /\ EventsInv => EventsInv'
           /\ RowsInv => RowsInv'
  <1>1. stream \in [Contexts -> Seq(LookupKernels)]
    BY Zenon DEF PlacesInv, TypeOK
  <1>2. \A c \in Contexts : Len(stream[c]) \in Nat
    BY Zenon, <1>1, EmptyFacts
  <1>3. [c \in Contexts |-> IF c \in sync_event[m] THEN Len(stream[c]) ELSE 0] \in [Contexts -> Nat]
    BY Zenon, <1>2
  <1>4. /\ Synced(m) /\ ~FlowLockOwned /\ event_record(m)
        /\ ahead' = [ahead EXCEPT ![m] = [c \in Contexts |-> IF c \in sync_event[m] THEN Len(stream[c]) ELSE 0]]
        /\ pc' = [pc EXCEPT ![m] = "commit"]
        /\ UNCHANGED <<d_tags, cache, contexts, stream, held, failed, flow, modify_stream, list, sync_event, op, req>>
    BY Zenon DEF RecordEvent, event_record
  <1> QED
    BY ZenonT(60), <1>3, <1>4, RecordStep

-----------------------------------------------------------------------------
(***************************************************************************)
(* The theorems.  What hides and shows the keys does not depend on events; *)
(* rows and lookups do: device_late_context is a race with a context       *)
(* created during an operation.                                            *)
(***************************************************************************)
\* Every step keeps the inductive invariant; the part about places also when events fail
\* and contexts come at any time.
LEMMA StepInv ==
    ASSUME PlacesInv, [Next]_vars
    PROVE  /\ PlacesInv'
           /\ EventsInv /\ ~LateContexts /\ ~EventMayFail => EventsInv'
           /\ EventsInv /\ RowsInv /\ ~EventMayFail => RowsInv'
  <1> DEFINE Goal == /\ PlacesInv'
                     /\ EventsInv /\ ~LateContexts /\ ~EventMayFail => EventsInv'
                     /\ EventsInv /\ RowsInv /\ ~EventMayFail => RowsInv'
  <1>1. CASE UNCHANGED vars
    BY Zenon, <1>1, StutterStep DEF vars
  <1>2. ASSUME NEW c \in Contexts, LookupNext(c), UNCHANGED hostVars
        PROVE  Goal
    BY Zenon, <1>2, LookupStep DEF LookupNext, hostVars
  <1>3. ASSUME NEW m \in Modifiers, ModifyNext(m)
        PROVE  Goal
    <2>1. ASSUME NEW o \in Calls[m], NEW r \in Requests, Call(m, o, r)
          PROVE  Goal
      <3>1. o \in Ops
        BY Zenon, CallsAssumption
      <3> QED
        BY Zenon, <2>1, <3>1, CallStep DEF Call
    <2>2. CASE Start(m)
      BY Zenon, <2>2, StartStep, MutexOwners DEF Start
    <2>3. CASE RecordEvent(m)
      BY Zenon, <2>3, DeviceRecordStep
    <2>4. CASE RecordEventFails(m)
      BY Zenon, <2>4, FailedEventStep DEF RecordEventFails
    <2>5. CASE Commit(m)
      BY <2>5, DeviceCommitStep
    <2>6. CASE clear_cache(m)
      BY Zenon, <2>6, ClearQueueStep DEF clear_cache, hostVars
    <2> QED
      BY ZenonT(60), <1>3, <2>1, <2>2, <2>3, <2>4, <2>5, <2>6 DEF ModifyNext
  <1>4. CASE ComputeAndInvalidate
    BY Zenon, <1>4, ComputeStep
  <1>5. CASE MemUpdate /\ UNCHANGED hostVars
    BY Zenon, <1>5, MemUpdateStep DEF hostVars
  <1>6. CASE TagUpdate /\ UNCHANGED hostVars
    BY Zenon, <1>6, TagUpdateStep DEF hostVars
  <1>7. CASE FillTags
    BY Zenon, <1>7, ClearStep DEF FillTags, hostVars
  <1> QED
    BY ZenonT(60), <1>1, <1>2, <1>3, <1>4, <1>5, <1>6, <1>7 DEF Next

\* Every step keeps the whole invariant when no event fails and contexts do not come late.
LEMMA StepDInv ==
    ASSUME ~LateContexts, ~EventMayFail, DInv, [Next]_vars
    PROVE  DInv'
  BY Zenon, StepInv DEF DInv

\* The inductive invariant holds always.
THEOREM DeviceInvariant ==
    ASSUME ~LateContexts, ~EventMayFail
    PROVE  Spec => []DInv
  <1>1. Init => DInv
    BY Zenon, CacheInit DEF DInv
  <1> QED
    BY <1>1, StepDInv, PTL DEF Spec

\* No kernel ever overwrites a row a lookup is still copying, for any number of contexts,
\* threads, keys, sets and ways, when contexts are not created during a modify operation
\* and CUDA event calls succeed.
THEOREM DeviceNoRowRace ==
    ASSUME ~LateContexts, ~EventMayFail
    PROVE  Spec => []NoRowRace
  <1>1. DInv => NoRowRace
    BY Zenon, NoRace DEF DInv
  <1> QED
    BY <1>1, DeviceInvariant, PTL

\* A visible tag always stands over a row written for its key, and a lookup returns the
\* row that was there when it read the tag.
THEOREM DeviceLookupAtomic ==
    ASSUME ~LateContexts, ~EventMayFail
    PROVE  Spec => [](TaggedRowIsOwn /\ LookupIsAtomic)
  <1>1. DInv => TaggedRowIsOwn /\ LookupIsAtomic
    BY Zenon DEF DInv, RowsInv
  <1> QED
    BY <1>1, DeviceInvariant, PTL

\* A key is visible in at most one way of its set, also when events fail and contexts are
\* created at any time: what an operation hides and shows is ordered by the modify stream
\* and modify_mutex_ alone.
THEOREM DeviceOneWayPerKey == Spec => []OneWayPerKey
  <1>1. Init => PlacesInv
    BY Zenon, CacheInit
  <1>2. PlacesInv /\ [Next]_vars => PlacesInv'
    BY Zenon, StepInv
  <1>3. PlacesInv => OneWayPerKey
    BY Zenon DEF PlacesInv
  <1> QED
    BY <1>1, <1>2, <1>3, PTL DEF Spec
=============================================================================

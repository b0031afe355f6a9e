-------------------------- MODULE HostModifyProofs --------------------------
(***************************************************************************)
(* Proofs about CacheSAHostModify, for any number of contexts, modifiers,  *)
(* keys, sets and ways and any queue bound: the host's tags and the        *)
(* device's agree whatever events fail, each key is visible in one way,    *)
(* updates keep to the slots of their keys, and lookups are atomic as long *)
(* as no event has failed.  What the actions do on the device is in        *)
(* EmbedCacheProofs.                                                       *)
(***************************************************************************)
EXTENDS CacheSAHostModify, EmbedCacheProofs

\* Operations that take rw_lock_ shared come from one thread: docs/advanced.md:16 leaves it to
\* the user that no two modify operations are in flight on the device.
OneUpdater ==
    \A m, n \in Modifiers : Calls[m] \ Writers # {} /\ Calls[n] \ Writers # {} => m = n

\* The part of the invariant that is about the host's tags and lists.
HostInv ==
    /\ HostTypeOK
    /\ HostApart
    /\ ListsMirrored
    /\ ClearAlone
    /\ ShownIsKnown
    /\ PendingHides
    /\ ~errors => KnownIsShown

\* On an empty modify stream what shows is what the tags say.
LEMMA EmptyStream ==
    /\ modify_stream = <<>> =>
          /\ ~ClearQueued
          /\ \A m, ks : ~Queued(m, ks)
          /\ \A s, k : WillShow(s, k) <=> d_tags[s] = k
    /\ modify_stream' = <<>> =>
          /\ ~ClearQueued'
          /\ \A m, ks : ~Queued(m, ks)'
          /\ \A s, k : WillShow(s, k)' <=> d_tags'[s] = k
  <1>1. modify_stream = <<>> => ~ClearQueued /\ \A m, ks : ~Queued(m, ks)
    BY DEF ClearQueued, Queued
  <1>2. modify_stream' = <<>> => ~ClearQueued' /\ \A m, ks : ~Queued(m, ks)'
    BY DEF ClearQueued, Queued
  <1> QED
    BY ZenonT(60), <1>1, <1>2 DEF WillShow

\* Only an operation inside the cache has an invalidation queued.
LEMMA PendingOwns ==
    ASSUME NEW m \in Modifiers
    PROVE  /\ Pending(m) => m \in Owners
           /\ Pending(m)' => m \in Owners'
  BY Zenon DEF Pending, Owners

\* A list that is about to be written, or has been, is right for the host's tags.
LEMMA ListFacts ==
    ASSUME HostInv, NEW m \in Owners
    PROVE  /\ h_list[m] \in SUBSET Entries
           /\ Injective(h_list[m])
           /\ ~Pending(m) => list[m] = h_list[m]
           /\ \A e \in h_list[m] :
                 /\ e.slot \in {SetOf[e.key]} \X Ways /\ e.slot \in Slots /\ e.key \in Keys
                 /\ h_tags[e.slot] = IF op[m] = "invalidate" THEN Sentinel ELSE e.key
  <1>1. m \in Modifiers
    BY Zenon DEF Owners
  <1>2. h_list[m] \in SUBSET Entries
    BY Zenon, <1>1 DEF HostInv, HostTypeOK
  <1>3. /\ Injective(h_list[m])
        /\ ~Pending(m) => list[m] = h_list[m]
        /\ \A e \in h_list[m] :
              /\ e.slot \in {SetOf[e.key]} \X Ways
              /\ h_tags[e.slot] = IF op[m] = "invalidate" THEN Sentinel ELSE e.key
    BY ZenonT(60), <1>1 DEF HostInv, ListsMirrored
  <1> QED
    BY Zenon, <1>2, <1>3 DEF Entries

\* A step that leaves alone what the host knows and what shows keeps the host's part.
LEMMA HostFrame ==
    ASSUME HostInv, UNCHANGED <<h_tags, h_list, errors>>, Owners' = Owners, ClearQueued' <=> ClearQueued,
           \A n \in Modifiers :
              /\ Pending(n)' <=> Pending(n)
              /\ n \in Owners => op'[n] = op[n] /\ (~Pending(n) => list'[n] = list[n])
              /\ pc'[n] # "idle" => op'[n] \in Calls[n] /\ ~ClearQueued,
           \A s \in Slots, k \in Keys : WillShow(s, k)' <=> WillShow(s, k)
    PROVE  HostInv'
  <1>1. HostTypeOK'
    BY Zenon DEF HostInv, HostTypeOK
  <1>2. HostApart'
    BY DEF HostInv, HostApart, HostWays
  <1>3. ListsMirrored'
    <2> SUFFICES ASSUME NEW m \in Modifiers
                 PROVE  IF m \notin Owners' THEN h_list'[m] = {}
                        ELSE /\ Injective(h_list'[m])
                             /\ ~Pending(m)' => list'[m] = h_list'[m]
                             /\ \A e \in h_list'[m] :
                                   /\ e.slot \in {SetOf[e.key]} \X Ways
                                   /\ h_tags'[e.slot] = IF op'[m] = "invalidate" THEN Sentinel ELSE e.key
      BY ZenonT(60) DEF ListsMirrored, Injective
    <2>1. CASE m \notin Owners
      BY Zenon, <2>1 DEF HostInv, ListsMirrored
    <2>2. CASE m \in Owners
      BY <2>2, ListFacts
    <2> QED
      BY Zenon, <2>1, <2>2
  <1>4. ClearAlone'
    BY Zenon DEF HostInv, ClearAlone
  <1>5. ShownIsKnown'
    <2> SUFFICES ASSUME NEW s \in Slots, NEW k \in Keys, WillShow(s, k)'
                 PROVE  h_tags'[s] = k \/ ClearQueued'
                        \/ \E m \in Modifiers : Pending(m)' /\ s \in SlotsOf(h_list'[m])
      BY ZenonT(60) DEF ShownIsKnown, SlotsOf
    <2>1. h_tags[s] = k \/ ClearQueued \/ \E m \in Modifiers : Pending(m) /\ s \in SlotsOf(h_list[m])
      BY ZenonT(60) DEF HostInv, ShownIsKnown
    <2> QED
      BY ZenonT(60), <2>1
  <1>6. PendingHides'
    <2> SUFFICES ASSUME NEW m \in Modifiers, Pending(m)', NEW e \in h_list'[m],
                        NEW s \in {SetOf[e.key]} \X Ways, WillShow(s, e.key)'
                 PROVE  s \in SlotsOf(h_list'[m])
      BY ZenonT(60) DEF PendingHides, SlotsOf
    <2>1. Pending(m) /\ e \in h_list[m] /\ e \in Entries
      BY Zenon DEF HostInv, HostTypeOK
    <2>2. s \in Slots /\ e.key \in Keys
      BY ZenonT(60), <2>1, SetsAssumption DEF Entries, Slots
    <2>3. WillShow(s, e.key)
      BY ZenonT(60), <2>2
    <2> QED
      BY ZenonT(60), <2>1, <2>3 DEF HostInv, PendingHides
  <1>7. ASSUME ~errors'
        PROVE  KnownIsShown'
    <2>0. KnownIsShown
      BY Zenon, <1>7 DEF HostInv
    <2>1. ASSUME NEW s \in Slots, NEW k \in Keys, h_tags'[s] = k
          PROVE  WillShow(s, k)' \/ \E m \in Owners' : s \in SlotsOf(h_list'[m])
      <3>1. WillShow(s, k) \/ \E m \in Owners : s \in SlotsOf(h_list[m])
        BY ZenonT(60), <2>0, <2>1 DEF KnownIsShown
      <3> QED
        BY ZenonT(60), <3>1
    <2>2. ASSUME NEW m \in Modifiers, Pending(m)', op'[m] \notin Writers, NEW e \in h_list'[m]
          PROVE  WillShow(e.slot, e.key)'
      <3>1. Pending(m) /\ m \in Owners /\ op[m] \notin Writers /\ e \in h_list[m]
        BY Zenon, <2>2, PendingOwns
      <3>2. e.slot \in Slots /\ e.key \in Keys
        BY Zenon, <3>1, ListFacts
      <3>3. WillShow(e.slot, e.key)
        BY ZenonT(60), <2>0, <3>1 DEF KnownIsShown
      <3> QED
        BY ZenonT(60), <3>2, <3>3
    <2> QED
      BY ZenonT(60), <2>1, <2>2 DEF KnownIsShown, SlotsOf, Writers
  <1> QED
    BY ZenonT(60), <1>1, <1>2, <1>3, <1>4, <1>5, <1>6, <1>7 DEF HostInv

\* What a lookup thread or kernel does is not seen by the host's tags.
LEMMA HostLookupStep ==
    ASSUME HostInv, UNCHANGED <<d_tags, modify_stream, list, pc, op, h_tags, h_list, errors>>
    PROVE  HostInv'
  <1>1. Owners' = Owners /\ (ClearQueued' <=> ClearQueued) /\ \A m \in Modifiers : Pending(m)' <=> Pending(m)
    BY Zenon DEF Owners, ClearQueued, Pending, Synced
  <1>2. \A s \in Slots, k \in Keys : WillShow(s, k)' <=> WillShow(s, k)
    BY Zenon DEF WillShow, Queued
  <1>3. \A n \in Modifiers : pc[n] # "idle" => op[n] \in Calls[n] /\ ~ClearQueued
    BY ZenonT(60) DEF HostInv, HostTypeOK, ClearAlone
  <1> QED
    BY Zenon, <1>1, <1>2, <1>3, HostFrame

\* The head of the modify stream completes and is neither an invalidation nor a copy of cleared
\* tags: no invalidation is passed, and what is queued behind it is not a clear.
LEMMA HeadCompletes ==
    ASSUME PlacesInv, modify_stream # <<>>, ModifyHead.kind \in {"mem", "acc", "tags"},
           modify_stream' = Tail(modify_stream), UNCHANGED pc
    PROVE  /\ ~ClearQueued /\ ~ClearQueued'
           /\ \A m \in Modifiers : Pending(m)' <=> Pending(m)
           /\ \A m \in Owners : Pending(m)
  <1>0. /\ modify_stream \in Seq(ModifyKernels) /\ 1 \in 1 .. Len(modify_stream)
        /\ ModifyHead = modify_stream[1]
    BY Zenon, HeadFacts
  <1>1. /\ Len(modify_stream) \in Nat /\ Len(modify_stream') = Len(modify_stream) - 1
        /\ \A i \in 1 .. Len(modify_stream') : modify_stream'[i] = modify_stream[i + 1] /\ i + 1 \in 1 .. Len(modify_stream)
    BY <1>0, TailFacts
  <1>2. \A i \in 1 .. Len(modify_stream) : modify_stream[i].kind = "clear" => i = 1
    BY Zenon DEF PlacesInv, ModifyShape
  <1>3. ~ClearQueued
    BY Zenon, <1>0, <1>2 DEF ClearQueued
  <1>4. ~ClearQueued'
    BY Zenon, <1>1, <1>3 DEF ClearQueued
  <1>5. ASSUME NEW m \in Modifiers, Synced(m)'
        PROVE  FALSE
    <2>1. ModifyHead = Kernel("invalidate", m)
      BY Zenon, <1>5, TailShape
    <2> QED
      BY Zenon, <2>1 DEF Kernel
  <1>6. \A m \in Modifiers : ~Synced(m)
    BY Zenon, SyncedEmpty
  <1>7. \A m \in Modifiers : pc[m] # "commit"
    BY Zenon, TailShape
  <1> QED
    BY Zenon, <1>3, <1>4, <1>5, <1>6, <1>7 DEF Pending, Owners

\* Writing rows changes no tag, and the tag kernel stays queued.
LEMMA HostMemStep ==
    ASSUME PlacesInv, HostInv, MemUpdate, UNCHANGED hostVars
    PROVE  HostInv'
  <1>1. /\ modify_stream # <<>> /\ ModifyHead.kind \in {"mem", "acc"}
        /\ modify_stream' = Tail(modify_stream)
        /\ UNCHANGED <<d_tags, list, pc, op, h_tags, h_list, errors>>
    BY Zenon DEF MemUpdate, ModifyRuns, hostVars
  <1>2. /\ ~ClearQueued /\ ~ClearQueued'
        /\ \A m \in Modifiers : Pending(m)' <=> Pending(m)
    BY Zenon, <1>1, HeadCompletes
  <1>3. ASSUME NEW m \in Modifiers
        PROVE  Queued(m, {"tags"})' <=> Queued(m, {"tags"})
    <2>0. /\ modify_stream \in Seq(ModifyKernels) /\ 1 \in 1 .. Len(modify_stream)
          /\ ModifyHead = modify_stream[1]
      BY Zenon, <1>1, HeadFacts
    <2>1. /\ Len(modify_stream) \in Nat /\ Len(modify_stream') = Len(modify_stream) - 1
          /\ \A i \in 1 .. Len(modify_stream') : modify_stream'[i] = modify_stream[i + 1] /\ i + 1 \in 1 .. Len(modify_stream)
      BY <1>1, <2>0, TailFacts
    <2>2. \A i \in 1 .. Len(modify_stream) : i # 1 => i - 1 \in 1 .. Len(modify_stream') /\ (i - 1) + 1 = i
      BY <2>1
    <2> QED
      BY <1>1, <2>0, <2>1, <2>2 DEF Queued
  <1>4. \A s \in Slots, k \in Keys : WillShow(s, k)' <=> WillShow(s, k)
    BY Zenon, <1>1, <1>3 DEF WillShow
  <1>5. Owners' = Owners
    BY Zenon, <1>1 DEF Owners
  <1>6. \A n \in Modifiers : pc[n] # "idle" => op[n] \in Calls[n]
    BY Zenon DEF HostInv, HostTypeOK
  <1> QED
    BY ZenonT(60), <1>1, <1>2, <1>4, <1>5, <1>6, HostFrame

\* The tag kernel shows what it was about to show.
LEMMA HostTagStep ==
    ASSUME PlacesInv, HostInv, TagUpdate, UNCHANGED hostVars
    PROVE  HostInv'
  <1> DEFINE l == list[ModifyHead.m]
  <1>1. /\ modify_stream # <<>> /\ ModifyHead.kind = "tags" /\ ModifyRuns({"tags", "clear"})
        /\ modify_stream' = Tail(modify_stream)
        /\ d_tags' = [s \in Slots |-> IF s \in SlotsOf(l) THEN EntryAt(l, s).key ELSE d_tags[s]]
        /\ list' = [list EXCEPT ![ModifyHead.m] = {}]
        /\ UNCHANGED <<pc, op, h_tags, h_list, errors>>
    BY Zenon DEF TagUpdate, ModifyRuns, hostVars
  <1>2. /\ ~ClearQueued /\ ~ClearQueued'
        /\ \A m \in Modifiers : Pending(m)' <=> Pending(m)
        /\ \A m \in Owners : Pending(m)
    BY Zenon, <1>1, HeadCompletes
  <1>3. /\ modify_stream \in Seq(ModifyKernels) /\ ModifyHead.m \in Modifiers
        /\ modify_stream[1] = Kernel("tags", ModifyHead.m) /\ l \in SUBSET Entries
    BY Zenon, <1>1, HeadFacts
  <1>4. Queued(ModifyHead.m, {"tags"}) /\ Claims(ModifyHead.m)
    BY Zenon, <1>1, <1>3, FirstQueued DEF Claims
  <1>5. Injective(l) /\ \A s \in SlotsOf(l) : d_tags[s] = Sentinel
    BY ZenonT(60), <1>3, <1>4 DEF PlacesInv, ClaimedFresh, ClaimedHidden
  <1>6. \A m \in Modifiers : Queued(m, {"tags"}) => m = ModifyHead.m
    <2>1. \A m \in Modifiers : Queued(m, {"tags"}) => Claims(m)
      BY Zenon DEF Queued, Claims
    <2> QED
      BY Zenon, <1>1, <2>1, ClaimsHead
  <1>7. \A m \in Modifiers : ~Queued(m, {"tags"})'
    BY Zenon, <1>1, NothingClaimed
  <1>8. ASSUME NEW s \in Slots, NEW k \in Keys
        PROVE  WillShow(s, k)' <=> WillShow(s, k)
    <2>1. WillShow(s, k)' <=> d_tags'[s] = k
      BY ZenonT(60), <1>7 DEF WillShow
    <2>2. WillShow(s, k) <=> d_tags[s] = k \/ \E e \in l : e.slot = s /\ e.key = k
      BY ZenonT(60), <1>3, <1>4, <1>6 DEF WillShow
    <2>3. CASE s \notin SlotsOf(l)
      <3>1. ~\E e \in l : e.slot = s
        BY Zenon, <2>3 DEF SlotsOf
      <3> QED
        BY Zenon, <1>1, <2>1, <2>2, <2>3, <3>1
    <2>4. CASE s \in SlotsOf(l)
      <3>1. EntryAt(l, s) \in l /\ EntryAt(l, s).slot = s
        BY Zenon, <1>3, <2>4, EntryFacts
      <3>2. \A e \in l : e.slot = s => e = EntryAt(l, s)
        BY ZenonT(60), <1>5, <3>1 DEF Injective
      <3>3. d_tags[s] # k
        BY Zenon, <1>5, <2>4, SentinelAssumption
      <3>4. d_tags'[s] = EntryAt(l, s).key
        BY Zenon, <1>1, <2>4
      <3> QED
        BY ZenonT(60), <2>1, <2>2, <3>1, <3>2, <3>3, <3>4
    <2> QED
      BY Zenon, <2>3, <2>4
  <1>9. Owners' = Owners
    BY Zenon, <1>1 DEF Owners
  <1>10. \A n \in Modifiers : pc[n] # "idle" => op[n] \in Calls[n]
    BY DEF HostInv, HostTypeOK
  <1> QED
    BY Zenon, <1>1, <1>2, <1>8, <1>9, <1>10, HostFrame

\* A call waits for a queued clear and changes nothing the host knows.
LEMMA HostCallStep ==
    ASSUME PlacesInv, HostInv, SyncAfterClear, NEW m \in Modifiers, NEW o \in Calls[m], NEW r, Call(m, o, r)
    PROVE  HostInv'
  <1>0. pc \in [Modifiers -> Pcs] /\ op \in [Modifiers -> Ops \cup {"none"}]
    BY Zenon DEF PlacesInv, TypeOK
  <1>1. /\ pc[m] = "idle" /\ ~ClearQueued
        /\ pc' = [pc EXCEPT ![m] = "call"] /\ op' = [op EXCEPT ![m] = o]
        /\ UNCHANGED <<d_tags, modify_stream, list, h_tags, h_list, errors>>
    BY Zenon DEF Call
  <1>2. \A n \in Modifiers : /\ pc'[n] = "sync" <=> pc[n] = "sync"
                             /\ pc'[n] = "commit" <=> pc[n] = "commit"
                             /\ n # m => pc'[n] = pc[n] /\ op'[n] = op[n]
    BY Zenon, <1>0, <1>1
  <1>3. Owners' = Owners /\ m \notin Owners
    BY ONLY Zenon, <1>1, <1>2 DEF Owners
  <1>4. (ClearQueued' <=> ClearQueued) /\ \A n \in Modifiers : Pending(n)' <=> Pending(n)
    BY ONLY Zenon, <1>1, <1>2 DEF ClearQueued, Pending, Synced
  <1>5. \A s \in Slots, k \in Keys : WillShow(s, k)' <=> WillShow(s, k)
    BY ONLY ZenonT(60), <1>1 DEF WillShow, Queued
  <1>6. \A n \in Modifiers : pc'[n] # "idle" => op'[n] \in Calls[n]
    <2>1. \A n \in Modifiers : pc[n] # "idle" => op[n] \in Calls[n]
      BY Zenon DEF HostInv, HostTypeOK
    <2>2. op'[m] = o
      BY Zenon, <1>0, <1>1
    <2> QED
      BY ZenonT(60), <1>2, <2>1, <2>2
  <1>7. \A n \in Owners : op'[n] = op[n]
    BY Zenon, <1>2, <1>3 DEF Owners
  <1> QED
    BY ZenonT(60), <1>1, <1>3, <1>4, <1>5, <1>6, <1>7, HostFrame

\* rw_lock_ and the one updating thread keep operations out of each other's way.
LEMMA LockAlone ==
    ASSUME HostInv, OneUpdater, NEW m \in Modifiers, pc[m] = "call", CanLock(m)
    PROVE  Owners = {}
  <1>1. rw_lock = Owners
    BY Zenon DEF rw_lock, Owners
  <1>2. CASE op[m] \in Writers
    BY Zenon, <1>1, <1>2 DEF CanLock
  <1>3. ASSUME op[m] \notin Writers, NEW n \in Owners
        PROVE  FALSE
    <2>1. op[n] \notin Writers /\ n \in Modifiers /\ pc[n] # "idle" /\ pc[n] # "call"
      BY Zenon, <1>1, <1>3 DEF CanLock, Owners
    <2>2. op[n] \in Calls[n] /\ op[m] \in Calls[m]
      BY Zenon, <2>1 DEF HostInv, HostTypeOK
    <2>3. m = n
      BY Zenon, <1>3, <2>1, <2>2 DEF OneUpdater
    <2> QED
      BY Zenon, <2>1, <2>3
  <1> QED
    BY Zenon, <1>2, <1>3

\* With no operation inside the cache and no clear queued, the host knows what shows.
LEMMA AloneFacts ==
    ASSUME PlacesInv, HostInv, Owners = {}, NEW m \in Modifiers, pc[m] # "idle"
    PROVE  /\ ~ClearQueued
           /\ h_list = [n \in Modifiers |-> {}]
           /\ \A n \in Modifiers : ~Pending(n)
           /\ \A s \in Slots, k \in Keys : WillShow(s, k) => h_tags[s] = k
           /\ ~errors => \A s \in Slots, k \in Keys : h_tags[s] = k => WillShow(s, k)
  <1>1. ~ClearQueued
    BY Zenon DEF HostInv, ClearAlone
  <1>2. \A n \in Modifiers : h_list[n] = {}
    BY Zenon DEF HostInv, ListsMirrored
  <1>3. h_list = [n \in Modifiers |-> {}]
    BY Zenon, <1>2 DEF HostInv, HostTypeOK
  <1>4. \A n \in Modifiers : ~Pending(n)
    BY Zenon, PendingOwns
  <1>5. \A s \in Slots, k \in Keys : WillShow(s, k) => h_tags[s] = k
    BY ZenonT(60), <1>1, <1>4 DEF HostInv, ShownIsKnown
  <1>6. ~errors => \A s \in Slots, k \in Keys : h_tags[s] = k => WillShow(s, k)
    BY ZenonT(60) DEF HostInv, KnownIsShown
  <1> QED
    BY Zenon, <1>1, <1>3, <1>4, <1>5, <1>6

\* What the search of an update or invalidation finds in the host's tags.
LEMMA SearchTagsFacts ==
    ASSUME HostApart, NEW r
    PROVE  /\ SearchTags(r) \in SUBSET Entries
           /\ Injective(SearchTags(r))
           /\ \A e \in SearchTags(r) : e.slot \in {SetOf[e.key]} \X Ways /\ h_tags[e.slot] = e.key
  <1>1. \A e \in SearchTags(r) : e \in Entries /\ e.key \in Keys /\ e.slot \in HostWays(e.key) /\ e.val = r[e.key]
    BY Zenon DEF SearchTags, Entries
  <1>2. \A e \in SearchTags(r) : e.slot \in {SetOf[e.key]} \X Ways /\ h_tags[e.slot] = e.key
    BY Zenon, <1>1 DEF HostWays
  <1>3. Injective(SearchTags(r))
    <2> SUFFICES ASSUME NEW e \in SearchTags(r), NEW f \in SearchTags(r), e.slot = f.slot \/ e.key = f.key
                 PROVE  e = f
      BY Zenon DEF Injective
    <2>1. e.key = f.key
      BY Zenon, <1>2
    <2>2. e.slot = f.slot
      BY ZenonT(60), <1>1, <2>1 DEF HostApart
    <2>3. e.val = f.val
      BY Zenon, <1>1, <2>1
    <2> QED
      BY <1>1, <2>1, <2>2, <2>3 DEF Entries
  <1> QED
    BY Zenon, <1>1, <1>2, <1>3

\* What insert puts on its list.
LEMMA InsertMapsFacts ==
    ASSUME NEW r, NEW l \in InsertMaps(r)
    PROVE  /\ l \in SUBSET Entries
           /\ Injective(l)
           /\ \A e \in l : e.slot \in {SetOf[e.key]} \X Ways /\ HostWays(e.key) \subseteq SlotsOf(l)
  <1>1. /\ l \in SUBSET Entries
        /\ Injective(l)
        /\ \A e \in l : e.slot \in {SetOf[e.key]} \X Ways
        /\ \E turn \in [l -> 1 .. MaxUpdate] :
              \A e \in l : \A s \in HostWays(e.key) : \E f \in l : f.slot = s /\ turn[f] < turn[e]
    BY Zenon DEF InsertMaps
  <1>2. \A e \in l : \A s \in HostWays(e.key) : \E f \in l : f.slot = s
    BY Zenon, <1>1
  <1> QED
    BY Zenon, <1>1, <1>2 DEF SlotsOf

\* What the host part of an operation puts on its list.
LEMMA StartListFacts ==
    ASSUME HostApart, NEW m, NEW l \in IF op[m] = "insert" THEN InsertMaps(req[m]) ELSE {SearchTags(req[m])}
    PROVE  /\ l \in SUBSET Entries /\ Injective(l)
           /\ \A e \in l : /\ e.slot \in {SetOf[e.key]} \X Ways
                           /\ IF op[m] = "insert" THEN HostWays(e.key) \subseteq SlotsOf(l) ELSE h_tags[e.slot] = e.key
  <1>1. CASE op[m] = "insert"
    BY Zenon, <1>1, InsertMapsFacts
  <1>2. CASE op[m] # "insert"
    BY Zenon, <1>2, SearchTagsFacts
  <1> QED
    BY Zenon, <1>1, <1>2

\* The host's tags after an operation on a list of its own slots.
LEMMA TagsAfterFacts ==
    ASSUME HostTypeOK, NEW o, NEW l \in SUBSET Entries, Injective(l)
    PROVE  /\ TagsAfter(o, l) \in [Slots -> Tags]
           /\ o \notin Writers \/ l = {} => TagsAfter(o, l) = h_tags
           /\ \A s \in Slots : s \notin SlotsOf(l) => TagsAfter(o, l)[s] = h_tags[s]
           /\ o = "insert" => \A e \in l : TagsAfter(o, l)[e.slot] = e.key
           /\ o = "invalidate" => \A e \in l : TagsAfter(o, l)[e.slot] = Sentinel
  <1>0. h_tags \in [Slots -> Tags]
    BY Zenon DEF HostTypeOK
  <1>1. \A e \in l : e.slot \in Slots /\ e.slot \in SlotsOf(l) /\ e.key \in Tags
    BY Zenon DEF Entries, SlotsOf, Tags
  <1>2. \A s \in SlotsOf(l) : EntryAt(l, s) \in l /\ EntryAt(l, s).slot = s
    BY Zenon, EntryFacts
  <1>3. \A e \in l : EntryAt(l, e.slot) = e
    BY ZenonT(60), <1>1, <1>2 DEF Injective
  <1>4. l = {} => SlotsOf(l) = {}
    BY Zenon DEF SlotsOf
  <1>5. \A s \in Slots : TagsAfter(o, l)[s] = IF s \notin SlotsOf(l) \/ o \notin Writers THEN h_tags[s]
                                             ELSE IF o = "insert" THEN EntryAt(l, s).key ELSE Sentinel
    BY Zenon DEF TagsAfter
  <1>6. TagsAfter(o, l) \in [Slots -> Tags]
    <2>1. \A s \in Slots : (IF s \notin SlotsOf(l) \/ o \notin Writers THEN h_tags[s]
                            ELSE IF o = "insert" THEN EntryAt(l, s).key ELSE Sentinel) \in Tags
      BY Zenon, <1>0, <1>1, <1>2 DEF Tags
    <2> QED
      BY Zenon, <2>1 DEF TagsAfter
  <1>7. o \notin Writers \/ l = {} => TagsAfter(o, l) = h_tags
    <2> SUFFICES ASSUME o \notin Writers \/ l = {}
                 PROVE  \A s \in Slots : TagsAfter(o, l)[s] = h_tags[s]
      BY <1>0, <1>6
    <2> QED
      BY Zenon, <1>4, <1>5
  <1> QED
    BY Zenon, <1>1, <1>3, <1>5, <1>6, <1>7 DEF Writers

\* An operation that finds nothing to do returns, and the host knows what it knew.
LEMMA HostEarlyReturn ==
    ASSUME PlacesInv, HostInv, NEW m \in Modifiers, pc[m] = "call", Return(m),
           h_list' = [h_list EXCEPT ![m] = {}], UNCHANGED <<d_tags, modify_stream, list, h_tags, errors>>
    PROVE  HostInv'
  <1>0. pc \in [Modifiers -> Pcs] /\ op \in [Modifiers -> Ops \cup {"none"}] /\ h_list \in [Modifiers -> SUBSET Entries]
    BY Zenon DEF PlacesInv, TypeOK, HostInv, HostTypeOK
  <1>1. pc' = [pc EXCEPT ![m] = "idle"] /\ op' = [op EXCEPT ![m] = "none"]
    BY Zenon DEF Return
  <1>2. \A n \in Modifiers : /\ pc'[n] = "sync" <=> pc[n] = "sync"
                             /\ pc'[n] = "commit" <=> pc[n] = "commit"
                             /\ n # m => pc'[n] = pc[n] /\ op'[n] = op[n]
    BY Zenon, <1>0, <1>1
  <1>3. Owners' = Owners /\ m \notin Owners
    BY ONLY Zenon, <1>2, pc[m] = "call" DEF Owners
  <1>4. h_list[m] = {}
    BY Zenon, <1>3 DEF HostInv, ListsMirrored
  <1>5. h_list' = h_list
    BY Zenon, <1>0, <1>4
  <1>6. (ClearQueued' <=> ClearQueued) /\ \A n \in Modifiers : Pending(n)' <=> Pending(n)
    BY Zenon, <1>2 DEF ClearQueued, Pending, Synced
  <1>7. \A s \in Slots, k \in Keys : WillShow(s, k)' <=> WillShow(s, k)
    BY ZenonT(60) DEF WillShow, Queued
  <1>8. \A n \in Modifiers : pc'[n] # "idle" => op'[n] \in Calls[n] /\ ~ClearQueued
    <2>1. \A n \in Modifiers : pc[n] # "idle" => op[n] \in Calls[n] /\ ~ClearQueued
      BY ZenonT(60) DEF HostInv, HostTypeOK, ClearAlone
    <2>2. pc'[m] = "idle"
      BY Zenon, <1>0, <1>1
    <2> QED
      BY ZenonT(60), <1>2, <2>1, <2>2
  <1>9. \A n \in Owners : op'[n] = op[n]
    BY Zenon, <1>2, <1>3 DEF Owners
  <1> QED
    BY ZenonT(60), <1>3, <1>5, <1>6, <1>7, <1>8, <1>9, HostFrame

\* The host's tags after an operation still have each key in one way.
LEMMA TagsAfterApart ==
    ASSUME HostTypeOK, HostApart, NEW m, NEW l \in SUBSET Entries, Injective(l), h_tags' = TagsAfter(op[m], l),
           \A e \in l : IF op[m] = "insert" THEN HostWays(e.key) \subseteq SlotsOf(l) ELSE h_tags[e.slot] = e.key
    PROVE  HostApart'
  <1> DEFINE o == op[m]
             t == h_tags'
  <1> SUFFICES ASSUME NEW k \in Keys, NEW a \in {SetOf[k]} \X Ways, NEW b \in {SetOf[k]} \X Ways, t[a] = k, t[b] = k
               PROVE  a = b
    BY SMTT(60) DEF HostApart, HostWays
  <1>1. /\ o \notin Writers => t = h_tags
        /\ \A s \in Slots : s \notin SlotsOf(l) => t[s] = h_tags[s]
        /\ o = "insert" => \A e \in l : t[e.slot] = e.key
        /\ o = "invalidate" => \A e \in l : t[e.slot] = Sentinel
    BY TagsAfterFacts
  <1>2. a \in Slots /\ b \in Slots
    BY Zenon, SetsAssumption DEF Slots
  <1>3. \A u \in SlotsOf(l) : \E e \in l : e.slot = u
    BY Zenon DEF SlotsOf
  <1>4. CASE o = "insert"
    <2>1. ASSUME NEW u \in {SetOf[k]} \X Ways, u \in Slots, t[u] = k
          PROVE  \/ \E e \in l : e.slot = u /\ e.key = k
                 \/ u \in HostWays(k) \ SlotsOf(l)
      <3>1. CASE u \in SlotsOf(l)
        BY ONLY <1>1, <1>3, <1>4, <2>1, <3>1
      <3>2. CASE u \notin SlotsOf(l)
        BY ONLY Zenon, <1>1, <2>1, <3>2 DEF HostWays
      <3> QED
        BY Zenon, <3>1, <3>2
    <2>2. /\ (\E e \in l : e.slot = a /\ e.key = k) \/ a \in HostWays(k) \ SlotsOf(l)
          /\ (\E e \in l : e.slot = b /\ e.key = k) \/ b \in HostWays(k) \ SlotsOf(l)
      BY Zenon, <1>2, <2>1
    <2>3. CASE \E e \in l : e.key = k
      <3>1. HostWays(k) \subseteq SlotsOf(l)
        BY Zenon, <1>4, <2>3
      <3>2. PICK e \in l, f \in l : e.slot = a /\ e.key = k /\ f.slot = b /\ f.key = k
        BY ONLY Zenon, <2>2, <3>1
      <3> QED
        BY Zenon, <3>2 DEF Injective
    <2>4. CASE ~\E e \in l : e.key = k
      BY Zenon, <2>2, <2>4 DEF HostApart
    <2> QED
      BY Zenon, <2>3, <2>4
  <1>5. CASE o # "insert"
    <2>1. ASSUME NEW u \in Slots, t[u] = k
          PROVE  h_tags[u] = k
      <3>1. CASE u \notin SlotsOf(l) \/ o \notin Writers
        BY ONLY Zenon, <1>1, <2>1, <3>1
      <3>2. CASE u \in SlotsOf(l) /\ o \in Writers
        <4>1. t[u] = Sentinel
          BY ONLY <1>1, <1>3, <1>5, <3>2 DEF Writers
        <4> QED
          BY Zenon, <2>1, <4>1, SentinelAssumption
      <3> QED
        BY Zenon, <3>1, <3>2
    <2>2. a \in HostWays(k) /\ b \in HostWays(k)
      BY Zenon, <1>2, <2>1 DEF HostWays
    <2> QED
      BY ZenonT(60), <2>2 DEF HostApart
  <1> QED
    BY Zenon, <1>4, <1>5

\* The host part of an operation: h_tags_ changes before the device does, and the invalidation
\* is queued for exactly the slots in which they now differ.
LEMMA HostStartStep ==
    ASSUME PlacesInv, HostInv, NEW m \in Modifiers, pc[m] = "call", Owners = {},
           NEW l \in IF op[m] = "insert" THEN InsertMaps(req[m]) ELSE {SearchTags(req[m])},
           h_list' = [h_list EXCEPT ![m] = l], h_tags' = TagsAfter(op[m], l),
           QueueModify(<<Kernel("invalidate", m)>>), pc' = [pc EXCEPT ![m] = "sync"],
           UNCHANGED <<d_tags, cache, contexts, stream, held, failed, flow, list, sync_event, ahead, op, req, errors>>
    PROVE  HostInv'
  <1>0. /\ pc \in [Modifiers -> Pcs]
        /\ h_list \in [Modifiers -> SUBSET Entries] /\ h_tags \in [Slots -> Tags]
        /\ modify_stream \in Seq(ModifyKernels) /\ HostTypeOK /\ HostApart
    BY ONLY Zenon, PlacesInv, HostInv DEF PlacesInv, TypeOK, HostInv, HostTypeOK
  <1>u. d_tags' = d_tags /\ list' = list /\ op' = op /\ errors' = errors
    BY ZenonT(60)
  <1>1. /\ l \in SUBSET Entries /\ Injective(l)
        /\ \A e \in l : /\ e.slot \in {SetOf[e.key]} \X Ways
                        /\ IF op[m] = "insert" THEN HostWays(e.key) \subseteq SlotsOf(l) ELSE h_tags[e.slot] = e.key
    BY ONLY ZenonT(60), <1>0, l \in IF op[m] = "insert" THEN InsertMaps(req[m]) ELSE {SearchTags(req[m])}, StartListFacts
  <1>2. \A e \in l : e.slot \in Slots /\ e.key \in Keys /\ e.slot \in SlotsOf(l)
    BY ONLY Zenon, <1>1 DEF Entries, SlotsOf
  <1>3. /\ h_tags' \in [Slots -> Tags]
        /\ op[m] \notin Writers => h_tags' = h_tags
        /\ \A s \in Slots : s \notin SlotsOf(l) => h_tags'[s] = h_tags[s]
        /\ op[m] = "insert" => \A e \in l : h_tags'[e.slot] = e.key
        /\ op[m] = "invalidate" => \A e \in l : h_tags'[e.slot] = Sentinel
    <2> DEFINE t == TagsAfter(op[m], l)
    <2>1. /\ t \in [Slots -> Tags]
          /\ op[m] \notin Writers \/ l = {} => t = h_tags
          /\ \A s \in Slots : s \notin SlotsOf(l) => t[s] = h_tags[s]
          /\ op[m] = "insert" => \A e \in l : t[e.slot] = e.key
          /\ op[m] = "invalidate" => \A e \in l : t[e.slot] = Sentinel
      BY ONLY <1>0, <1>1, TagsAfterFacts
    <2>2. h_tags' = t
      BY ZenonT(60)
    <2> HIDE DEF t
    <2> QED
      BY ONLY Zenon, <2>1, <2>2
  <1>4. /\ ~ClearQueued
        /\ h_list = [n \in Modifiers |-> {}]
        /\ \A s \in Slots, k \in Keys : WillShow(s, k) => h_tags[s] = k
        /\ ~errors => \A s \in Slots, k \in Keys : h_tags[s] = k => WillShow(s, k)
    <2>1. pc[m] # "idle"
      BY ZenonT(60)
    <2> QED
      BY ONLY ZenonT(60), PlacesInv, HostInv, m \in Modifiers, <2>1, Owners = {}, AloneFacts
  <1>5. /\ \A n \in Modifiers : ~Synced(n)'
        /\ \A n \in Modifiers : Queued(n, {"tags"})' <=> Queued(n, {"tags"})
    BY ZenonT(60), StartStep
  <1>6. ~ClearQueued'
    <2>1. Kernel("invalidate", m) \in ModifyKernels
      BY ONLY Zenon, m \in Modifiers DEF Kernel, ModifyKernels
    <2>3. /\ Len(modify_stream) \in Nat /\ Len(modify_stream') = Len(modify_stream) + 1
          /\ modify_stream'[Len(modify_stream) + 1] = Kernel("invalidate", m)
          /\ \A i \in 1 .. Len(modify_stream) : modify_stream'[i] = modify_stream[i]
      BY ONLY ZenonT(60), <1>0, <2>1, QueueModify(<<Kernel("invalidate", m)>>), QueueFacts
    <2>4. ASSUME NEW i \in 1 .. Len(modify_stream'), modify_stream'[i].kind = "clear"
          PROVE  FALSE
      <3>1. CASE i \in 1 .. Len(modify_stream)
        BY ONLY Zenon, <1>4, <2>3, <2>4, <3>1 DEF ClearQueued
      <3>2. CASE i \notin 1 .. Len(modify_stream)
        <4>1. i = Len(modify_stream) + 1
          BY ONLY <2>3, <2>4, <3>2
        <4> QED
          BY ONLY <2>3, <2>4, <4>1 DEF Kernel
      <3> QED
        BY ONLY Zenon, <3>1, <3>2
    <2> QED
      BY ONLY Zenon, <2>4 DEF ClearQueued
  <1>7. \A s, k : WillShow(s, k)' <=> WillShow(s, k)
    BY ONLY ZenonT(60), <1>u, <1>5 DEF WillShow
  <1>8. /\ pc'[m] = "sync" /\ h_list'[m] = l
        /\ \A n \in Modifiers : n # m => pc'[n] = pc[n] /\ h_list'[n] = {}
    BY ONLY ZenonT(60), <1>0, <1>4, m \in Modifiers, h_list' = [h_list EXCEPT ![m] = l], pc' = [pc EXCEPT ![m] = "sync"]
  <1>9. Owners' = {m} /\ Pending(m)' /\ \A n \in Modifiers : Pending(n)' => n = m
    <2>1. Owners' = {m} /\ Pending(m)'
      BY ONLY Zenon, <1>5, <1>8, Owners = {}, m \in Modifiers DEF Owners, Pending
    <2> QED
      BY ONLY Zenon, <2>1, PendingOwns
  <1>10. HostTypeOK'
    <2>1. h_list' \in [Modifiers -> SUBSET Entries]
      BY ONLY Zenon, <1>0, <1>1, h_list' = [h_list EXCEPT ![m] = l]
    <2>2. \A n \in Modifiers : pc'[n] # "idle" => op'[n] \in Calls[n]
      BY ONLY Zenon, <1>0, <1>u, <1>8, pc[m] = "call", m \in Modifiers DEF HostTypeOK
    <2> QED
      BY ONLY ZenonT(60), <1>0, <1>u, <1>3, <2>1, <2>2 DEF HostTypeOK
  <1>11. HostApart'
    <2>1. \A e \in l : IF op[m] = "insert" THEN HostWays(e.key) \subseteq SlotsOf(l) ELSE h_tags[e.slot] = e.key
      BY ONLY Zenon, <1>1
    <2> QED
      BY ONLY ZenonT(60), <1>0, <1>1, <2>1, h_tags' = TagsAfter(op[m], l), TagsAfterApart
  <1>12. ListsMirrored'
    <2>1. \A e \in l : h_tags'[e.slot] = IF op[m] = "invalidate" THEN Sentinel ELSE e.key
      BY ONLY Zenon, <1>1, <1>3 DEF Writers
    <2>2. \A n \in Modifiers : n # m => n \notin Owners' /\ h_list'[n] = {}
      BY ONLY Zenon, <1>8, <1>9
    <2>3. m \in Owners' /\ Pending(m)' /\ h_list'[m] = l /\ op'[m] = op[m]
      BY ONLY Zenon, <1>8, <1>9, <1>u
    <2> QED
      BY ONLY ZenonT(60), <1>1, <2>1, <2>2, <2>3 DEF ListsMirrored, Injective
  <1>13. ClearAlone'
    BY ONLY Zenon, <1>6 DEF ClearAlone
  <1>14. ShownIsKnown'
    <2>1. ASSUME NEW s \in Slots, NEW k \in Keys, WillShow(s, k)', s \notin SlotsOf(l)
          PROVE  h_tags'[s] = k
      BY ONLY Zenon, <1>3, <1>4, <1>7, <2>1
    <2> QED
      BY ONLY ZenonT(60), <1>8, <1>9, <2>1, m \in Modifiers DEF ShownIsKnown, SlotsOf
  <1>15. PendingHides'
    <2>1. ASSUME NEW e \in l, NEW s \in {SetOf[e.key]} \X Ways, WillShow(s, e.key)'
          PROVE  s \in SlotsOf(l)
      <3>1. s \in Slots /\ e.key \in Keys
        BY ONLY Zenon, <1>2, <2>1, SetsAssumption DEF Slots
      <3>2. h_tags[s] = e.key
        BY ONLY Zenon, <1>4, <1>7, <2>1, <3>1
      <3>3. s \in HostWays(e.key)
        BY ONLY Zenon, <2>1, <3>2 DEF HostWays
      <3>4. CASE op[m] = "insert"
        BY ONLY Zenon, <1>1, <2>1, <3>3, <3>4
      <3>5. CASE op[m] # "insert"
        <4>1. e.slot \in HostWays(e.key)
          BY ONLY Zenon, <1>1, <2>1, <3>5 DEF HostWays
        <4>2. s = e.slot
          BY ONLY ZenonT(60), <1>0, <3>1, <3>3, <4>1 DEF HostApart
        <4> QED
          BY ONLY Zenon, <1>2, <2>1, <4>2
      <3> QED
        BY ONLY Zenon, <3>4, <3>5
    <2> QED
      BY ONLY ZenonT(60), <1>8, <1>9, <2>1 DEF PendingHides, SlotsOf
  <1>16. ASSUME ~errors'
         PROVE  KnownIsShown'
    <2>1. ASSUME NEW s \in Slots, NEW k \in Keys, h_tags'[s] = k
          PROVE  WillShow(s, k)' \/ \E n \in Owners' : s \in SlotsOf(h_list'[n])
      <3>1. CASE s \in SlotsOf(l)
        BY ONLY ZenonT(60), <1>8, <1>9, <3>1
      <3>2. CASE s \notin SlotsOf(l)
        BY ONLY ZenonT(60), <1>u, <1>3, <1>4, <1>7, <1>16, <2>1, <3>2
      <3> QED
        BY ONLY Zenon, <3>1, <3>2
    <2>2. ASSUME NEW n \in Modifiers, Pending(n)', op'[n] \notin Writers, NEW e \in h_list'[n]
          PROVE  WillShow(e.slot, e.key)'
      <3>1. n = m /\ e \in l /\ op[m] # "insert"
        BY ONLY Zenon, <1>u, <1>8, <1>9, <2>2 DEF Writers
      <3> QED
        BY ONLY ZenonT(60), <1>u, <1>1, <1>2, <1>4, <1>7, <1>16, <3>1
    <2> QED
      BY ONLY ZenonT(60), <2>1, <2>2 DEF KnownIsShown, SlotsOf, Writers
  <1> QED
    BY ONLY ZenonT(60), <1>10, <1>11, <1>12, <1>13, <1>14, <1>15, <1>16 DEF HostInv

\* An invalidation at the head is the only kernel queued, and its list is one the device may
\* hide: it takes every slot that shows a key of the list.
LEMMA InvalidationFacts ==
    ASSUME PlacesInv, HostInv, ModifyRuns({"invalidate"}), NEW m, m = ModifyHead.m
    PROVE  /\ m \in Owners /\ Pending(m) /\ \A n \in Owners : n = m
           /\ Tail(modify_stream) = <<>> /\ ~ClearQueued
           /\ \A s, k : WillShow(s, k) <=> d_tags[s] = k
           /\ \A e \in h_list[m] : WayMask(e.key) \subseteq SlotsOf(h_list[m])
           /\ ~errors /\ op[m] \notin Writers => \A e \in h_list[m] : d_tags[e.slot] = e.key
  <1>1. /\ modify_stream # <<>> /\ modify_stream \in Seq(ModifyKernels) /\ 1 \in 1 .. Len(modify_stream)
        /\ modify_stream[1] = Kernel("invalidate", m) /\ m \in Modifiers
    BY Zenon, HeadFacts DEF ModifyRuns
  <1>2. modify_stream[1].kind = "invalidate" /\ modify_stream[1].m = m
    BY <1>1 DEF Kernel
  <1>3. Len(modify_stream) = 1 /\ pc[m] = "sync" /\ \A n \in Owners : n = m
    <2>0. \A i \in 1 .. Len(modify_stream) : modify_stream[i].kind = "invalidate" =>
             i = Len(modify_stream) /\ pc[modify_stream[i].m] = "sync"
      BY ZenonT(60) DEF PlacesInv, ModifyShape
    <2>1. 1 = Len(modify_stream) /\ pc[m] = "sync"
      BY ONLY ZenonT(60), <1>1, <1>2, <2>0
    <2>2. m \in Owners
      BY Zenon, <1>1, <2>1 DEF Owners
    <2> QED
      BY ZenonT(60), <2>1, <2>2 DEF PlacesInv, ModifyShape
  <1>4. m \in Owners /\ Pending(m)
    BY Zenon, <1>1, <1>3 DEF Owners, Pending, Synced
  <1>5. Tail(modify_stream) = <<>> /\ ~ClearQueued /\ \A n : ~Queued(n, {"tags"})
    <2>1. Tail(modify_stream) \in Seq(ModifyKernels) /\ Len(Tail(modify_stream)) = 0
      BY <1>1, <1>3, TailFacts
    <2>2. \A i \in 1 .. Len(modify_stream) : i = 1
      BY <1>3
    <2>3. ~ClearQueued
      BY ONLY Zenon, <1>2, <2>2 DEF ClearQueued
    <2>4. \A n : ~Queued(n, {"tags"})
      BY ONLY Zenon, <1>2, <2>2 DEF Queued
    <2> QED
      BY ONLY Zenon, <2>1, <2>3, <2>4, EmptyFacts
  <1>6. \A s, k : WillShow(s, k) <=> d_tags[s] = k
    BY ZenonT(60), <1>5 DEF WillShow
  <1>7. ASSUME NEW e \in h_list[m], NEW s \in WayMask(e.key)
        PROVE  s \in SlotsOf(h_list[m])
    <2>1. s \in {SetOf[e.key]} \X Ways /\ d_tags[s] = e.key
      BY Zenon DEF WayMask
    <2> QED
      BY ZenonT(60), <1>1, <1>4, <1>6, <2>1 DEF HostInv, PendingHides
  <1>8. ~errors /\ op[m] \notin Writers => \A e \in h_list[m] : d_tags[e.slot] = e.key
    BY ZenonT(60), <1>1, <1>4, <1>6 DEF HostInv, KnownIsShown
  <1> QED
    BY ZenonT(60), <1>3, <1>4, <1>5, <1>6, <1>7, <1>8

\* The invalidation hides what the host has already forgotten or is about to write.
LEMMA HostInvalidateStep ==
    ASSUME PlacesInv, HostInv, CopyAndInvalidate
    PROVE  /\ HostInv'
           /\ PlacesInv'
           /\ EventsInv => EventsInv'
           /\ ~errors /\ RowsInv => RowsInv'
  <1>0. PICK m : m = ModifyHead.m
    BY Zenon
  <1>1. /\ ModifyRuns({"invalidate"}) /\ InvalidateTags(h_list[m])
        /\ UNCHANGED <<pc, op, req, h_tags, h_list, errors>>
    BY Zenon, <1>0 DEF CopyAndInvalidate, hostVars
  <1>2. /\ m \in Owners /\ Pending(m) /\ \A n \in Owners : n = m
        /\ Tail(modify_stream) = <<>> /\ ~ClearQueued
        /\ \A s, k : WillShow(s, k) <=> d_tags[s] = k
        /\ \A e \in h_list[m] : WayMask(e.key) \subseteq SlotsOf(h_list[m])
        /\ ~errors /\ op[m] \notin Writers => \A e \in h_list[m] : d_tags[e.slot] = e.key
    BY ONLY Zenon, <1>0, <1>1, PlacesInv, HostInv, InvalidationFacts
  <1>3. /\ h_list[m] \in SUBSET Entries /\ Injective(h_list[m])
        /\ \A e \in h_list[m] :
              /\ e.slot \in {SetOf[e.key]} \X Ways
              /\ h_tags[e.slot] = IF op[m] = "invalidate" THEN Sentinel ELSE e.key
    BY ZenonT(60), <1>2, ListFacts
  <1>4. /\ PlacesInv'
        /\ EventsInv => EventsInv'
        /\ ~errors /\ RowsInv => RowsInv'
    <2>1. op[m] = "update_accumulate" => op[m] \notin Writers
      BY Zenon DEF Writers
    <2>2. ~errors /\ op[ModifyHead.m] = "update_accumulate" => \A e \in h_list[m] : d_tags[e.slot] = e.key
      BY ZenonT(60), <1>0, <1>2, <2>1
    <2>3. \A e \in h_list[m] : e.slot \in {SetOf[e.key]} \X Ways /\ WayMask(e.key) \subseteq SlotsOf(h_list[m])
      BY ZenonT(60), <1>2, <1>3
    <2>4. UNCHANGED <<pc, op, req>>
      BY Zenon, <1>1
    <2> QED
      BY ONLY ZenonT(60), PlacesInv, <1>1, <1>3, <2>2, <2>3, <2>4, InvalidateStep
  <1>5. /\ list' = [list EXCEPT ![m] = h_list[m]] /\ modify_stream' = <<>>
        /\ d_tags' = [s \in Slots |-> IF s \in SlotsOf(h_list[m]) THEN Sentinel ELSE d_tags[s]]
    BY ONLY ZenonT(60), <1>0, <1>1, <1>2 DEF InvalidateTags
  <1>6. /\ ~ClearQueued'
        /\ \A s, k : WillShow(s, k)' <=> d_tags'[s] = k
        /\ \A n \in Modifiers : ~Pending(n)'
    <2>1. \A n \in Modifiers : pc'[n] = "sync" => Synced(n)'
      BY <1>5 DEF Synced
    <2> QED
      BY ZenonT(60), <1>5, <2>1, EmptyStream DEF Pending
  <1>7. Owners' = Owners
    BY Zenon, <1>1 DEF Owners
  <1>8. ListsMirrored'
    <2>1. list'[m] = h_list[m] /\ m \in Modifiers
      BY ZenonT(60), <1>2, <1>5 DEF PlacesInv, TypeOK, Owners
    <2>2. \A n \in Modifiers : n # m => n \notin Owners /\ h_list[n] = {}
      BY ZenonT(60), <1>2 DEF HostInv, ListsMirrored
    <2> QED
      BY ZenonT(60), <1>1, <1>2, <1>3, <1>7, <2>1, <2>2 DEF ListsMirrored, Injective
  <1>9. ShownIsKnown'
    <2> SUFFICES ASSUME NEW s \in Slots, NEW k \in Keys, d_tags'[s] = k
                 PROVE  h_tags'[s] = k
      BY ZenonT(60), <1>6 DEF ShownIsKnown
    <2>1. s \notin SlotsOf(h_list[m]) /\ d_tags[s] = k
      BY Zenon, <1>5, SentinelAssumption
    <2>2. h_tags[s] = k \/ \E n \in Modifiers : Pending(n) /\ s \in SlotsOf(h_list[n])
      BY ZenonT(60), <1>2, <2>1 DEF HostInv, ShownIsKnown
    <2> QED
      BY ZenonT(60), <1>1, <1>2, <2>1, <2>2, PendingOwns
  <1>10. ASSUME ~errors'
         PROVE  KnownIsShown'
    <2>1. ASSUME NEW s \in Slots, NEW k \in Keys, h_tags'[s] = k
          PROVE  WillShow(s, k)' \/ \E n \in Owners' : s \in SlotsOf(h_list'[n])
      <3>1. KnownIsShown /\ h_tags[s] = k
        BY Zenon, <1>1, <1>10, <2>1 DEF HostInv
      <3>2. d_tags[s] = k \/ s \in SlotsOf(h_list[m])
        BY ZenonT(60), <1>2, <3>1 DEF KnownIsShown
      <3> QED
        BY ZenonT(60), <1>1, <1>2, <1>5, <1>6, <1>7, <3>2
    <2> QED
      BY ZenonT(60), <1>6, <2>1 DEF KnownIsShown, SlotsOf
  <1>11. HostTypeOK' /\ HostApart' /\ ClearAlone' /\ PendingHides'
    <2>1. HostTypeOK' /\ HostApart'
      BY ZenonT(60), <1>1 DEF HostInv, HostTypeOK, HostApart, HostWays
    <2> QED
      BY ZenonT(60), <1>6, <2>1 DEF ClearAlone, PendingHides
  <1> QED
    BY ZenonT(60), <1>4, <1>8, <1>9, <1>10, <1>11 DEF HostInv

\* Recording the event leaves the list claimed.
LEMMA HostRecordStep ==
    ASSUME PlacesInv, HostInv, NEW m \in Modifiers, RecordEvent(m)
    PROVE  HostInv'
  <1>0. pc \in [Modifiers -> Pcs]
    BY Zenon DEF PlacesInv, TypeOK
  <1>1. /\ Synced(m) /\ pc[m] = "sync" /\ pc' = [pc EXCEPT ![m] = "commit"]
        /\ UNCHANGED <<d_tags, modify_stream, list, op, h_tags, h_list, errors>>
    BY Zenon DEF RecordEvent, Synced
  <1>2. pc'[m] = "commit" /\ \A n \in Modifiers : n # m => pc'[n] = pc[n]
    BY Zenon, <1>0, <1>1
  <1>3. Owners' = Owners
    BY ONLY Zenon, <1>1, <1>2 DEF Owners
  <1>4. (ClearQueued' <=> ClearQueued) /\ \A n \in Modifiers : Pending(n)' <=> Pending(n)
    BY ONLY Zenon, <1>1, <1>2 DEF ClearQueued, Pending, Synced
  <1>5. \A s \in Slots, k \in Keys : WillShow(s, k)' <=> WillShow(s, k)
    BY ONLY ZenonT(60), <1>1 DEF WillShow, Queued
  <1>6. \A n \in Modifiers : pc'[n] # "idle" => op'[n] \in Calls[n] /\ ~ClearQueued
    <2>1. \A n \in Modifiers : pc[n] # "idle" => op[n] \in Calls[n] /\ ~ClearQueued
      BY ZenonT(60) DEF HostInv, HostTypeOK, ClearAlone
    <2> QED
      BY Zenon, <1>1, <1>2, <2>1
  <1> QED
    BY Zenon, <1>1, <1>3, <1>4, <1>5, <1>6, HostFrame

\* An operation at its end, with the invalidation done, is the only one in the cache.
LEMMA EndFacts ==
    ASSUME PlacesInv, HostInv, NEW m \in Modifiers, Synced(m) \/ pc[m] = "commit"
    PROVE  /\ m \in Owners /\ ~Pending(m) /\ \A n \in Owners : n = m
           /\ modify_stream = <<>> /\ ~ClearQueued
           /\ \A s, k : WillShow(s, k) <=> d_tags[s] = k
           /\ \A n \in Modifiers : ~Pending(n) /\ (n # m => h_list[n] = {})
           /\ list[m] = h_list[m]
           /\ \A s \in Slots, k \in Keys : d_tags[s] = k => h_tags[s] = k
           /\ ~errors => \A s \in Slots, k \in Keys : h_tags[s] = k => d_tags[s] = k \/ s \in SlotsOf(h_list[m])
  <1>1. m \in Owners /\ ~Pending(m)
    BY Zenon DEF Owners, Pending, Synced
  <1>2. \A n \in Owners : n = m
    BY ZenonT(60), <1>1 DEF PlacesInv, ModifyShape
  <1>3. modify_stream = <<>>
    <2>1. CASE Synced(m)
      BY ZenonT(60), <2>1, SyncedEmpty
    <2>2. CASE pc[m] = "commit"
      BY ZenonT(60), <2>2 DEF PlacesInv, ModifyShape
    <2> QED
      BY Zenon, <2>1, <2>2
  <1>4. ~ClearQueued /\ \A s, k : WillShow(s, k) <=> d_tags[s] = k
    BY ZenonT(60), <1>3, EmptyStream
  <1>5. \A n \in Modifiers : ~Pending(n) /\ (n # m => h_list[n] = {})
    BY ZenonT(60), <1>1, <1>2, PendingOwns DEF HostInv, ListsMirrored
  <1>6. list[m] = h_list[m]
    BY Zenon, <1>1, ListFacts
  <1>7. \A s \in Slots, k \in Keys : d_tags[s] = k => h_tags[s] = k
    BY ZenonT(60), <1>4, <1>5 DEF HostInv, ShownIsKnown
  <1>8. ~errors => \A s \in Slots, k \in Keys : h_tags[s] = k => d_tags[s] = k \/ s \in SlotsOf(h_list[m])
    BY ZenonT(60), <1>2, <1>4 DEF HostInv, KnownIsShown
  <1> QED
    BY ONLY ZenonT(60), <1>1, <1>2, <1>3, <1>4, <1>5, <1>6, <1>7, <1>8

\* m has left the cache: no operation is inside and no list is in use.
LEMMA LeftFacts ==
    ASSUME PlacesInv, HostInv, NEW m \in Modifiers, Synced(m) \/ pc[m] = "commit", Return(m),
           h_list' = [h_list EXCEPT ![m] = {}], UNCHANGED h_tags, errors' \in BOOLEAN
    PROVE  /\ Owners' = {} /\ HostTypeOK' /\ HostApart' /\ ListsMirrored' /\ PendingHides'
           /\ \A n \in Modifiers : ~Pending(n)'
  <1>0. /\ pc \in [Modifiers -> Pcs] /\ op \in [Modifiers -> Ops \cup {"none"}]
        /\ h_list \in [Modifiers -> SUBSET Entries]
        /\ \A n \in Modifiers : pc[n] # "idle" => op[n] \in Calls[n]
    BY Zenon DEF PlacesInv, TypeOK, HostInv, HostTypeOK
  <1>1. pc' = [pc EXCEPT ![m] = "idle"] /\ op' = [op EXCEPT ![m] = "none"]
    BY Zenon DEF Return
  <1>2. pc'[m] = "idle" /\ \A n \in Modifiers : n # m => pc'[n] = pc[n] /\ op'[n] = op[n]
    BY Zenon, <1>0, <1>1
  <1>3. (\A n \in Owners : n = m) /\ \A n \in Modifiers : n # m => h_list[n] = {}
    BY ZenonT(60), EndFacts
  <1>4. Owners' = {}
    BY ONLY Zenon, <1>2, <1>3 DEF Owners
  <1>5. \A n \in Modifiers : h_list'[n] = {}
    BY ZenonT(60), <1>0, <1>3
  <1>6. \A n \in Modifiers : ~Pending(n)'
    BY Zenon, <1>4, PendingOwns
  <1>7. ListsMirrored'
    BY ZenonT(60), <1>4, <1>5 DEF ListsMirrored
  <1>8. HostTypeOK'
    <2>1. h_list' \in [Modifiers -> SUBSET Entries]
      BY Zenon, <1>0
    <2>2. \A n \in Modifiers : pc'[n] # "idle" => op'[n] \in Calls[n]
      BY ZenonT(60), <1>0, <1>2
    <2> QED
      BY Zenon, <2>1, <2>2 DEF HostInv, HostTypeOK
  <1>9. HostApart'
    BY ZenonT(60) DEF HostInv, HostApart, HostWays
  <1>10. PendingHides'
    BY ZenonT(60), <1>6 DEF PendingHides
  <1> QED
    BY ZenonT(60), <1>4, <1>6, <1>7, <1>8, <1>9, <1>10

\* A failing event leaves slots hidden that the host knows, never the other way round.
LEMMA HostFailStep ==
    ASSUME PlacesInv, HostInv, NEW m \in Modifiers, RecordEventFails(m)
    PROVE  HostInv'
  <1>1. /\ Synced(m) /\ Return(m) /\ h_list' = [h_list EXCEPT ![m] = {}] /\ errors' = TRUE
        /\ UNCHANGED <<d_tags, modify_stream, h_tags>>
    BY Zenon DEF RecordEventFails
  <1>2. /\ Owners' = {} /\ HostTypeOK' /\ HostApart' /\ ListsMirrored' /\ PendingHides'
    BY ZenonT(60), <1>1, LeftFacts
  <1>3. /\ modify_stream = <<>>
        /\ \A s \in Slots, k \in Keys : d_tags[s] = k => h_tags[s] = k
    BY ZenonT(60), <1>1, EndFacts
  <1>4. ~ClearQueued' /\ \A s, k : WillShow(s, k)' <=> d_tags'[s] = k
    BY ZenonT(60), <1>1, <1>3, EmptyStream
  <1>5. ClearAlone' /\ ShownIsKnown'
    BY ZenonT(60), <1>1, <1>3, <1>4 DEF ClearAlone, ShownIsKnown
  <1> QED
    BY Zenon, <1>1, <1>2, <1>5 DEF HostInv

\* The end of an operation: what the host knows of its slots is shown, or will be once the tag
\* kernel it has queued has run.
LEMMA HostCommitStep ==
    ASSUME PlacesInv, HostInv, NEW m \in Modifiers, Commit(m)
    PROVE  /\ HostInv'
           /\ PlacesInv'
           /\ EventsInv => EventsInv'
           /\ RowsInv => RowsInv'
  <1>0. /\ list \in [Modifiers -> SUBSET Entries] /\ modify_stream \in Seq(ModifyKernels)
    BY Zenon DEF PlacesInv, TypeOK
  <1>1. /\ pc[m] = "commit" /\ QueueModify(CommitKernels(m)) /\ Return(m)
        /\ list' = [list EXCEPT ![m] = IF op[m] = "invalidate" THEN {} ELSE @]
        /\ h_list' = [h_list EXCEPT ![m] = {}]
        /\ UNCHANGED <<d_tags, cache, contexts, stream, held, failed, flow, ahead, h_tags, errors>>
    BY Zenon DEF Commit
  <1>2. /\ pc' = [pc EXCEPT ![m] = "idle"] /\ op' = [op EXCEPT ![m] = "none"] /\ req' = [req EXCEPT ![m] = <<>>]
        /\ sync_event' = [sync_event EXCEPT ![m] = {}]
    BY Zenon, <1>1 DEF Return
  <1>3. /\ m \in Owners /\ modify_stream = <<>> /\ list[m] = h_list[m]
        /\ \A s \in Slots, k \in Keys : d_tags[s] = k => h_tags[s] = k
        /\ ~errors => \A s \in Slots, k \in Keys : h_tags[s] = k => d_tags[s] = k \/ s \in SlotsOf(h_list[m])
    BY ZenonT(60), <1>1, EndFacts
  <1>4. \A e \in h_list[m] : /\ e.slot \in Slots /\ e.key \in Keys
                             /\ h_tags[e.slot] = IF op[m] = "invalidate" THEN Sentinel ELSE e.key
    BY ZenonT(60), <1>3, ListFacts
  <1>5. errors' \in BOOLEAN
    BY Zenon, <1>1 DEF HostInv, HostTypeOK
  <1>6. /\ Owners' = {} /\ HostTypeOK' /\ HostApart' /\ ListsMirrored' /\ PendingHides'
        /\ \A n \in Modifiers : ~Pending(n)'
    BY ZenonT(60), <1>1, <1>5, LeftFacts
  <1>7. \A s \in SlotsOf(h_list[m]) : \E e \in h_list[m] : e.slot = s
    BY Zenon DEF SlotsOf
  <1>8. CASE op[m] = "invalidate"
    <2>1. list' = [list EXCEPT ![m] = {}]
      BY ONLY Zenon, <1>1, <1>8
    <2>2. modify_stream' = <<>> /\ UNCHANGED modify_stream
      <3>1. CommitKernels(m) = <<>>
        BY ONLY Zenon, <1>8 DEF CommitKernels
      <3>2. modify_stream' = <<>> \o <<>>
        BY ONLY Zenon, <1>1, <1>3, <3>1 DEF QueueModify
      <3> QED
        BY ONLY <1>3, <3>2
    <2>3. /\ PlacesInv'
          /\ EventsInv => EventsInv'
          /\ RowsInv => RowsInv'
      BY ZenonT(60), <1>1, <1>2, <2>1, <2>2, ReturnStep
    <2>4. ~ClearQueued' /\ \A s, k : WillShow(s, k)' <=> d_tags'[s] = k
      BY ZenonT(60), <2>2, EmptyStream
    <2>5. ClearAlone' /\ ShownIsKnown'
      BY ZenonT(60), <1>1, <1>3, <2>4 DEF ClearAlone, ShownIsKnown
    <2>6. ~errors => \A s \in Slots, k \in Keys : h_tags[s] = k => d_tags[s] = k
      <3> SUFFICES ASSUME ~errors, NEW s \in Slots, NEW k \in Keys, h_tags[s] = k, d_tags[s] # k
                   PROVE  FALSE
        BY Zenon
      <3>1. PICK e \in h_list[m] : e.slot = s
        BY ONLY ZenonT(60), <1>3, <1>7, ~errors, s \in Slots, k \in Keys, h_tags[s] = k, d_tags[s] # k
      <3> QED
        BY ONLY ZenonT(60), <1>4, <1>8, <3>1, h_tags[s] = k, k \in Keys, SentinelAssumption
    <2>7. ~errors' => KnownIsShown'
      BY ZenonT(60), <1>1, <1>6, <2>4, <2>6 DEF KnownIsShown
    <2> QED
      BY ZenonT(60), <1>6, <2>3, <2>5, <2>7 DEF HostInv
  <1>9. CASE op[m] # "invalidate"
    <2>1. list' = list
      BY Zenon, <1>0, <1>1, <1>9
    <2>2. PICK kind \in {"mem", "acc"} :
             /\ kind = "acc" => op[m] = "update_accumulate"
             /\ QueueModify(<<Kernel(kind, m), Kernel("tags", m)>>)
      <3>1. CASE op[m] = "update_accumulate"
        BY Zenon, <1>1, <3>1 DEF CommitKernels
      <3>2. CASE op[m] # "update_accumulate"
        BY Zenon, <1>1, <1>9, <3>2 DEF CommitKernels
      <3> QED
        BY Zenon, <3>1, <3>2
    <2>3. /\ PlacesInv'
          /\ EventsInv => EventsInv'
          /\ RowsInv => RowsInv'
          /\ modify_stream' = <<Kernel(kind, m), Kernel("tags", m)>>
      BY ZenonT(60), <1>1, <1>2, <2>1, <2>2, CommitStep
    <2>4. ~ClearQueued' /\ Queued(m, {"tags"})' /\ \A n \in Modifiers : Queued(n, {"tags"})' => n = m
      <3>1. /\ Len(modify_stream') = 2
            /\ modify_stream'[1].kind = kind /\ modify_stream'[1].m = m
            /\ modify_stream'[2].kind = "tags" /\ modify_stream'[2].m = m
        BY ONLY Zenon, <2>3 DEF Kernel
      <3>2. \A i \in 1 .. 2 : i = 1 \/ i = 2
        OBVIOUS
      <3> QED
        BY ONLY <2>2, <3>1, <3>2 DEF ClearQueued, Queued
    <2>5. \A s, k : WillShow(s, k)' <=> d_tags[s] = k \/ \E e \in h_list[m] : e.slot = s /\ e.key = k
      BY ZenonT(60), <1>1, <1>3, <2>1, <2>4 DEF WillShow
    <2>6. ClearAlone'
      BY Zenon, <2>4 DEF ClearAlone
    <2>7. \A e \in h_list[m] : h_tags[e.slot] = e.key
      BY ZenonT(60), <1>4, <1>9
    <2>8. ShownIsKnown'
      BY ZenonT(60), <1>1, <1>3, <2>5, <2>7 DEF ShownIsKnown
    <2>9. ~errors => \A s \in Slots, k \in Keys : h_tags[s] = k => WillShow(s, k)'
      <3> SUFFICES ASSUME ~errors, NEW s \in Slots, NEW k \in Keys, h_tags[s] = k
                   PROVE  WillShow(s, k)'
        BY Zenon
      <3>1. CASE d_tags[s] = k
        BY ONLY Zenon, <2>5, <3>1
      <3>2. CASE d_tags[s] # k
        <4>1. PICK e \in h_list[m] : e.slot = s
          BY ONLY ZenonT(60), <1>3, <1>7, ~errors, s \in Slots, k \in Keys, h_tags[s] = k, <3>2
        <4>2. e.key = k
          BY ONLY Zenon, <2>7, <4>1, h_tags[s] = k
        <4> QED
          BY ONLY Zenon, <2>5, <4>1, <4>2
      <3> QED
        BY Zenon, <3>1, <3>2
    <2>10. ~errors' => KnownIsShown'
      BY ZenonT(60), <1>1, <1>6, <2>9 DEF KnownIsShown
    <2> QED
      BY ZenonT(60), <1>6, <2>3, <2>6, <2>8, <2>10 DEF HostInv
  <1> QED
    BY Zenon, <1>8, <1>9

\* clear_cache forgets everything before its copy has hidden anything.
LEMMA HostClearStep ==
    ASSUME PlacesInv, HostInv, NEW m \in Modifiers, clear_cache(m)
    PROVE  HostInv'
  <1>0. (\A n \in Modifiers : pc[n] = "idle") /\ h_tags' = [s \in Slots |-> Sentinel] /\ modify_stream = <<>>
        /\ UNCHANGED <<d_tags, cache, contexts, stream, held, failed, flow, list, sync_event, ahead, pc, op, req,
                       h_list, errors>>
        /\ QueueModify(<<Kernel("clear", m)>>)
    BY Zenon DEF clear_cache
  <1>1. modify_stream' = <<Kernel("clear", m)>>
    BY Zenon, <1>0, ClearQueueStep
  <1>2. ClearQueued'
    BY <1>1 DEF ClearQueued, Kernel
  <1>3. Owners = {} /\ Owners' = {}
    BY Zenon, <1>0 DEF Owners
  <1>4. \A n \in Modifiers : h_list'[n] = {} /\ ~Pending(n)'
    BY ZenonT(60), <1>0, <1>3, PendingOwns DEF HostInv, ListsMirrored
  <1>5. \A s \in Slots : h_tags'[s] = Sentinel
    BY Zenon, <1>0
  <1>6. \A s \in Slots, k \in Keys : h_tags'[s] # k
    BY Zenon, <1>5, SentinelAssumption
  <1>7. HostTypeOK'
    <2>1. h_tags' \in [Slots -> Tags]
      BY Zenon, <1>0 DEF Tags
    <2> QED
      BY ZenonT(60), <1>0, <2>1 DEF HostInv, HostTypeOK
  <1>8. HostApart'
    <2>1. \A k \in Keys : {SetOf[k]} \X Ways \subseteq Slots
      BY Zenon, SetsAssumption DEF Slots
    <2> QED
      BY Zenon, <1>6, <2>1 DEF HostApart, HostWays
  <1>9. ListsMirrored' /\ ClearAlone' /\ ShownIsKnown' /\ PendingHides' /\ KnownIsShown'
    BY ZenonT(60), <1>0, <1>2, <1>3, <1>4, <1>5, <1>6
       DEF ListsMirrored, ClearAlone, ShownIsKnown, PendingHides, KnownIsShown
  <1> QED
    BY Zenon, <1>7, <1>8, <1>9 DEF HostInv

\* The copy of the host's tags still finds them cleared: the caller of clear_cache has waited.
LEMMA HostCopyStep ==
    ASSUME PlacesInv, HostInv, CopyTags
    PROVE  /\ HostInv'
           /\ PlacesInv'
           /\ EventsInv => EventsInv'
           /\ RowsInv => RowsInv'
  <1>0. /\ ModifyRuns({"clear"}) /\ ModifyRuns({"tags", "clear"})
        /\ d_tags' = h_tags /\ modify_stream' = Tail(modify_stream)
        /\ UNCHANGED <<cache, contexts, stream, held, failed, flow, list, sync_event, ahead, pc, op, req,
                       h_tags, h_list, errors>>
    BY Zenon DEF CopyTags, hostVars, ModifyRuns
  <1>1. ClearQueued
    <2>1. modify_stream # <<>> /\ ModifyHead.kind = "clear"
      BY Zenon, <1>0 DEF ModifyRuns
    <2> QED
      BY Zenon, <2>1, HeadFacts DEF ClearQueued
  <1>2. (\A n \in Modifiers : pc[n] = "idle") /\ \A s \in Slots : h_tags[s] = Sentinel
    BY ZenonT(60), <1>1 DEF HostInv, ClearAlone
  <1>3. d_tags' = [s \in Slots |-> Sentinel]
    BY ZenonT(60), <1>0, <1>2 DEF HostInv, HostTypeOK
  <1>4. /\ PlacesInv'
        /\ EventsInv => EventsInv'
        /\ RowsInv => RowsInv'
    BY Zenon, <1>0, <1>3, ClearStep
  <1>5. \A n \in Modifiers : ~Queued(n, {"tags"})'
    BY Zenon, <1>0, NothingClaimed
  <1>6. \A s \in Slots, k \in Keys : ~WillShow(s, k)' /\ h_tags'[s] # k
    <2>1. \A s \in Slots, k \in Keys : d_tags'[s] # k /\ h_tags'[s] # k
      BY Zenon, <1>0, <1>2, <1>3, SentinelAssumption
    <2> QED
      BY ZenonT(60), <1>5, <2>1 DEF WillShow
  <1>7. Owners' = {} /\ \A n \in Modifiers : h_list'[n] = {} /\ ~Pending(n)'
    <2>1. Owners = {} /\ Owners' = {}
      BY Zenon, <1>0, <1>2 DEF Owners
    <2> QED
      BY ZenonT(60), <1>0, <2>1, PendingOwns DEF HostInv, ListsMirrored
  <1>8. HostTypeOK' /\ HostApart'
    BY ZenonT(60), <1>0 DEF HostInv, HostTypeOK, HostApart, HostWays
  <1>9. ListsMirrored' /\ ClearAlone' /\ ShownIsKnown' /\ PendingHides' /\ KnownIsShown'
    BY ZenonT(60), <1>0, <1>2, <1>6, <1>7 DEF ListsMirrored, ClearAlone, ShownIsKnown, PendingHides, KnownIsShown
  <1> QED
    BY Zenon, <1>4, <1>8, <1>9 DEF HostInv

-----------------------------------------------------------------------------
(***************************************************************************)
(* The theorems.                                                           *)
(***************************************************************************)
\* Rows and lookups are right as long as no event has failed.
RowsUnlessErrors == ~errors => RowsInv

\* A modify operation's own steps.
LEMMA HostModifyStep ==
    ASSUME SyncAfterClear, OneUpdater, PlacesInv, HostInv, NEW m \in Modifiers, ModifyNext(m)
    PROVE  /\ PlacesInv' /\ HostInv'
           /\ EventsInv => EventsInv'
           /\ RowsUnlessErrors => RowsUnlessErrors'
  <1> DEFINE Goal == /\ PlacesInv' /\ HostInv'
                     /\ EventsInv => EventsInv'
                     /\ RowsUnlessErrors => RowsUnlessErrors'
  <1>1. ASSUME NEW o \in Calls[m], NEW r \in Requests, Call(m, o, r)
        PROVE  Goal
    <2>1. o \in Ops
      BY Zenon, CallsAssumption
    <2>2. /\ PlacesInv'
          /\ EventsInv => EventsInv'
          /\ RowsInv => RowsInv'
      BY ZenonT(60), <1>1, <2>1, CallStep DEF Call
    <2>3. HostInv'
      BY ZenonT(60), <1>1, HostCallStep
    <2>4. errors' = errors
      BY ZenonT(60), <1>1 DEF Call
    <2> QED
      BY ZenonT(60), <2>2, <2>3, <2>4 DEF RowsUnlessErrors
  <1>2. CASE Start(m)
    <2>1. PICK l \in IF op[m] = "insert" THEN InsertMaps(req[m]) ELSE {SearchTags(req[m])} :
             /\ h_list' = [h_list EXCEPT ![m] = l]
             /\ h_tags' = TagsAfter(op[m], l)
             /\ IF l = {}
                THEN Return(m) /\ UNCHANGED modify_stream
                ELSE /\ QueueModify(<<Kernel("invalidate", m)>>)
                     /\ pc' = [pc EXCEPT ![m] = "sync"]
                     /\ UNCHANGED <<op, req, sync_event>>
      BY ZenonT(60), <1>2 DEF Start
    <2>2. /\ pc[m] = "call" /\ CanLock(m)
          /\ UNCHANGED <<d_tags, cache, contexts, stream, held, failed, flow, list, ahead, errors>>
      BY ZenonT(60), <1>2 DEF Start
    <2>3. Owners = {}
      BY ZenonT(60), <2>2, LockAlone
    <2>4. CASE l = {}
      <3>1. h_tags' = h_tags
        <4>1. HostTypeOK /\ Injective(l) /\ l \in SUBSET Entries
          BY Zenon, <2>4 DEF HostInv, Injective
        <4>2. TagsAfter(op[m], l) = h_tags
          BY ONLY Zenon, <2>4, <4>1, TagsAfterFacts
        <4> QED
          BY ZenonT(60), <2>1, <4>2
      <3>2. Return(m) /\ UNCHANGED modify_stream /\ h_list' = [h_list EXCEPT ![m] = {}]
        BY ZenonT(60), <2>1, <2>4
      <3>3. HostInv'
        BY ZenonT(60), <2>2, <3>1, <3>2, HostEarlyReturn
      <3>4. /\ PlacesInv'
            /\ EventsInv => EventsInv'
            /\ RowsInv => RowsInv'
        BY ZenonT(60), <2>2, <3>2, ReturnStep DEF Return
      <3> QED
        BY ZenonT(60), <2>2, <3>3, <3>4 DEF RowsUnlessErrors
    <2>5. CASE l # {}
      <3>1. /\ QueueModify(<<Kernel("invalidate", m)>>) /\ pc' = [pc EXCEPT ![m] = "sync"]
            /\ UNCHANGED <<op, req, sync_event>>
        BY ZenonT(60), <2>1, <2>5
      <3>2. HostInv'
        BY ZenonT(60), <2>1, <2>2, <2>3, <3>1, HostStartStep
      <3>3. /\ PlacesInv'
            /\ EventsInv => EventsInv'
            /\ RowsInv => RowsInv'
        BY ZenonT(60), <2>2, <2>3, <3>1, StartStep
      <3> QED
        BY ZenonT(60), <2>2, <3>2, <3>3 DEF RowsUnlessErrors
    <2> QED
      BY ZenonT(60), <2>4, <2>5
  <1>3. CASE RecordEvent(m)
    <2>1. HostInv'
      BY Zenon, <1>3, HostRecordStep
    <2>2. stream \in [Contexts -> Seq(LookupKernels)]
      BY Zenon DEF PlacesInv, TypeOK
    <2>3. \A c \in Contexts : Len(stream[c]) \in Nat
      BY Zenon, <2>2, EmptyFacts
    <2>4. [c \in Contexts |-> IF c \in sync_event[m] THEN Len(stream[c]) ELSE 0] \in [Contexts -> Nat]
      BY Zenon, <2>3
    <2>5. /\ Synced(m) /\ ~FlowLockOwned /\ event_record(m)
          /\ ahead' = [ahead EXCEPT ![m] = [c \in Contexts |-> IF c \in sync_event[m] THEN Len(stream[c]) ELSE 0]]
          /\ pc' = [pc EXCEPT ![m] = "commit"] /\ errors' = errors
          /\ UNCHANGED <<d_tags, cache, contexts, stream, held, failed, flow, modify_stream, list, sync_event, op, req>>
      BY ZenonT(60), <1>3 DEF RecordEvent, event_record
    <2>6. /\ PlacesInv'
          /\ EventsInv => EventsInv'
          /\ RowsInv => RowsInv'
      BY ZenonT(60), <2>4, <2>5, RecordStep
    <2> QED
      BY ZenonT(60), <2>1, <2>5, <2>6 DEF RowsUnlessErrors
  <1>4. CASE RecordEventFails(m)
    <2>1. HostInv'
      BY <1>4, HostFailStep
    <2>2. /\ Synced(m) /\ list' = [list EXCEPT ![m] = {}] /\ errors' = TRUE
          /\ UNCHANGED <<d_tags, cache, contexts, stream, held, failed, flow, modify_stream, ahead>>
          /\ pc' = [pc EXCEPT ![m] = "idle"] /\ op' = [op EXCEPT ![m] = "none"] /\ req' = [req EXCEPT ![m] = <<>>]
          /\ sync_event' = [sync_event EXCEPT ![m] = {}]
      BY Zenon, <1>4 DEF RecordEventFails, Return
    <2>3. PlacesInv' /\ (EventsInv => EventsInv')
      BY ZenonT(60), <2>2, ReturnStep
    <2> QED
      BY Zenon, <2>1, <2>2, <2>3 DEF RowsUnlessErrors
  <1>5. CASE Commit(m)
    <2>1. errors' = errors
      BY Zenon, <1>5 DEF Commit
    <2> QED
      BY Zenon, <1>5, <2>1, HostCommitStep DEF RowsUnlessErrors
  <1>6. CASE clear_cache(m)
    <2>1. HostInv'
      BY <1>6, HostClearStep
    <2>2. /\ PlacesInv'
          /\ EventsInv => EventsInv'
          /\ RowsInv => RowsInv'
      BY Zenon, <1>6, ClearQueueStep DEF clear_cache
    <2>3. errors' = errors
      BY Zenon, <1>6 DEF clear_cache
    <2> QED
      BY Zenon, <2>1, <2>2, <2>3 DEF RowsUnlessErrors
  <1> QED
    BY ZenonT(60), <1>1, <1>2, <1>3, <1>4, <1>5, <1>6 DEF ModifyNext

\* Every step keeps places and mirror, and, as long as contexts do not come late and no event
\* fails, lookups apart from what is written.
LEMMA HostStep ==
    ASSUME SyncAfterClear, OneUpdater, PlacesInv, HostInv, [Next]_vars
    PROVE  /\ PlacesInv' /\ HostInv'
           /\ EventsInv /\ ~LateContexts => EventsInv'
           /\ EventsInv /\ RowsUnlessErrors => RowsUnlessErrors'
  <1> DEFINE Goal == /\ PlacesInv' /\ HostInv'
                     /\ EventsInv /\ ~LateContexts => EventsInv'
                     /\ EventsInv /\ RowsUnlessErrors => RowsUnlessErrors'
  <1>1. ASSUME HostInv', PlacesInv', EventsInv /\ ~LateContexts => EventsInv',
               EventsInv /\ ~errors /\ RowsInv => RowsInv', errors' = errors
        PROVE  Goal
    BY Zenon, <1>1 DEF RowsUnlessErrors
  <1>2. CASE UNCHANGED vars
    <2>1. HostInv' /\ errors' = errors
      BY Zenon, <1>2, HostLookupStep DEF vars
    <2>2. PlacesInv' /\ (EventsInv => EventsInv') /\ (RowsInv => RowsInv')
      BY Zenon, <1>2, StutterStep DEF vars
    <2> QED
      BY Zenon, <1>1, <2>1, <2>2
  <1>3. ASSUME NEW c \in Contexts, LookupNext(c), UNCHANGED hostVars
        PROVE  Goal
    <2>1. UNCHANGED <<pc, op, req>> /\ UNCHANGED <<h_tags, h_list, errors>>
      BY Zenon, <1>3 DEF hostVars
    <2>2. /\ PlacesInv' /\ (EventsInv /\ ~LateContexts => EventsInv') /\ (RowsInv => RowsInv')
          /\ UNCHANGED <<d_tags, modify_stream, list>>
      BY Zenon, <1>3, <2>1, LookupStep DEF LookupNext
    <2>3. HostInv'
      BY Zenon, <2>1, <2>2, HostLookupStep
    <2> QED
      BY Zenon, <1>1, <2>1, <2>2, <2>3
  <1>4. ASSUME NEW m \in Modifiers, ModifyNext(m)
        PROVE  Goal
    BY Zenon, <1>4, HostModifyStep
  <1>5. CASE CopyAndInvalidate
    <2>1. errors' = errors
      BY Zenon, <1>5 DEF CopyAndInvalidate, hostVars
    <2> QED
      BY Zenon, <1>1, <1>5, <2>1, HostInvalidateStep
  <1>6. CASE MemUpdate /\ UNCHANGED hostVars
    <2>1. UNCHANGED <<pc, op, req>> /\ errors' = errors
      BY Zenon, <1>6 DEF hostVars
    <2> QED
      BY Zenon, <1>1, <1>6, <2>1, MemUpdateStep, HostMemStep
  <1>7. CASE TagUpdate /\ UNCHANGED hostVars
    <2>1. UNCHANGED <<pc, op, req>> /\ errors' = errors
      BY <1>7 DEF hostVars
    <2> QED
      BY Zenon, <1>1, <1>7, <2>1, TagUpdateStep, HostTagStep
  <1>8. CASE CopyTags
    <2>1. errors' = errors
      BY Zenon, <1>8 DEF CopyTags, hostVars
    <2> QED
      BY Zenon, <1>1, <1>8, <2>1, HostCopyStep
  <1> QED
    BY ZenonT(60), <1>2, <1>3, <1>4, <1>5, <1>6, <1>7, <1>8 DEF Next

\* Initially both sides have no tags.
LEMMA HostInit == HInit => PlacesInv /\ EventsInv /\ HostInv /\ RowsUnlessErrors
  <1> SUFFICES ASSUME HInit
               PROVE  PlacesInv /\ EventsInv /\ HostInv /\ RowsUnlessErrors
    BY Zenon
  <1>1. PlacesInv /\ EventsInv /\ RowsInv
    BY Zenon, CacheInit DEF HInit
  <1>2. /\ modify_stream = <<>> /\ (\A m \in Modifiers : pc[m] = "idle")
        /\ d_tags = [s \in Slots |-> Sentinel] /\ h_tags = [s \in Slots |-> Sentinel]
        /\ h_list = [m \in Modifiers |-> {}] /\ errors = FALSE
    BY Zenon DEF HInit, Init, modify_context_create
  <1>3. Owners = {} /\ \A m \in Modifiers : ~Pending(m)
    BY Zenon, <1>2 DEF Owners, Pending
  <1>4. \A s \in Slots, k \in Keys : ~WillShow(s, k) /\ h_tags[s] # k
    BY Zenon, <1>2, EmptyStream, SentinelAssumption
  <1>5. HostTypeOK
    BY Zenon, <1>2 DEF HostTypeOK, Tags
  <1>6. HostApart
    <2>1. \A k \in Keys : {SetOf[k]} \X Ways \subseteq Slots
      BY Zenon, SetsAssumption DEF Slots
    <2> QED
      BY Zenon, <1>4, <2>1 DEF HostApart, HostWays
  <1>7. ListsMirrored /\ ClearAlone /\ ShownIsKnown /\ PendingHides /\ KnownIsShown
    <2>1. ~ClearQueued /\ \A m \in Modifiers : h_list[m] = {}
      BY Zenon, <1>2, EmptyStream
    <2> QED
      BY ZenonT(60), <1>3, <1>4, <2>1 DEF ListsMirrored, ClearAlone, ShownIsKnown, PendingHides, KnownIsShown
  <1> QED
    BY Zenon, <1>1, <1>5, <1>6, <1>7 DEF HostInv, RowsUnlessErrors

\* The inductive invariant of the host variant holds always.
THEOREM HostInvariant ==
    ASSUME ~LateContexts, SyncAfterClear, OneUpdater
    PROVE  Spec => []HInv
  <1> DEFINE I == PlacesInv /\ EventsInv /\ HostInv /\ RowsUnlessErrors
  <1>1. HInit => I
    BY Zenon, HostInit
  <1>2. I /\ [Next]_vars => I'
    BY Zenon, HostStep
  <1>3. I => HInv
    BY Zenon DEF HInv, HostInv, RowsUnlessErrors
  <1> HIDE DEF I
  <1> QED
    BY <1>1, <1>2, <1>3, PTL DEF Spec

\* Places and mirror do not depend on events and contexts.
LEMMA HostPlaces ==
    ASSUME SyncAfterClear, OneUpdater
    PROVE  Spec => [](PlacesInv /\ HostInv)
  <1> DEFINE I == PlacesInv /\ HostInv
  <1>1. HInit => I
    BY Zenon, HostInit
  <1>2. I /\ [Next]_vars => I'
    BY Zenon, HostStep
  <1> HIDE DEF I
  <1>3. Spec => []I
    BY <1>1, <1>2, PTL DEF Spec
  <1> QED
    BY Zenon, <1>3 DEF I

\* The host's tags are the device's between operations, and at any time the device shows no key
\* the host does not know, also after events have failed.
THEOREM HostMirror ==
    ASSUME SyncAfterClear, OneUpdater
    PROVE  Spec => []MirrorAgrees
  <1>1. ASSUME PlacesInv, HostInv
        PROVE  MirrorAgrees
    <2>0. d_tags \in [Slots -> Tags] /\ h_tags \in [Slots -> Tags] /\ ShownIsKnown /\ (~errors => KnownIsShown)
      BY Zenon, <1>1 DEF PlacesInv, HostInv, TypeOK, HostTypeOK
    <2>1. ASSUME ~errors, Owners = {}, modify_stream = <<>>
          PROVE  h_tags = d_tags
      <3>1. ~ClearQueued /\ \A s, k : WillShow(s, k) <=> d_tags[s] = k
        BY Zenon, <2>1, EmptyStream
      <3>2. \A m \in Modifiers : ~Pending(m)
        BY Zenon, <2>1, PendingOwns
      <3>3. \A s \in Slots, k \in Keys : d_tags[s] = k <=> h_tags[s] = k
        BY ZenonT(60), <2>0, <2>1, <3>1, <3>2 DEF ShownIsKnown, KnownIsShown
      <3>4. \A s \in Slots : h_tags[s] = d_tags[s]
        BY Zenon, <2>0, <3>3 DEF Tags
      <3> QED
        BY <2>0, <3>4
    <2>2. DeviceTagsKnown
      <3> SUFFICES ASSUME NEW s \in Slots, d_tags[s] \notin {Sentinel, h_tags[s]}, ~ClearQueued
                   PROVE  \E m \in Modifiers : pc[m] = "sync" /\ s \in SlotsOf(h_list[m])
        BY Zenon DEF DeviceTagsKnown
      <3>1. d_tags[s] \in Keys /\ WillShow(s, d_tags[s])
        BY Zenon, <2>0 DEF Tags, WillShow
      <3>2. \E m \in Modifiers : Pending(m) /\ s \in SlotsOf(h_list[m])
        BY Zenon, <2>0, <3>1 DEF ShownIsKnown
      <3> QED
        BY Zenon, <3>2 DEF Pending
    <2> QED
      BY Zenon, <2>1, <2>2 DEF MirrorAgrees
  <1> QED
    BY <1>1, HostPlaces, PTL

\* No kernel of the host variant overwrites a row a lookup is still copying.
THEOREM HostNoRowRace ==
    ASSUME ~LateContexts, SyncAfterClear, OneUpdater
    PROVE  Spec => []NoRowRace
  <1>1. HInv => NoRowRace
    BY Zenon, NoRace DEF HInv
  <1> QED
    BY <1>1, HostInvariant, PTL

\* A visible tag stands over a row of its key and every lookup is atomic, as long as no event
\* has failed.
THEOREM HostLookupsAtomic ==
    ASSUME ~LateContexts, SyncAfterClear, OneUpdater
    PROVE  Spec => []LookupsAtomic
  <1>1. HInv => LookupsAtomic
    BY Zenon DEF HInv, RowsInv, LookupsAtomic
  <1> QED
    BY <1>1, HostInvariant, PTL

\* The host variant shows a key in at most one way of its set, also after events have failed.
THEOREM HostOneWayPerKey ==
    ASSUME SyncAfterClear, OneUpdater
    PROVE  Spec => []OneWayPerKey
  <1>1. PlacesInv => OneWayPerKey
    BY Zenon DEF PlacesInv
  <1> QED
    BY <1>1, HostPlaces, PTL

\* An update of the host variant writes only to slots the device shows under the key it updates:
\* what it searched in h_tags_ is still right for d_tags_ when its kernel runs.
THEOREM HostKeepsResidency ==
    ASSUME SyncAfterClear, OneUpdater
    PROVE  Spec => UpdateKeepsResidency
  <1>1. ASSUME PlacesInv, HostInv, [Next]_vars, ~errors
        PROVE  UpdatesItsOwn
    <2>0. /\ PlacesInv /\ HostInv /\ list \in [Modifiers -> SUBSET Entries]
      BY Zenon, <1>1 DEF PlacesInv, TypeOK
    <2>1. ASSUME \A m \in Modifiers : list'[m] \in {list[m], {}}
          PROVE  UpdatesItsOwn
      BY Zenon, <2>1 DEF UpdatesItsOwn
    <2>2. CASE CopyAndInvalidate
      <3>0. PICK m : m = ModifyHead.m
        BY Zenon
      <3>1. ModifyRuns({"invalidate"}) /\ list' = [list EXCEPT ![m] = h_list[m]]
        BY ZenonT(60), <2>2, <3>0 DEF CopyAndInvalidate, InvalidateTags
      <3>2. ~errors /\ op[m] \notin Writers => \A e \in h_list[m] : d_tags[e.slot] = e.key
        BY ONLY ZenonT(60), <2>0, <3>0, <3>1, InvalidationFacts
      <3>3. list'[m] = h_list[m] \/ m \notin Modifiers
        BY ZenonT(60), <2>0, <3>1
      <3>4. \A n \in Modifiers : n # m => list'[n] = list[n]
        BY Zenon, <2>0, <3>1
      <3> QED
        BY ZenonT(60), <1>1, <3>2, <3>3, <3>4 DEF UpdatesItsOwn
    <2>3. CASE TagUpdate
      <3>1. \A m \in Modifiers : list'[m] \in {list[m], {}}
        BY Zenon, <2>0, <2>3 DEF TagUpdate
      <3> QED
        BY Zenon, <2>1, <3>1
    <2>4. ASSUME NEW m \in Modifiers, ModifyNext(m)
          PROVE  UpdatesItsOwn
      <3>1. CASE Commit(m) \/ RecordEventFails(m)
        <4>1. \A n \in Modifiers : list'[n] \in {list[n], {}}
          BY Zenon, <2>0, <3>1 DEF Commit, RecordEventFails
        <4> QED
          BY Zenon, <2>1, <4>1
      <3>2. CASE ~(Commit(m) \/ RecordEventFails(m))
        <4>1. list' = list
          BY ZenonT(60), <2>4, <3>2 DEF ModifyNext, Call, Start, RecordEvent, clear_cache
        <4> QED
          BY Zenon, <2>1, <4>1
      <3> QED
        BY Zenon, <3>1, <3>2
    <2>5. CASE UNCHANGED list
      BY Zenon, <2>1, <2>5
    <2>6. ASSUME NEW c \in Contexts, LookupNext(c)
          PROVE  UNCHANGED list
      BY ZenonT(60), <2>6 DEF LookupNext, ContextCreate, ContextDestroy, lookup, start_custom_flow, start_custom_flow_throws,
                  end_custom_flow, ReadTags, ReadRow
    <2>7. MemUpdate \/ CopyTags \/ UNCHANGED vars => UNCHANGED list
      BY Zenon DEF MemUpdate, CopyTags, vars
    <2> QED
      BY ZenonT(60), <1>1, <2>2, <2>3, <2>4, <2>5, <2>6, <2>7 DEF Next
  <1>2. ASSUME PlacesInv, HostInv, [Next]_vars
        PROVE  [~errors => UpdatesItsOwn]_vars
    BY Zenon, <1>1, <1>2
  <1> QED
    BY <1>2, HostPlaces, PTL DEF Spec, UpdateKeepsResidency
=============================================================================

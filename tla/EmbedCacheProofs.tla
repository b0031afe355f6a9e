-------------------------- MODULE EmbedCacheProofs --------------------------
(***************************************************************************)
(* What both implementations of the modify operations share: how streams   *)
(* move, and what lookups, the kernels of the modify stream and the host   *)
(* side of an operation do to the invariants of EmbedCacheSA, for any      *)
(* number of contexts, modifiers, keys, sets and ways and any queue bound. *)
(* DeviceModifyProofs and HostModifyProofs put the steps together.         *)
(***************************************************************************)
EXTENDS EmbedCacheSA, TLAPS

-----------------------------------------------------------------------------
(***************************************************************************)
(* Streams.  What the kernels behind the head of a stream see when it      *)
(* completes, and what queueing leaves alone.                              *)
(***************************************************************************)
\* Completing the head kernel of a stream shifts the others down by one place.
LEMMA TailFacts ==
    ASSUME NEW S, NEW q \in Seq(S), q # <<>>
    PROVE  /\ Tail(q) \in Seq(S)
           /\ Len(q) \in Nat /\ Len(q) >= 1
           /\ Len(Tail(q)) = Len(q) - 1
           /\ Head(q) = q[1] /\ q[1] \in S
           /\ \A i \in 1 .. Len(Tail(q)) : Tail(q)[i] = q[i + 1]
  OBVIOUS

\* Queueing one kernel puts it last and moves no other.
LEMMA AppendFacts ==
    ASSUME NEW S, NEW q \in Seq(S), NEW x \in S
    PROVE  /\ Append(q, x) \in Seq(S)
           /\ Append(q, x) # <<>>
           /\ Len(Append(q, x)) = Len(q) + 1
           /\ Append(q, x)[Len(q) + 1] = x
           /\ \A i \in 1 .. Len(q) : Append(q, x)[i] = q[i]
  OBVIOUS

\* A stream is empty exactly when no kernel is queued on it.
LEMMA EmptyFacts ==
    ASSUME NEW S, NEW q \in Seq(S)
    PROVE  /\ Len(q) \in Nat
           /\ q = <<>> <=> Len(q) = 0
           /\ \A i \in 1 .. Len(q) : q[i] \in S
  OBVIOUS

\* Nor does queueing on the modify stream.
LEMMA QueueFacts ==
    ASSUME modify_stream \in Seq(ModifyKernels), NEW x \in ModifyKernels, QueueModify(<<x>>)
    PROVE  /\ modify_stream' \in Seq(ModifyKernels)
           /\ Len(modify_stream) \in Nat /\ Len(modify_stream') = Len(modify_stream) + 1
           /\ modify_stream'[Len(modify_stream) + 1] = x
           /\ \A i \in 1 .. Len(modify_stream) : modify_stream'[i] = modify_stream[i]
  BY DEF QueueModify

\* The entry a list has for one of its slots (EntryAt) is an entry of the list.
LEMMA EntryFacts ==
    ASSUME NEW l \in SUBSET Entries, NEW s \in SlotsOf(l)
    PROVE  EntryAt(l, s) \in l /\ EntryAt(l, s).slot = s /\ EntryAt(l, s) \in Entries /\ s \in Slots
  <1>1. PICK e \in l : e.slot = s
    BY Zenon DEF SlotsOf
  <1>2. EntryAt(l, s) \in l /\ EntryAt(l, s).slot = s
    BY Zenon, <1>1 DEF EntryAt
  <1> QED
    BY Zenon, <1>2 DEF Entries

\* A lookup that holds something holds a slot of the cache.
LEMMA HeldFacts ==
    ASSUME NEW h \in Held, h.is = "found"
    PROVE  h.slot \in Slots
  <1>1. h # Nothing /\ h # Missed
    BY DEF Nothing, Missed
  <1>2. PICK s \in Slots, k \in Keys, r \in Rows : h = Found(s, k, r)
    BY <1>1 DEF Held
  <1> QED
    BY Zenon, <1>2 DEF Found

\* Accumulated values stay in range: the sum wraps around.
LEMMA SumInRange ==
    ASSUME NEW a \in Values, NEW b \in Values
    PROVE  (a + b) % (MaxVal + 1) \in Values
  BY BoundsAssumption DEF Values

-----------------------------------------------------------------------------
(***************************************************************************)
(* Frames: the parts of the invariants that a step cannot disturb because  *)
(* it leaves alone everything they talk about.                             *)
(***************************************************************************)
\* Lookups write neither tags, lists nor the modify stream.
LEMMA PlacesFrame ==
    ASSUME PlacesInv, UNCHANGED <<d_tags, modify_stream, list, pc>>
    PROVE  /\ ModifyShape' /\ ClaimedHidden' /\ ClaimedFresh' /\ OneWayPerKey'
           /\ \A m \in Modifiers : (Claims(m)' <=> Claims(m)) /\ (Synced(m)' <=> Synced(m))
           /\ \A m, ks : Queued(m, ks)' <=> Queued(m, ks)
  <1>1. \A m, ks : Queued(m, ks)' <=> Queued(m, ks)
    BY Zenon DEF Queued
  <1>2. \A m \in Modifiers : (Claims(m)' <=> Claims(m)) /\ (Synced(m)' <=> Synced(m))
    BY Zenon DEF Claims, Synced, Queued, Kernel
  <1>3. \A k \in Keys : WayMask(k)' = WayMask(k)
    BY Zenon DEF WayMask
  <1>4. ModifyShape'
    BY DEF PlacesInv, ModifyShape, Owners, Kernel
  <1>5. ClaimedHidden'
    BY Zenon, <1>2 DEF PlacesInv, ClaimedHidden, SlotsOf
  <1>6. \A m \in Modifiers : list[m] \subseteq Entries
    BY Zenon DEF PlacesInv, TypeOK
  <1>7. \A e \in Entries : WayMask(e.key)' = WayMask(e.key)
    BY Zenon, <1>3 DEF Entries
  <1>8. ClaimedFresh'
    BY ZenonT(60), <1>2, <1>6, <1>7 DEF PlacesInv, ClaimedFresh, Injective
  <1>9. OneWayPerKey'
    BY Zenon, <1>3 DEF PlacesInv, OneWayPerKey
  <1> QED
    BY Zenon, <1>1, <1>2, <1>4, <1>5, <1>8, <1>9

\* Nor do they write rows.
LEMMA RowsFrame ==
    ASSUME PlacesInv, RowsOwn, TaggedRowIsOwn, UNCHANGED <<d_tags, cache, modify_stream, list, pc, op>>
    PROVE  RowsOwn' /\ TaggedRowIsOwn'
  <1>1. \A m \in Modifiers : OwnRows(m)' <=> OwnRows(m)
    BY DEF OwnRows, SlotsOf, EntryAt
  <1>2. \A m \in Modifiers : (Synced(m)' <=> Synced(m)) /\ (Queued(m, {"acc"})' <=> Queued(m, {"acc"}))
    BY Zenon, PlacesFrame
  <1>3. RowsOwn'
    BY Zenon, <1>1, <1>2 DEF RowsOwn, Kernel
  <1> QED
    BY Zenon, <1>3 DEF TaggedRowIsOwn

\* Modify operations and their kernels touch no lookup stream.
LEMMA ModifyFrame ==
    ASSUME PlacesInv, UNCHANGED <<contexts, stream, held, failed, flow>>
    PROVE  /\ LookupShape'
           /\ contexts' \subseteq Contexts
           /\ stream' \in [Contexts -> Seq(LookupKernels)]
           /\ held' \in [Contexts -> Held]
           /\ failed' \subseteq Contexts
           /\ flow' \in [Contexts -> Tags]
  BY Zenon DEF PlacesInv, TypeOK, LookupShape

-----------------------------------------------------------------------------
\* Initially nothing is queued, held or visible.
LEMMA CacheInit == Init => PlacesInv /\ EventsInv /\ RowsInv
  <1> SUFFICES ASSUME Init PROVE PlacesInv /\ EventsInv /\ RowsInv
    BY Zenon
  <1> USE DEF Init, modify_context_create
  <1>1. TypeOK
    <2>1. Sentinel \in Tags /\ 0 \in Values
      BY BoundsAssumption DEF Tags, Values
    <2>2. Nothing \in Held
      BY DEF Held
    <2>3. <<>> \in Seq(LookupKernels) /\ <<>> \in Seq(ModifyKernels)
      OBVIOUS
    <2> QED
      BY Zenon, <2>1, <2>2, <2>3 DEF TypeOK, Rows, Pcs
  <1>2. LookupShape
    BY DEF LookupShape, Nothing
  <1>3. ModifyShape
    BY DEF ModifyShape, Owners
  <1>4. \A m \in Modifiers : ~Claims(m) /\ ~Queued(m, {"mem", "acc"}) /\ ~Queued(m, {"acc"}) /\ ~Synced(m)
    BY DEF Claims, Synced, Queued
  <1>5. ClaimedHidden /\ ClaimedFresh /\ EventsInv /\ RowsOwn
    BY Zenon, <1>4 DEF ClaimedHidden, ClaimedFresh, EventsInv, EventCovers, SnapshotCovers, RowsOwn
  <1>6. OneWayPerKey
    <2>1. \A k \in Keys : WayMask(k) = {}
      BY Zenon, SentinelAssumption, SetsAssumption DEF WayMask, Slots
    <2> QED
      BY Zenon, <2>1 DEF OneWayPerKey
  <1>7. TaggedRowIsOwn /\ LookupIsAtomic
    BY Zenon DEF TaggedRowIsOwn, LookupIsAtomic, Nothing
  <1> QED
    BY Zenon, <1>1, <1>2, <1>3, <1>5, <1>6, <1>7 DEF PlacesInv, RowsInv

-----------------------------------------------------------------------------
(***************************************************************************)
(* Contexts and lookups.                                                   *)
(***************************************************************************)
\* A step that changes nothing that is held, claimed or covered disturbs neither the events
\* nor the rows.
LEMMA QuietLookup ==
    ASSUME PlacesInv,
           UNCHANGED <<d_tags, cache, held, contexts, modify_stream, list, sync_event, ahead, pc, op>>
    PROVE  (EventsInv => EventsInv') /\ (RowsInv => RowsInv')
  <1>1. EventsInv => EventsInv'
    BY Zenon DEF EventsInv, EventCovers, SnapshotCovers, Queued, SlotsOf
  <1>2. LookupIsAtomic => LookupIsAtomic'
    BY Zenon DEF LookupIsAtomic
  <1> QED
    BY Zenon, <1>1, <1>2, RowsFrame DEF RowsInv

\* A context that comes or goes has nothing queued; without LateContexts it never comes
\* between the creation of an event and its recording.
LEMMA ContextStep ==
    ASSUME PlacesInv, NEW c \in Contexts, UNCHANGED <<pc, op, req>>,
           ContextCreate(c, Quiet) \/ ContextDestroy(c)
    PROVE  /\ PlacesInv'
           /\ EventsInv /\ ~LateContexts => EventsInv'
           /\ RowsInv => RowsInv'
  <1> USE DEF ContextCreate, ContextDestroy
  <1>1. TypeOK'
    BY Zenon DEF PlacesInv, TypeOK
  <1>2. LookupShape'
    BY DEF PlacesInv, LookupShape
  <1>3. EventCovers => EventCovers'
    BY Zenon DEF EventCovers, Queued, SlotsOf
  <1>4. SnapshotCovers /\ ~LateContexts => SnapshotCovers'
    BY Zenon DEF PlacesInv, TypeOK, SnapshotCovers, Quiet
  <1>5. LookupIsAtomic => LookupIsAtomic'
    BY Zenon DEF LookupIsAtomic
  <1>6. PlacesInv'
    BY Zenon, <1>1, <1>2, PlacesFrame DEF PlacesInv
  <1>7. RowsInv => RowsInv'
    BY Zenon, <1>5, RowsFrame DEF RowsInv
  <1> QED
    BY Zenon, <1>3, <1>4, <1>6, <1>7 DEF EventsInv

\* Queueing a kernel, or failing to, changes no tag, no row and nothing that is held.
LEMMA QueueStep ==
    ASSUME PlacesInv, NEW c \in Contexts, NEW w, UNCHANGED <<pc, op, req>>,
           \/ \E k \in Keys : lookup(c, k) \/ start_custom_flow(c, k, w)
           \/ start_custom_flow_throws(c)
           \/ end_custom_flow(c)
    PROVE  /\ PlacesInv'
           /\ EventsInv => EventsInv'
           /\ RowsInv => RowsInv'
  <1>0. /\ UNCHANGED <<d_tags, cache, contexts, held, modify_stream, list, sync_event, ahead, pc, op, req>>
        /\ failed' \subseteq Contexts
    BY Zenon DEF lookup, start_custom_flow, start_custom_flow_throws, end_custom_flow, PlacesInv, TypeOK
  <1>1. (EventsInv => EventsInv') /\ (RowsInv => RowsInv')
    BY Zenon, <1>0, QuietLookup
  <1>2. SUFFICES /\ stream' \in [Contexts -> Seq(LookupKernels)]
                 /\ flow' \in [Contexts -> Tags]
                 /\ LookupShape'
    BY Zenon, <1>0, <1>1, PlacesFrame DEF PlacesInv, TypeOK
  <1>3. stream[c] \in Seq(LookupKernels) /\ stream \in [Contexts -> Seq(LookupKernels)]
    BY Zenon DEF PlacesInv, TypeOK
  <1>4. flow \in [Contexts -> Tags] /\ flow[c] \in Tags
    BY Zenon DEF PlacesInv, TypeOK
  <1>5. CASE \E k \in Keys : lookup(c, k) \/ start_custom_flow(c, k, w)
    <2>1. PICK k \in Keys : lookup(c, k) \/ start_custom_flow(c, k, w)
      BY ZenonT(60), <1>5
    <2>2. PICK kind \in {"lookup", "find"} :
             /\ stream' = [stream EXCEPT ![c] = Append(@, [kind |-> kind, key |-> k])]
             /\ \/ kind = "lookup" /\ flow' = flow
                \/ kind = "find" /\ flow' = [flow EXCEPT ![c] = k]
      BY Zenon, <2>1 DEF lookup, start_custom_flow, Queue
    <2> DEFINE x == [kind |-> kind, key |-> k]
    <2>x. x \in LookupKernels /\ x.kind = kind
      BY Zenon DEF LookupKernels
    <2> HIDE DEF x
    <2>3. c \in contexts /\ flow[c] = Sentinel
      BY Zenon, <2>1 DEF lookup, start_custom_flow, CanQueue
    <2>4. /\ stream'[c] \in Seq(LookupKernels)
          /\ stream'[c] # <<>>
          /\ Len(stream[c]) \in Nat
          /\ Len(stream'[c]) = Len(stream[c]) + 1
          /\ stream'[c][Len(stream[c]) + 1] = x
          /\ \A i \in 1 .. Len(stream[c]) : stream'[c][i] = stream[c][i]
      BY <1>3, <2>2, <2>x, AppendFacts, EmptyFacts DEF x
    <2>5. stream' \in [Contexts -> Seq(LookupKernels)] /\ flow' \in [Contexts -> Tags]
      BY Zenon, <1>3, <1>4, <2>2, <2>4 DEF Tags
    <2>6. \A d \in Contexts \ {c} : stream'[d] = stream[d] /\ flow'[d] = flow[d]
      BY Zenon, <1>3, <1>4, <2>2
    <2>7. x.kind = "find" => flow'[c] # Sentinel
      BY Zenon, <1>4, <2>2, <2>x, SentinelAssumption
    <2>8. \A i \in 1 .. Len(stream[c]) : stream[c][i].kind = "find" => i < Len(stream[c]) /\ stream[c][i + 1].kind = "gather"
      BY Zenon, <2>3, <1>3, EmptyFacts DEF PlacesInv, LookupShape
    <2>9. \A i \in 1 .. Len(stream'[c]) : stream'[c][i].kind = "find" =>
              IF i < Len(stream'[c]) THEN stream'[c][i + 1].kind = "gather" ELSE flow'[c] # Sentinel
      <3> SUFFICES ASSUME NEW i \in 1 .. Len(stream'[c]), stream'[c][i].kind = "find"
                   PROVE  IF i < Len(stream'[c]) THEN stream'[c][i + 1].kind = "gather" ELSE flow'[c] # Sentinel
        BY Zenon
      <3>1. CASE i = Len(stream[c]) + 1
        BY <3>1, <2>4, <2>7
      <3>2. CASE i \in 1 .. Len(stream[c])
        <4>1. stream[c][i].kind = "find"
          BY Zenon, <3>2, <2>4
        <4>2. i + 1 \in 1 .. Len(stream[c]) /\ stream[c][i + 1].kind = "gather"
          BY <4>1, <3>2, <2>8, <2>4
        <4> QED
          BY <4>2, <2>4
      <3> QED
        BY <3>1, <3>2, <2>4
    <2>10. held[c].is # "nothing" => stream'[c][1].kind \in {"lookup", "gather"}
      <3> SUFFICES ASSUME held[c].is # "nothing" PROVE stream'[c][1].kind \in {"lookup", "gather"}
        BY Zenon
      <3>1. stream[c] # <<>> /\ stream[c][1].kind \in {"lookup", "gather"}
        BY Zenon, <2>3 DEF PlacesInv, LookupShape
      <3>2. 1 \in 1 .. Len(stream[c])
        BY Z3T(60), <3>1, <1>3, EmptyFacts
      <3> QED
        BY Zenon, <3>1, <3>2, <2>4
    <2>11. LookupShape'
      BY Z3T(60), <1>0, <2>3, <2>4, <2>6, <2>9, <2>10 DEF PlacesInv, LookupShape
    <2> QED
      BY Zenon, <2>5, <2>11
  <1>6. CASE start_custom_flow_throws(c)
    BY Zenon, <1>3, <1>4, <1>6 DEF start_custom_flow_throws, PlacesInv, LookupShape
  <1>7. CASE end_custom_flow(c)
    <2> DEFINE x == [kind |-> "gather", key |-> flow[c]]
    <2>1. /\ flow[c] # Sentinel
          /\ stream' = [stream EXCEPT ![c] = Append(@, x)]
          /\ flow' = [flow EXCEPT ![c] = Sentinel]
      BY Zenon, <1>7 DEF end_custom_flow, Queue
    <2>2. x \in LookupKernels /\ x.kind = "gather"
      BY Zenon, <1>4, <2>1 DEF LookupKernels, Tags
    <2> HIDE DEF x
    <2>3. /\ stream'[c] \in Seq(LookupKernels)
          /\ stream'[c] # <<>>
          /\ Len(stream[c]) \in Nat
          /\ Len(stream'[c]) = Len(stream[c]) + 1
          /\ stream'[c][Len(stream[c]) + 1] = x
          /\ \A i \in 1 .. Len(stream[c]) : stream'[c][i] = stream[c][i]
      BY <1>3, <2>1, <2>2, AppendFacts, EmptyFacts
    <2>4. stream' \in [Contexts -> Seq(LookupKernels)] /\ flow' \in [Contexts -> Tags]
      BY Zenon, <1>3, <1>4, <2>1, <2>3 DEF Tags
    <2>5. \A d \in Contexts \ {c} : stream'[d] = stream[d] /\ flow'[d] = flow[d]
      BY Zenon, <1>3, <1>4, <2>1
    <2>6. \A i \in 1 .. Len(stream'[c]) : stream'[c][i].kind = "find" =>
              i < Len(stream'[c]) /\ stream'[c][i + 1].kind = "gather"
      <3> SUFFICES ASSUME NEW i \in 1 .. Len(stream'[c]), stream'[c][i].kind = "find"
                   PROVE  i < Len(stream'[c]) /\ stream'[c][i + 1].kind = "gather"
        BY Zenon
      <3>1. i \in 1 .. Len(stream[c]) /\ stream[c][i].kind = "find"
        BY SMTT(60), <2>2, <2>3
      <3>2. CASE i = Len(stream[c])
        BY Z3T(60), <3>1, <3>2, <2>2, <2>3
      <3>3. CASE i < Len(stream[c])
        <4>1. i + 1 \in 1 .. Len(stream[c]) /\ stream[c][i + 1].kind = "gather"
          BY <3>1, <3>3, <2>3 DEF PlacesInv, LookupShape
        <4> QED
          BY Z3T(60), <4>1, <2>3
      <3> QED
        BY <3>1, <3>2, <3>3, <2>3
    <2>7. held[c].is # "nothing" => stream'[c][1].kind \in {"lookup", "gather"}
      <3>1. CASE stream[c] = <<>>
        BY Z3T(60), <3>1, <2>2, <2>3
      <3>2. CASE stream[c] # <<>>
        <4>1. 1 \in 1 .. Len(stream[c])
          BY Z3T(60), <3>2, <1>3, EmptyFacts
        <4> QED
          BY Zenon, <4>1, <3>2, <2>3 DEF PlacesInv, LookupShape
      <3> QED
        BY Zenon, <3>1, <3>2
    <2>8. c \in contexts
      BY Zenon, Z3T(60), <2>1 DEF PlacesInv, LookupShape
    <2>9. LookupShape'
      BY Z3T(60), <1>0, <2>3, <2>5, <2>6, <2>7, <2>8 DEF PlacesInv, LookupShape
    <2> QED
      BY Zenon, <2>4, <2>9
  <1> QED
    BY ZenonT(60), <1>5, <1>6, <1>7

\* Completes(c) shifts stream c and moves each event at most one kernel closer.
LEMMA CompletesFacts ==
    ASSUME PlacesInv, NEW c \in Contexts, stream[c] # <<>>, Completes(c)
    PROVE  /\ stream' \in [Contexts -> Seq(LookupKernels)]
           /\ ahead' \in [Modifiers -> [Contexts -> Nat]]
           /\ \A d \in Contexts \ {c} : stream'[d] = stream[d]
           /\ \A m \in Modifiers, d \in Contexts \ {c} : ahead'[m][d] = ahead[m][d]
           /\ Len(stream[c]) \in Nat /\ Len(stream[c]) >= 1
           /\ Len(stream'[c]) = Len(stream[c]) - 1
           /\ stream'[c] = <<>> <=> Len(stream[c]) = 1
           /\ \A i \in 1 .. Len(stream'[c]) : stream'[c][i] = stream[c][i + 1]
           /\ Running(c) = stream[c][1] /\ stream[c][1] \in LookupKernels
  <1>1. stream \in [Contexts -> Seq(LookupKernels)] /\ ahead \in [Modifiers -> [Contexts -> Nat]]
    BY Zenon DEF PlacesInv, TypeOK
  <1>2. stream' = [stream EXCEPT ![c] = Tail(@)] /\ stream'[c] = Tail(stream[c])
    BY Zenon, <1>1 DEF Completes
  <1>3. /\ Tail(stream[c]) \in Seq(LookupKernels)
        /\ Len(stream[c]) \in Nat /\ Len(stream[c]) >= 1
        /\ Len(stream'[c]) = Len(stream[c]) - 1
        /\ \A i \in 1 .. Len(stream'[c]) : stream'[c][i] = stream[c][i + 1]
        /\ Running(c) = stream[c][1] /\ stream[c][1] \in LookupKernels
    BY <1>1, <1>2, TailFacts DEF Running
  <1>4. stream' \in [Contexts -> Seq(LookupKernels)] /\ \A d \in Contexts \ {c} : stream'[d] = stream[d]
    BY Zenon, <1>1, <1>2, <1>3
  <1>5. stream'[c] = <<>> <=> Len(stream[c]) = 1
    <2>1. stream'[c] \in Seq(LookupKernels)
      BY Zenon, <1>2, <1>3
    <2>2. stream'[c] = <<>> <=> Len(stream'[c]) = 0
      BY Zenon, <2>1, EmptyFacts
    <2> QED
      BY <1>3, <2>2
  <1>6. /\ ahead' \in [Modifiers -> [Contexts -> Nat]]
        /\ \A m \in Modifiers, d \in Contexts \ {c} : ahead'[m][d] = ahead[m][d]
    BY <1>1 DEF Completes
  <1> QED
    BY Zenon, <1>3, <1>4, <1>5, <1>6

\* A completed kernel leaves the shape of its stream: find before gather, copies at the head.
LEMMA CompletesShape ==
    ASSUME PlacesInv, NEW c \in Contexts, stream[c] # <<>>, Completes(c), UNCHANGED <<contexts, flow>>,
           \A d \in Contexts \ {c} : held'[d] = held[d],
           held'[c].is # "nothing" => stream[c][1].kind = "find"
    PROVE  LookupShape'
  <1> USE CompletesFacts
  <1>1. \A i \in 1 .. Len(stream'[c]) : stream'[c][i].kind = "find" =>
            IF i < Len(stream'[c]) THEN stream'[c][i + 1].kind = "gather" ELSE flow'[c] # Sentinel
    <2> SUFFICES ASSUME NEW i \in 1 .. Len(stream'[c]), stream'[c][i].kind = "find"
                 PROVE  IF i < Len(stream'[c]) THEN stream'[c][i + 1].kind = "gather" ELSE flow'[c] # Sentinel
      BY Zenon
    <2>1. i + 1 \in 1 .. Len(stream[c]) /\ stream[c][i + 1].kind = "find"
      OBVIOUS
    <2>2. IF i + 1 < Len(stream[c]) THEN stream[c][i + 2].kind = "gather" ELSE flow[c] # Sentinel
      BY Z3T(60), <2>1 DEF PlacesInv, LookupShape
    <2>3. CASE i < Len(stream'[c])
      <3>1. i + 1 \in 1 .. Len(stream'[c]) /\ i + 1 < Len(stream[c])
        BY Z3T(60), <2>3
      <3>2. stream'[c][i + 1] = stream[c][i + 2]
        BY Z3T(60), <3>1
      <3> QED
        BY Zenon, <3>1, <3>2, <2>2, <2>3
    <2>4. CASE ~(i < Len(stream'[c]))
      BY Z3T(60), <2>2, <2>4
    <2> QED
      BY ZenonT(60), <2>3, <2>4
  <1>2. held'[c].is # "nothing" =>
            IF stream'[c] = <<>> THEN flow'[c] # Sentinel ELSE stream'[c][1].kind \in {"lookup", "gather"}
    <2> SUFFICES ASSUME held'[c].is # "nothing"
                 PROVE  IF stream'[c] = <<>> THEN flow'[c] # Sentinel ELSE stream'[c][1].kind \in {"lookup", "gather"}
      BY Zenon
    <2>1. 1 \in 1 .. Len(stream[c]) /\ stream[c][1].kind = "find"
      OBVIOUS
    <2>2. IF 1 < Len(stream[c]) THEN stream[c][2].kind = "gather" ELSE flow[c] # Sentinel
      BY Z3T(60), <2>1 DEF PlacesInv, LookupShape
    <2> QED
      BY Z3T(60), <2>2
  <1>3. c \in contexts
    BY ZenonT(60) DEF PlacesInv, LookupShape
  <1>4. \A d \in Contexts \ {c} : stream'[d] = stream[d] /\ held'[d] = held[d] /\ flow'[d] = flow[d]
    BY Zenon
  <1> HIDE CompletesFacts
  <1>5. contexts' = contexts
    BY Zenon
  <1>6. LookupShape
    BY Zenon DEF PlacesInv
  <1> QED
    BY Z3T(60), <1>1, <1>2, <1>3, <1>4, <1>5, <1>6 DEF LookupShape

\* A lookup that reads a tag reads the tag of a slot no operation has claimed.
LEMMA ReadTagsStep ==
    ASSUME PlacesInv, NEW c \in Contexts, UNCHANGED <<pc, op, req>>, ReadTags(c)
    PROVE  /\ PlacesInv'
           /\ EventsInv => EventsInv'
           /\ RowsInv => RowsInv'
  <1>0. UNCHANGED <<d_tags, cache, contexts, failed, flow, modify_stream, list, sync_event, pc, op, req>>
    BY ZenonT(60) DEF ReadTags
  <1>1. stream[c] # <<>> /\ held[c].is = "nothing" /\ Running(c).kind \in {"lookup", "find"}
    BY Zenon, Z3T(60) DEF ReadTags
  <1>2. /\ held \in [Contexts -> Held] /\ stream \in [Contexts -> Seq(LookupKernels)]
        /\ ahead \in [Modifiers -> [Contexts -> Nat]] /\ cache \in [Slots -> Rows]
        /\ d_tags \in [Slots -> Tags]
    BY Zenon DEF PlacesInv, TypeOK
  <1>3. Running(c) \in LookupKernels /\ Running(c) = stream[c][1]
    BY ZenonT(60), <1>1, <1>2, TailFacts DEF Running
  <1> DEFINE k == Running(c).key
  <1>4. k \in Keys
    BY Zenon, <1>3 DEF LookupKernels
  <1> HIDE DEF k
  <1>5. /\ \A d \in Contexts \ {c} : held'[d] = held[d]
        /\ held' \in [Contexts -> Held]
        /\ \/ held'[c].is # "found"
           \/ \E s \in WayMask(k) : held'[c] = Found(s, k, cache[s])
        /\ \/ Completes(c) /\ (held'[c].is # "nothing" => stream[c][1].kind = "find")
           \/ UNCHANGED <<stream, ahead>> /\ stream[c][1].kind = "lookup"
    <2>1. Missed \in Held /\ Nothing \in Held /\ Missed.is = "missed" /\ Nothing.is = "nothing"
      BY Z3T(60) DEF Held, Missed, Nothing
    <2>2. CASE \E s \in WayMask(k) :
                 /\ held' = [held EXCEPT ![c] = Found(s, k, cache[s])]
                 /\ IF Running(c).kind = "find" THEN Completes(c) ELSE UNCHANGED <<stream, ahead>>
      <3>1. PICK s \in WayMask(k) :
                 /\ held' = [held EXCEPT ![c] = Found(s, k, cache[s])]
                 /\ IF Running(c).kind = "find" THEN Completes(c) ELSE UNCHANGED <<stream, ahead>>
        BY ZenonT(60), <2>2
      <3>2. s \in Slots
        BY Zenon, <1>4, SetsAssumption DEF WayMask, Slots
      <3>3. Found(s, k, cache[s]) \in Held
        BY Z3T(60), <1>2, <1>4, <3>2 DEF Held
      <3> QED
        BY Zenon, <1>1, <1>2, <1>3, <3>1, <3>3
    <2>3. CASE /\ held' = [held EXCEPT ![c] = IF Running(c).kind = "find" THEN Missed ELSE Nothing]
               /\ Completes(c)
      BY Zenon, Z3T(60), <1>1, <1>2, <1>3, <2>1, <2>3
    <2> QED
      BY ZenonT(60), <2>2, <2>3 DEF ReadTags, k
  <1>6. ASSUME held'[c].is = "found"
        PROVE  /\ d_tags[held'[c].slot] # Sentinel
               /\ TaggedRowIsOwn => cache[held'[c].slot] = held'[c].row /\ held'[c].row.key = held'[c].key
    <2>1. PICK s \in WayMask(k) : held'[c] = Found(s, k, cache[s])
      BY ZenonT(60), <1>5, <1>6
    <2>2. s \in Slots /\ d_tags[s] = k /\ k # Sentinel
      BY Zenon, <1>4, SetsAssumption, SentinelAssumption DEF WayMask, Slots
    <2> QED
      BY <2>1, <2>2 DEF Found, TaggedRowIsOwn
  <1>7. /\ stream' \in [Contexts -> Seq(LookupKernels)]
        /\ ahead' \in [Modifiers -> [Contexts -> Nat]]
        /\ \A m \in Modifiers, d \in Contexts \ {c} : ahead'[m][d] = ahead[m][d]
    BY ZenonT(60), <1>1, <1>2, <1>5, CompletesFacts
  <1>8. LookupShape'
    <2>1. CASE Completes(c) /\ (held'[c].is # "nothing" => stream[c][1].kind = "find")
      BY ZenonT(60), <1>0, <1>1, <1>5, <2>1, CompletesShape
    <2>2. CASE UNCHANGED <<stream, ahead>> /\ stream[c][1].kind = "lookup"
      BY ZenonT(60), <1>0, <1>1, <1>5, <2>2 DEF PlacesInv, LookupShape
    <2> QED
      BY Zenon, <1>5, <2>1, <2>2
  <1>9. EventCovers => EventCovers'
    <2> SUFFICES ASSUME EventCovers, NEW m \in Modifiers, NEW d \in Contexts,
                        pc[m] = "commit" \/ Queued(m, {"mem", "acc"}),
                        held'[d].is = "found", held'[d].slot \in SlotsOf(list[m])
                 PROVE  ahead'[m][d] > 0
      BY ZenonT(60), <1>0 DEF EventCovers, Queued, SlotsOf
    <2>1. Claims(m)
      BY Zenon, Z3T(60) DEF Claims, Queued
    <2>2. d # c
      BY Zenon, <1>6, <2>1 DEF PlacesInv, ClaimedHidden
    <2> QED
      BY ZenonT(60), <1>5, <1>7, <2>2 DEF EventCovers
  <1>10. RowsInv => RowsInv'
    <2>1. TaggedRowIsOwn /\ LookupIsAtomic => LookupIsAtomic'
      BY Z3T(60), <1>0, <1>5, <1>6 DEF LookupIsAtomic
    <2> QED
      BY Zenon, <1>0, <2>1, RowsFrame DEF RowsInv
  <1>11. PlacesInv'
    BY ZenonT(60), <1>0, <1>5, <1>7, <1>8, PlacesFrame DEF PlacesInv, TypeOK
  <1> QED
    BY Zenon, <1>0, <1>9, <1>10, <1>11 DEF EventsInv, SnapshotCovers

\* Copying the row ends the lookup: it holds nothing any more.
LEMMA ReadRowStep ==
    ASSUME PlacesInv, NEW c \in Contexts, UNCHANGED <<pc, op, req>>, ReadRow(c)
    PROVE  /\ PlacesInv'
           /\ EventsInv => EventsInv'
           /\ RowsInv => RowsInv'
  <1>0. /\ UNCHANGED <<d_tags, cache, contexts, failed, flow, modify_stream, list, sync_event, pc, op, req>>
        /\ stream[c] # <<>> /\ Completes(c)
    BY ZenonT(60) DEF ReadRow
  <1>1. /\ held' \in [Contexts -> Held]
        /\ held'[c].is = "nothing"
        /\ \A d \in Contexts \ {c} : held'[d] = held[d]
    <2>1. Nothing \in Held /\ Nothing.is = "nothing" /\ held \in [Contexts -> Held]
      BY DEF Held, Nothing, PlacesInv, TypeOK
    <2> QED
      BY Zenon, Z3T(60), <2>1 DEF ReadRow
  <1>2. LookupShape'
    BY ZenonT(60), <1>0, <1>1, CompletesShape
  <1>3. EventCovers => EventCovers'
    <2> SUFFICES ASSUME EventCovers, NEW m \in Modifiers, NEW d \in Contexts,
                        pc[m] = "commit" \/ Queued(m, {"mem", "acc"}),
                        held'[d].is = "found", held'[d].slot \in SlotsOf(list[m])
                 PROVE  ahead'[m][d] > 0
      BY Zenon, Z3T(60), <1>0 DEF EventCovers, Queued, SlotsOf
    <2>1. d # c
      BY ZenonT(60), <1>1
    <2>2. ahead'[m][d] = ahead[m][d]
      BY Z3T(60), <1>0, <2>1, CompletesFacts
    <2> QED
      BY Zenon, Z3T(60), <1>1, <2>1, <2>2 DEF EventCovers
  <1>4. RowsInv => RowsInv'
    <2>1. LookupIsAtomic => LookupIsAtomic'
      BY ZenonT(60), <1>0, <1>1 DEF LookupIsAtomic
    <2> QED
      BY Zenon, <1>0, <2>1, RowsFrame DEF RowsInv
  <1>5. PlacesInv'
    BY ZenonT(60), <1>0, <1>1, <1>2, CompletesFacts, PlacesFrame DEF PlacesInv, TypeOK
  <1> QED
    BY Zenon, <1>0, <1>3, <1>4, <1>5 DEF EventsInv, SnapshotCovers

\* Whatever a lookup thread or a lookup kernel does keeps the invariants.
LEMMA LookupStep ==
    ASSUME PlacesInv, NEW c \in Contexts, NEW w, UNCHANGED <<pc, op, req>>,
           \/ ContextCreate(c, Quiet)
           \/ ContextDestroy(c)
           \/ \E k \in Keys : lookup(c, k)
           \/ \E k \in Keys : start_custom_flow(c, k, w)
           \/ start_custom_flow_throws(c)
           \/ end_custom_flow(c)
           \/ ReadTags(c)
           \/ ReadRow(c)
    PROVE  /\ PlacesInv'
           /\ EventsInv /\ ~LateContexts => EventsInv'
           /\ RowsInv => RowsInv'
           /\ UNCHANGED <<d_tags, modify_stream, list>>
  <1>1. UNCHANGED <<d_tags, modify_stream, list>>
    BY ZenonT(60) DEF ContextCreate, ContextDestroy, lookup, start_custom_flow, start_custom_flow_throws,
                      end_custom_flow, ReadTags, ReadRow
  <1>2. CASE ContextCreate(c, Quiet) \/ ContextDestroy(c)
    BY Zenon, <1>1, <1>2, ContextStep
  <1>3. CASE \/ \E k \in Keys : lookup(c, k) \/ start_custom_flow(c, k, w)
             \/ start_custom_flow_throws(c)
             \/ end_custom_flow(c)
    BY ZenonT(60), <1>1, <1>3, QueueStep
  <1>4. CASE ReadTags(c)
    BY Zenon, <1>1, <1>4, ReadTagsStep
  <1>5. CASE ReadRow(c)
    BY Zenon, <1>1, <1>5, ReadRowStep
  <1> QED
    BY ZenonT(60), <1>2, <1>3, <1>4, <1>5

-----------------------------------------------------------------------------
(***************************************************************************)
(* The modify stream.                                                      *)
(***************************************************************************)
\* Every queued kernel belongs to a modifier.
LEMMA KernelFacts ==
    ASSUME PlacesInv, NEW i \in 1 .. Len(modify_stream)
    PROVE  modify_stream[i] \in ModifyKernels /\ modify_stream[i].m \in Modifiers
  <1>1. modify_stream \in Seq(ModifyKernels)
    BY Zenon DEF PlacesInv, TypeOK
  <1>2. modify_stream[i] \in ModifyKernels
    BY Zenon, <1>1, EmptyFacts
  <1> QED
    BY Zenon, <1>2 DEF ModifyKernels

\* cudaStreamSynchronize leaves the stream empty: the lock of the cache lets no one else queue.
LEMMA SyncedEmpty ==
    ASSUME PlacesInv, NEW m \in Modifiers, Synced(m)
    PROVE  modify_stream = <<>>
  <1> SUFFICES ASSUME modify_stream # <<>> PROVE FALSE
    BY Zenon
  <1>1. modify_stream \in Seq(ModifyKernels)
    BY Zenon DEF PlacesInv, TypeOK
  <1>2. Len(modify_stream) \in 1 .. Len(modify_stream)
    BY Z3T(60), <1>1, EmptyFacts
  <1>3. modify_stream[Len(modify_stream)] = Kernel("invalidate", m)
    BY Zenon DEF PlacesInv, ModifyShape, Synced
  <1> QED
    BY Zenon, <1>2, <1>3 DEF Synced

\* While a kernel is queued, slots are claimed only by the operation whose row and tag
\* kernels are at the head.
LEMMA ClaimsHead ==
    ASSUME PlacesInv, modify_stream # <<>>, NEW m \in Modifiers, Claims(m)
    PROVE  ModifyHead.kind \in {"mem", "acc", "tags"} /\ ModifyHead.m = m
  <1>1. modify_stream \in Seq(ModifyKernels) /\ ModifyHead = modify_stream[1]
    BY Zenon, Z3T(60), TailFacts DEF PlacesInv, TypeOK, ModifyHead
  <1>2. Queued(m, {"mem", "acc", "tags"})
    BY Zenon, SyncedEmpty DEF Claims, PlacesInv, ModifyShape
  <1>3. PICK i \in 1 .. Len(modify_stream) :
           modify_stream[i].kind \in {"mem", "acc", "tags"} /\ modify_stream[i].m = m
    BY Zenon, Z3T(60), <1>2 DEF Queued
  <1>4. \/ i = 1
        \/ modify_stream[1].kind \in {"mem", "acc"} /\ modify_stream[1].m = m
    BY Zenon, Z3T(60), <1>3 DEF PlacesInv, ModifyShape
  <1> QED
    BY Zenon, <1>1, <1>3, <1>4

\* The head kernel completes: the shape of the stream is kept and nothing new is queued.
LEMMA TailShape ==
    ASSUME PlacesInv, modify_stream # <<>>, modify_stream' = Tail(modify_stream), UNCHANGED pc
    PROVE  /\ ModifyShape'
           /\ modify_stream' \in Seq(ModifyKernels)
           /\ ModifyHead = modify_stream[1] /\ ModifyHead \in ModifyKernels
           /\ \A m \in Modifiers : pc[m] # "commit"
           /\ \A m \in Modifiers : ~Queued(m, {"mem", "acc"})'
           /\ \A m \in Modifiers : Queued(m, {"tags"})' =>
                 /\ ModifyHead.kind \in {"mem", "acc"} /\ ModifyHead.m = m
                 /\ modify_stream'[1] = Kernel("tags", m)
           /\ \A m \in Modifiers : Synced(m)' => ModifyHead = Kernel("invalidate", m)
  <1>1. modify_stream \in Seq(ModifyKernels)
    BY Zenon DEF PlacesInv, TypeOK
  <1> DEFINE q == modify_stream
             L == Len(modify_stream)
             T == modify_stream'
  <1>2. /\ T \in Seq(ModifyKernels)
        /\ L \in Nat /\ L >= 1
        /\ Len(T) = L - 1
        /\ ModifyHead = q[1] /\ q[1] \in ModifyKernels
        /\ \A i \in 1 .. Len(T) : T[i] = q[i + 1]
        /\ T = <<>> <=> Len(T) = 0
    BY ZenonT(60), <1>1, TailFacts, EmptyFacts DEF ModifyHead
  <1>3. \A i \in 1 .. L :
            /\ q[i].kind = "invalidate" => i = L /\ pc[q[i].m] = "sync"
            /\ q[i].kind \in {"mem", "acc"} => i = 1 /\ L >= 2 /\ q[2] = Kernel("tags", q[i].m)
            /\ q[i].kind = "tags" => i = 1 \/ (i = 2 /\ q[1].kind \in {"mem", "acc"} /\ q[1].m = q[i].m)
            /\ q[i].kind = "clear" => i = 1
    BY Zenon DEF PlacesInv, ModifyShape
  <1>4. \A m \in Modifiers : pc[m] # "commit" /\ (pc[m] = "sync" => q[L] = Kernel("invalidate", m))
    BY Zenon, Z3T(60) DEF PlacesInv, ModifyShape
  <1>5. \A i \in 1 .. Len(T) :
            /\ T[i].kind = "invalidate" => i = Len(T) /\ pc[T[i].m] = "sync"
            /\ T[i].kind \notin {"mem", "acc", "clear"}
            /\ T[i].kind = "tags" => i = 1 /\ q[1].kind \in {"mem", "acc"} /\ q[1].m = T[i].m
    <2> SUFFICES ASSUME NEW i \in 1 .. Len(T)
                 PROVE  /\ T[i].kind = "invalidate" => i = Len(T) /\ pc[T[i].m] = "sync"
                        /\ T[i].kind \notin {"mem", "acc", "clear"}
                        /\ T[i].kind = "tags" => i = 1 /\ q[1].kind \in {"mem", "acc"} /\ q[1].m = T[i].m
      BY Zenon
    <2>1. i \in Nat /\ i >= 1 /\ i + 1 \in 1 .. L /\ T[i] = q[i + 1] /\ i + 1 # 1
      BY <1>2
    <2> HIDE DEF q, L, T
    <2> QED
      BY Z3T(60), <1>2, <1>3, <2>1
  <1>6. \A m \in Modifiers : pc[m] = "sync" /\ T # <<>> => T[Len(T)] = Kernel("invalidate", m)
    <2>1. T # <<>> => T[Len(T)] = q[L]
      BY <1>2
    <2> QED
      BY Zenon, <1>4, <2>1
  <1>7. ModifyShape'
    <2>1. Owners' = Owners
      BY Zenon, Z3T(60) DEF Owners
    <2> QED
      BY ZenonT(60), <1>4, <1>5, <1>6, <2>1 DEF PlacesInv, ModifyShape, Kernel
  <1>8. \A m \in Modifiers : ~Queued(m, {"mem", "acc"})'
    BY Zenon, <1>5 DEF Queued
  <1>9. ASSUME NEW m \in Modifiers, Queued(m, {"tags"})'
        PROVE  /\ ModifyHead.kind \in {"mem", "acc"} /\ ModifyHead.m = m
               /\ modify_stream'[1] = Kernel("tags", m)
    <2>1. PICK i \in 1 .. Len(T) : T[i].kind = "tags" /\ T[i].m = m
      BY Zenon, <1>9 DEF Queued
    <2>2. i = 1 /\ q[1].kind \in {"mem", "acc"} /\ q[1].m = m
      BY Zenon, <1>5, <2>1
    <2>3. q[2] = Kernel("tags", m) /\ T[1] = q[2]
      <3>1. 1 \in 1 .. L /\ 1 \in 1 .. Len(T)
        BY <1>2, <2>1
      <3>2. T[1] = q[1 + 1]
        BY Zenon, Z3T(60), <1>2, <3>1
      <3>3. q[2] = Kernel("tags", q[1].m)
        BY Zenon, <1>3, <2>2, <3>1
      <3> QED
        BY <2>2, <3>2, <3>3
    <2> QED
      BY Zenon, <1>2, <2>2, <2>3
  <1>10. ASSUME NEW m \in Modifiers, Synced(m)' PROVE ModifyHead = Kernel("invalidate", m)
    <2>1. pc[m] = "sync" /\ q[L] = Kernel("invalidate", m)
      BY Zenon, <1>4, <1>10 DEF Synced
    <2>2. T = <<>>
      <3> SUFFICES ASSUME T # <<>> PROVE FALSE
        BY Zenon
      <3>1. Len(T) \in 1 .. Len(T)
        BY <1>2
      <3>2. T[Len(T)] = Kernel("invalidate", m)
        BY Zenon, <1>6, <2>1
      <3> QED
        BY Zenon, <1>10, <3>1, <3>2 DEF Synced, Kernel
    <2>3. L = 1
      <3> HIDE DEF L, T
      <3> QED
        BY Z3T(60), <1>2, <2>2
    <2> QED
      BY Zenon, <1>2, <2>1, <2>3
  <1> QED
    BY ZenonT(60), <1>2, <1>4, <1>7, <1>8, <1>9, <1>10

-----------------------------------------------------------------------------
(***************************************************************************)
(* The kernels of the modify stream.                                       *)
(***************************************************************************)
\* The kernel at the head belongs to a modifier.
LEMMA HeadFacts ==
    ASSUME PlacesInv, modify_stream # <<>>
    PROVE  /\ modify_stream \in Seq(ModifyKernels) /\ 1 \in 1 .. Len(modify_stream)
           /\ ModifyHead = modify_stream[1] /\ ModifyHead \in ModifyKernels
           /\ ModifyHead.m \in Modifiers
           /\ ModifyHead = Kernel(ModifyHead.kind, ModifyHead.m)
           /\ list[ModifyHead.m] \in SUBSET Entries
  <1>1. modify_stream \in Seq(ModifyKernels) /\ list \in [Modifiers -> SUBSET Entries]
    BY Zenon DEF PlacesInv, TypeOK
  <1>2. ModifyHead = modify_stream[1] /\ modify_stream[1] \in ModifyKernels /\ 1 \in 1 .. Len(modify_stream)
    BY <1>1, TailFacts DEF ModifyHead
  <1>3. ModifyHead.m \in Modifiers /\ ModifyHead = Kernel(ModifyHead.kind, ModifyHead.m)
    BY Zenon, <1>2 DEF ModifyKernels, Kernel
  <1> QED
    BY Zenon, <1>1, <1>2, <1>3

\* A tag kernel at the head is a queued tag kernel.
LEMMA FirstQueued ==
    ASSUME NEW m, modify_stream \in Seq(ModifyKernels), modify_stream # <<>>, modify_stream[1] = Kernel("tags", m)
    PROVE  Queued(m, {"tags"}) /\ Queued(m, {"mem", "acc", "tags"})
  <1>1. 1 \in 1 .. Len(modify_stream)
    BY Z3T(60), EmptyFacts
  <1> QED
    BY <1>1 DEF Queued, Kernel

\* The slots that show a key are slots of its set.
LEMMA WayMaskFacts ==
    ASSUME NEW k \in Keys
    PROVE  /\ {SetOf[k]} \X Ways \subseteq Slots
           /\ WayMask(k) \subseteq Slots
           /\ \A s \in {SetOf[k]} \X Ways : s \in WayMask(k) <=> d_tags[s] = k
  BY Zenon, SetsAssumption DEF WayMask, Slots

\* invalidate_tag_kernel hides the slots of its list, and with them its keys, before any
\* lookup can find them again.
LEMMA InvalidateStep ==
    ASSUME PlacesInv, ModifyRuns({"invalidate"}), UNCHANGED <<pc, op, req>>,
           NEW l \in SUBSET Entries, InvalidateTags(l), Injective(l),
           \A e \in l : e.slot \in {SetOf[e.key]} \X Ways /\ WayMask(e.key) \subseteq SlotsOf(l)
    PROVE  /\ PlacesInv'
           /\ EventsInv => EventsInv'
           /\ /\ RowsInv
              /\ op[ModifyHead.m] = "update_accumulate" => \A e \in l : d_tags[e.slot] = e.key
              => RowsInv'
  <1>0. PICK m : m = ModifyHead.m
    BY Zenon
  <1>1. modify_stream # <<>> /\ ModifyHead.kind = "invalidate"
    BY Zenon DEF ModifyRuns
  <1>3. /\ list' = [list EXCEPT ![m] = l]
        /\ d_tags' = [s \in Slots |-> IF s \in SlotsOf(l) THEN Sentinel ELSE d_tags[s]]
        /\ modify_stream' = Tail(modify_stream)
        /\ UNCHANGED <<cache, contexts, stream, held, failed, flow, sync_event, ahead>>
    BY Zenon, Z3T(60), <1>0 DEF InvalidateTags
  <1>5. /\ list \in [Modifiers -> SUBSET Entries] /\ d_tags \in [Slots -> Tags]
        /\ m \in Modifiers
    BY ZenonT(60), <1>0, <1>1, HeadFacts DEF PlacesInv, TypeOK
  <1>6. /\ ModifyShape'
        /\ modify_stream' \in Seq(ModifyKernels)
        /\ \A n \in Modifiers : pc[n] # "commit" /\ ~Queued(n, {"mem", "acc"})' /\ ~Queued(n, {"tags"})'
        /\ \A n \in Modifiers : Synced(n)' => n = m
    BY Z3T(60), <1>0, <1>1, <1>3, TailShape DEF Kernel
  <1>7. \A n \in Modifiers : Claims(n)' => n = m
    BY Zenon, <1>6 DEF Claims, Queued
  <1>8. list'[m] = l /\ list' \in [Modifiers -> SUBSET Entries]
    BY ZenonT(60), <1>3, <1>5
  <1>9. d_tags' \in [Slots -> Tags]
    BY ZenonT(60), <1>3, <1>5 DEF Tags
  <1>10. TypeOK'
    BY ZenonT(60), <1>3, <1>6, <1>8, <1>9 DEF PlacesInv, TypeOK
  <1>l. \A s \in SlotsOf(l) : s \in Slots
    BY ONLY Zenon, Z3T(60), EntryFacts, l \in SUBSET Entries
  <1>h. \A s \in SlotsOf(l) : d_tags'[s] = Sentinel
    BY ONLY ZenonT(60), <1>3, <1>l
  <1>11. ClaimedHidden'
    BY ZenonT(60), <1>7, <1>8, <1>h DEF ClaimedHidden, SlotsOf
  <1>w. ASSUME NEW k \in Keys, NEW s \in WayMask(k)' PROVE s \in WayMask(k) /\ s \notin SlotsOf(l)
    <2>1. s \in {SetOf[k]} \X Ways /\ s \in Slots /\ d_tags'[s] = k /\ k # Sentinel
      BY Zenon, Z3T(60), SetsAssumption, SentinelAssumption DEF WayMask, Slots
    <2>2. s \notin SlotsOf(l)
      BY ZenonT(60), <2>1, <1>h
    <2>3. d_tags[s] = k
      BY ZenonT(60), <2>1, <2>2, <1>3
    <2> QED
      BY ZenonT(60), <2>1, <2>2, <2>3 DEF WayMask
  <1>12. OneWayPerKey'
    BY ZenonT(60), <1>w DEF PlacesInv, OneWayPerKey
  <1>13. ClaimedFresh'
    <2>1. \A e \in l : e.key \in Keys
      BY Zenon DEF Entries
    <2>2. \A e \in l : WayMask(e.key)' = {}
      BY ZenonT(60), <1>w, <2>1
    <2> QED
      BY ZenonT(60), <1>7, <1>8, <2>2 DEF ClaimedFresh, Injective
  <1>14. EventsInv => EventsInv'
    <2>1. \A n \in Modifiers : pc'[n] # "commit" /\ ~Queued(n, {"mem", "acc"})'
      BY ONLY ZenonT(60), <1>6, pc' = pc
    <2>2. EventCovers'
      BY ONLY ZenonT(60), <2>1 DEF EventCovers
    <2> QED
      BY ZenonT(60), <1>3, <2>2 DEF EventsInv, SnapshotCovers
  <1>15. ASSUME RowsInv, op[ModifyHead.m] = "update_accumulate" => \A e \in l : d_tags[e.slot] = e.key
         PROVE  RowsOwn'
    <2> SUFFICES ASSUME NEW n \in Modifiers,
                        \/ (Synced(n)' \/ pc[n] = "commit") /\ op[n] = "update_accumulate"
                        \/ Queued(n, {"acc"})'
                        \/ modify_stream' # <<>> /\ modify_stream'[1] = Kernel("tags", n)
                 PROVE  OwnRows(n)'
      BY ZenonT(60) DEF RowsOwn, Kernel
    <2>1. n = m /\ op[m] = "update_accumulate"
      <3>1. ~(modify_stream' # <<>> /\ modify_stream'[1] = Kernel("tags", n))
        <4> SUFFICES ASSUME modify_stream' # <<>>, modify_stream'[1] = Kernel("tags", n) PROVE FALSE
          BY Zenon
        <4>1. 1 \in 1 .. Len(modify_stream')
          BY Z3T(60), <1>6, EmptyFacts
        <4>2. Queued(n, {"tags"})'
          BY Z3T(60), <4>1 DEF Queued, Kernel
        <4> QED
          BY Zenon, <4>2, <1>6
      <3>2. ~Queued(n, {"acc"})'
        BY Zenon, Z3T(60), <1>6 DEF Queued
      <3> QED
        BY ZenonT(60), <1>6, <3>1, <3>2
    <2>3. ASSUME NEW s \in SlotsOf(l) PROVE cache[s].key = EntryAt(l, s).key
      <3>1. EntryAt(l, s) \in l /\ EntryAt(l, s).slot = s /\ s \in Slots /\ EntryAt(l, s) \in Entries
        BY Zenon, EntryFacts
      <3>2. EntryAt(l, s).key \in Keys
        BY Zenon, <3>1 DEF Entries
      <3>3. d_tags[s] = EntryAt(l, s).key /\ EntryAt(l, s).key # Sentinel
        BY ZenonT(60), <1>0, <1>15, <2>1, <3>1, <3>2, SentinelAssumption
      <3> QED
        BY ZenonT(60), <1>15, <3>1, <3>3 DEF RowsInv, TaggedRowIsOwn
    <2> QED
      BY ZenonT(60), <1>3, <1>8, <2>1, <2>3 DEF OwnRows, SlotsOf
  <1>16. RowsInv => TaggedRowIsOwn' /\ LookupIsAtomic'
    BY ZenonT(60), <1>3 DEF RowsInv, TaggedRowIsOwn, LookupIsAtomic
  <1>17. PlacesInv'
    BY ZenonT(60), <1>3, <1>6, <1>10, <1>11, <1>12, <1>13, ModifyFrame DEF PlacesInv
  <1> QED
    BY Zenon, <1>14, <1>15, <1>16, <1>17 DEF RowsInv

\* When the event of a list is reached no lookup holds a row of that list.
LEMMA NoRace == PlacesInv /\ EventsInv => NoRowRace
  <1> SUFFICES ASSUME PlacesInv, EventsInv, ModifyRuns({"mem", "acc"}), EventReached(ModifyHead.m), NEW c \in Contexts,
                      held[c].is = "found", held[c].slot \in SlotsOf(list[ModifyHead.m])
               PROVE  FALSE
    BY Zenon DEF NoRowRace
  <1>1. modify_stream # <<>> /\ ModifyHead.kind \in {"mem", "acc"}
    BY Zenon DEF ModifyRuns
  <1>2. ModifyHead.m \in Modifiers /\ Queued(ModifyHead.m, {"mem", "acc"})
    BY Zenon, Z3T(60), <1>1, HeadFacts DEF Queued
  <1>3. ahead[ModifyHead.m][c] > 0
    BY Zenon, Z3T(60), <1>2 DEF EventsInv, EventCovers
  <1> QED
    BY <1>3 DEF EventReached

\* Writing the rows of a list disturbs no lookup and leaves every row with its own key.
LEMMA MemUpdateStep ==
    ASSUME PlacesInv, MemUpdate, UNCHANGED <<pc, op, req>>
    PROVE  /\ PlacesInv'
           /\ EventsInv => EventsInv'
           /\ EventsInv /\ RowsInv => RowsInv'
  <1>0. PICK m, l : m = ModifyHead.m /\ l = list[m]
    BY Zenon
  <1>1. /\ modify_stream # <<>> /\ ModifyHead.kind \in {"mem", "acc"} /\ EventReached(m)
        /\ modify_stream' = Tail(modify_stream)
        /\ UNCHANGED <<d_tags, contexts, stream, held, failed, flow, list, sync_event, ahead>>
    BY Zenon, <1>0 DEF MemUpdate, ModifyRuns
  <1>2. cache' = [s \in Slots |->
                   IF s \notin SlotsOf(l) THEN cache[s]
                   ELSE IF ModifyHead.kind = "mem"
                        THEN [key |-> EntryAt(l, s).key, val |-> EntryAt(l, s).val]
                        ELSE [cache[s] EXCEPT !.val = (@ + EntryAt(l, s).val) % (MaxVal + 1)]]
    BY Zenon, Z3T(60), <1>0 DEF MemUpdate
  <1>3. /\ ModifyShape' /\ modify_stream' \in Seq(ModifyKernels)
        /\ \A n \in Modifiers : pc[n] # "commit" /\ ~Queued(n, {"mem", "acc"})' /\ ~Synced(n)'
        /\ \A n \in Modifiers : Queued(n, {"tags"})' => n = m
    <2>1. \A n \in Modifiers : ModifyHead # Kernel("invalidate", n)
      BY <1>1 DEF Kernel
    <2> QED
      BY Zenon, <1>0, <1>1, <2>1, TailShape
  <1>4. m \in Modifiers /\ l \in SUBSET Entries /\ cache \in [Slots -> Rows]
    BY ZenonT(60), <1>0, <1>1, HeadFacts DEF PlacesInv, TypeOK
  <1>5. Queued(m, {"mem", "acc", "tags"}) /\ Claims(m)
    BY Zenon, <1>0, <1>1, HeadFacts DEF Queued, Claims
  <1>6. cache' \in [Slots -> Rows]
    <2> SUFFICES ASSUME NEW s \in Slots PROVE cache'[s] \in Rows
      BY ZenonT(60), <1>2
    <2>1. CASE s \notin SlotsOf(l)
      BY Zenon, <1>2, <1>4, <2>1
    <2>2. CASE s \in SlotsOf(l)
      <3>1. EntryAt(l, s) \in Entries
        BY Zenon, <1>4, <2>2, EntryFacts
      <3>2. EntryAt(l, s).key \in Tags /\ EntryAt(l, s).val \in Values
        BY Zenon, <3>1 DEF Entries, Tags
      <3>3. cache[s] \in Rows /\ (cache[s].val + EntryAt(l, s).val) % (MaxVal + 1) \in Values
        BY Zenon, <1>4, <3>2, SumInRange DEF Rows
      <3> QED
        BY Zenon, <1>2, <2>2, <3>2, <3>3 DEF Rows
    <2> QED
      BY Zenon, <2>1, <2>2
  <1>7. TypeOK'
    BY ZenonT(60), <1>1, <1>3, <1>6 DEF PlacesInv, TypeOK
  <1>8. \A s \in SlotsOf(l) : d_tags[s] = Sentinel
    BY ZenonT(60), <1>0, <1>4, <1>5 DEF PlacesInv, ClaimedHidden
  <1>9. \A n \in Modifiers : Claims(n)' => n = m
    BY ZenonT(60), <1>1, <1>3 DEF Claims, Queued
  <1>10. ClaimedHidden'
    BY ZenonT(60), <1>0, <1>1, <1>8, <1>9 DEF ClaimedHidden, SlotsOf
  <1>w. \A k : WayMask(k)' = WayMask(k)
    BY ZenonT(60), <1>1 DEF WayMask
  <1>f. ClaimedFresh' /\ OneWayPerKey'
    BY ZenonT(60), <1>1, <1>4, <1>5, <1>9, <1>w DEF PlacesInv, ClaimedFresh, OneWayPerKey, Injective
  <1>11. \A s \in Slots : s \notin SlotsOf(l) => cache'[s] = cache[s]
    BY Zenon, <1>2
  <1>12. ASSUME EventsInv, RowsInv PROVE TaggedRowIsOwn' /\ LookupIsAtomic'
    <2>1. TaggedRowIsOwn'
      BY ZenonT(60), <1>1, <1>8, <1>11, <1>12 DEF RowsInv, TaggedRowIsOwn
    <2> SUFFICES ASSUME NEW c \in Contexts, held[c].is = "found"
                 PROVE  cache'[held[c].slot] = held[c].row /\ held[c].row.key = held[c].key
      BY Zenon, Z3T(60), <1>1, <2>1 DEF LookupIsAtomic
    <2>2. held[c].slot \notin SlotsOf(l)
      BY Zenon, <1>0, <1>1, <1>12, NoRace DEF NoRowRace, ModifyRuns
    <2>3. held[c].slot \in Slots
      BY Zenon, HeldFacts DEF PlacesInv, TypeOK
    <2> QED
      BY ZenonT(60), <1>11, <1>12, <2>2, <2>3 DEF RowsInv, LookupIsAtomic
  <1>14. EventsInv => EventsInv'
    BY ZenonT(60), <1>1, <1>3 DEF EventsInv, EventCovers, SnapshotCovers
  <1>15. ASSUME RowsInv PROVE RowsOwn'
    <2>1. ASSUME NEW s \in SlotsOf(l) PROVE cache'[s].key = EntryAt(l, s).key
      <3>1. s \in Slots /\ EntryAt(l, s) \in Entries
        BY Zenon, <1>4, EntryFacts
      <3>2. CASE ModifyHead.kind = "mem"
        BY Zenon, Z3T(60), <1>2, <3>1, <3>2
      <3>3. CASE ModifyHead.kind = "acc"
        <4>1. Queued(m, {"acc"})
          BY Zenon, <1>0, <1>1, <3>3, HeadFacts DEF Queued
        <4>2. cache[s].key = EntryAt(l, s).key
          BY ZenonT(60), <1>0, <1>4, <1>15, <4>1 DEF RowsInv, RowsOwn, OwnRows
        <4>3. cache[s] \in Rows
          BY Zenon, <1>4, <3>1
        <4>4. cache'[s].key = cache[s].key
          BY Zenon, Z3T(60), <1>2, <3>1, <3>3, <4>3 DEF Rows
        <4> QED
          BY Zenon, Z3T(60), <4>2, <4>4
      <3> QED
        BY ZenonT(60), <1>1, <3>2, <3>3
    <2>2. OwnRows(m)'
      BY Zenon, <1>0, <1>1, <2>1 DEF OwnRows, SlotsOf
    <2>3. ASSUME NEW n \in Modifiers, modify_stream' # <<>>, modify_stream'[1] = Kernel("tags", n) PROVE n = m
      <3>1. 1 \in 1 .. Len(modify_stream')
        BY <1>3, <2>3, EmptyFacts
      <3>2. Queued(n, {"tags"})'
        BY Z3T(60), <2>3, <3>1 DEF Queued, Kernel
      <3> QED
        BY Zenon, <1>3, <3>2
    <2>4. \A n \in Modifiers : ~Queued(n, {"acc"})'
      BY Zenon, <1>3 DEF Queued
    <2> QED
      BY ZenonT(60), <1>1, <1>3, <2>2, <2>3, <2>4 DEF RowsOwn, Kernel
  <1>16. PlacesInv'
    BY Zenon, Z3T(60), <1>1, <1>3, <1>7, <1>10, <1>f, ModifyFrame DEF PlacesInv
  <1> QED
    BY Zenon, <1>12, <1>14, <1>15, <1>16 DEF RowsInv

\* A tag or clear kernel is the last of its operation: once it has run, no slot is claimed.
LEMMA NothingClaimed ==
    ASSUME PlacesInv, ModifyRuns({"tags", "clear"}), modify_stream' = Tail(modify_stream), UNCHANGED pc
    PROVE  /\ ModifyShape' /\ modify_stream' \in Seq(ModifyKernels)
           /\ \A n \in Modifiers : ~Claims(n)' /\ ~Synced(n)' /\ pc[n] # "commit" /\ ~Queued(n, {"mem", "acc"})'
                                   /\ ~Queued(n, {"tags"})'
           /\ ClaimedHidden' /\ ClaimedFresh' /\ EventCovers' /\ RowsOwn'
  <1>1. modify_stream # <<>> /\ ModifyHead.kind \in {"tags", "clear"}
    BY Zenon DEF ModifyRuns
  <1>2. \A n \in Modifiers : ModifyHead # Kernel("invalidate", n)
    BY <1>1 DEF Kernel
  <1>3. /\ ModifyShape' /\ modify_stream' \in Seq(ModifyKernels)
        /\ \A n \in Modifiers : pc[n] # "commit" /\ ~Queued(n, {"mem", "acc"})' /\ ~Synced(n)' /\ ~Queued(n, {"tags"})'
    BY Zenon, Z3T(60), <1>1, <1>2, TailShape
  <1>4. \A n \in Modifiers : ~Claims(n)'
    BY ZenonT(60), <1>3 DEF Claims, Queued
  <1>5. ClaimedHidden' /\ ClaimedFresh' /\ EventCovers'
    BY ZenonT(60), <1>3, <1>4 DEF ClaimedHidden, ClaimedFresh, EventCovers
  <1>6. RowsOwn'
    <2>1. ASSUME NEW n \in Modifiers, modify_stream' # <<>>, modify_stream'[1] = Kernel("tags", n) PROVE FALSE
      <3>1. 1 \in 1 .. Len(modify_stream')
        BY Z3T(60), <1>3, <2>1, EmptyFacts
      <3>2. Queued(n, {"tags"})'
        BY Z3T(60), <2>1, <3>1 DEF Queued, Kernel
      <3> QED
        BY Zenon, <1>3, <3>2
    <2>2. \A n \in Modifiers : ~Queued(n, {"acc"})'
      BY Zenon, Z3T(60), <1>3 DEF Queued
    <2> QED
      BY ZenonT(60), <1>3, <2>1, <2>2 DEF RowsOwn, Kernel
  <1> QED
    BY Zenon, <1>3, <1>4, <1>5, <1>6

\* Making the slots of a list visible again shows rows of the keys they are tagged with, and
\* each key in one place.
LEMMA TagUpdateStep ==
    ASSUME PlacesInv, TagUpdate, UNCHANGED <<pc, op, req>>
    PROVE  /\ PlacesInv'
           /\ EventsInv => EventsInv'
           /\ RowsInv => RowsInv'
  <1>0. PICK m, l : m = ModifyHead.m /\ l = list[m]
    OBVIOUS
  <1>1. /\ modify_stream # <<>> /\ ModifyHead.kind = "tags" /\ ModifyRuns({"tags", "clear"})
        /\ modify_stream' = Tail(modify_stream)
        /\ list' = [list EXCEPT ![m] = {}]
        /\ d_tags' = [s \in Slots |-> IF s \in SlotsOf(l) THEN EntryAt(l, s).key ELSE d_tags[s]]
        /\ UNCHANGED <<cache, contexts, stream, held, failed, flow, sync_event, ahead>>
    BY Zenon, Z3T(60), <1>0 DEF TagUpdate, ModifyRuns
  <1>2. /\ ModifyShape' /\ modify_stream' \in Seq(ModifyKernels)
        /\ ClaimedHidden' /\ ClaimedFresh' /\ EventCovers' /\ RowsOwn'
    BY ZenonT(60), <1>1, NothingClaimed
  <1>3. m \in Modifiers /\ l \in SUBSET Entries /\ d_tags \in [Slots -> Tags] /\ list \in [Modifiers -> SUBSET Entries]
    BY ZenonT(60), <1>0, <1>1, HeadFacts DEF PlacesInv, TypeOK
  <1>4. ModifyHead = Kernel("tags", m) /\ Claims(m)
    BY Zenon, <1>0, <1>1, HeadFacts DEF Claims, Queued
  <1>5. \A s \in SlotsOf(l) : /\ EntryAt(l, s) \in l /\ EntryAt(l, s).slot = s
                              /\ EntryAt(l, s).key \in Keys
    BY Zenon, Z3T(60), <1>3, EntryFacts DEF Entries
  <1>6. d_tags' \in [Slots -> Tags]
    BY Zenon, <1>1, <1>3, <1>5 DEF Tags
  <1>7. TypeOK'
    BY ZenonT(60), <1>1, <1>2, <1>3, <1>6 DEF PlacesInv, TypeOK
  <1>8. Injective(l) /\ \A e \in l : WayMask(e.key) = {}
    BY ZenonT(60), <1>0, <1>3, <1>4 DEF PlacesInv, ClaimedFresh
  <1>9. OneWayPerKey'
    <2> SUFFICES ASSUME NEW k \in Keys, NEW s \in WayMask(k)', NEW t \in WayMask(k)'
                 PROVE  s = t
      BY Zenon DEF OneWayPerKey
    <2>1. ASSUME NEW u \in WayMask(k)'
          PROVE  IF u \in SlotsOf(l) THEN EntryAt(l, u).key = k ELSE u \in WayMask(k)
      <3>1. u \in {SetOf[k]} \X Ways /\ u \in Slots /\ d_tags'[u] = k
        BY Zenon, Z3T(60), SetsAssumption DEF WayMask, Slots
      <3>2. d_tags'[u] = IF u \in SlotsOf(l) THEN EntryAt(l, u).key ELSE d_tags[u]
        BY ZenonT(60), <1>1, <3>1
      <3> QED
        BY ZenonT(60), <3>1, <3>2 DEF WayMask
    <2>2. CASE s \in SlotsOf(l) /\ t \in SlotsOf(l)
      <3>1. EntryAt(l, s).key = k /\ EntryAt(l, t).key = k
        BY ZenonT(60), <2>1, <2>2
      <3>2. EntryAt(l, s) = EntryAt(l, t)
        BY ZenonT(60), <1>5, <1>8, <2>2, <3>1 DEF Injective
      <3> QED
        BY ZenonT(60), <1>5, <2>2, <3>2
    <2>3. CASE s \in SlotsOf(l) \/ t \in SlotsOf(l)
      BY ZenonT(60), <1>5, <1>8, <2>1, <2>2, <2>3
    <2>4. CASE s \notin SlotsOf(l) /\ t \notin SlotsOf(l)
      BY ZenonT(60), <2>1, <2>4 DEF PlacesInv, OneWayPerKey
    <2> QED
      BY Zenon, <2>2, <2>3, <2>4
  <1>10. RowsInv => TaggedRowIsOwn' /\ LookupIsAtomic'
    <2> SUFFICES ASSUME RowsInv PROVE TaggedRowIsOwn' /\ LookupIsAtomic'
      BY Zenon
    <2>1. \A s \in SlotsOf(l) : cache[s].key = EntryAt(l, s).key
      BY ZenonT(60), <1>0, <1>1, <1>3, <1>4, HeadFacts DEF RowsInv, RowsOwn, OwnRows
    <2> QED
      BY ZenonT(60), <1>1, <2>1 DEF RowsInv, TaggedRowIsOwn, LookupIsAtomic
  <1>11. EventsInv => EventsInv'
    BY ZenonT(60), <1>1, <1>2 DEF EventsInv, SnapshotCovers
  <1>12. PlacesInv'
    BY Zenon, Z3T(60), <1>1, <1>2, <1>7, <1>9, ModifyFrame DEF PlacesInv
  <1> QED
    BY Zenon, <1>2, <1>10, <1>11, <1>12 DEF RowsInv

\* Clearing hides every slot.
LEMMA ClearStep ==
    ASSUME PlacesInv, ModifyRuns({"clear"}), modify_stream' = Tail(modify_stream),
           d_tags' = [s \in Slots |-> Sentinel],
           UNCHANGED <<cache, contexts, stream, held, failed, flow, list, sync_event, ahead, pc, op, req>>
    PROVE  /\ PlacesInv'
           /\ EventsInv => EventsInv'
           /\ RowsInv => RowsInv'
  <1>1. ModifyRuns({"tags", "clear"})
    BY Zenon DEF ModifyRuns
  <1>2. /\ ModifyShape' /\ modify_stream' \in Seq(ModifyKernels)
        /\ ClaimedHidden' /\ ClaimedFresh' /\ EventCovers' /\ RowsOwn'
    BY ZenonT(60), <1>1, NothingClaimed
  <1>3. TypeOK'
    BY Zenon, <1>2 DEF PlacesInv, TypeOK, Tags
  <1>4. OneWayPerKey'
    <2>1. \A k \in Keys : WayMask(k)' = {}
      BY Zenon, SentinelAssumption, SetsAssumption DEF WayMask, Slots
    <2> QED
      BY Zenon, <2>1 DEF OneWayPerKey
  <1>5. EventsInv => EventsInv'
    BY ZenonT(60), <1>2 DEF EventsInv, SnapshotCovers
  <1>6. RowsInv => TaggedRowIsOwn' /\ LookupIsAtomic'
    BY ZenonT(60) DEF RowsInv, TaggedRowIsOwn, LookupIsAtomic
  <1>7. PlacesInv'
    BY Zenon, <1>2, <1>3, <1>4, ModifyFrame DEF PlacesInv
  <1> QED
    BY Zenon, <1>2, <1>5, <1>6, <1>7 DEF RowsInv

-----------------------------------------------------------------------------
(***************************************************************************)
(* The host side of the modify operations.                                 *)
(***************************************************************************)
\* Creating an event and calling the cache claims nothing yet.
LEMMA CallStep ==
    ASSUME PlacesInv, NEW m \in Modifiers, NEW o \in Ops, NEW r \in Requests,
           pc[m] = "idle", create_sync_event(m),
           pc' = [pc EXCEPT ![m] = "call"], op' = [op EXCEPT ![m] = o], req' = [req EXCEPT ![m] = r],
           UNCHANGED <<d_tags, cache, contexts, stream, held, failed, flow, modify_stream, list, ahead>>
    PROVE  /\ PlacesInv'
           /\ EventsInv => EventsInv'
           /\ RowsInv => RowsInv'
  <1>1. sync_event' = [sync_event EXCEPT ![m] = contexts]
    BY Zenon DEF create_sync_event
  <1>2. TypeOK'
    BY ZenonT(60), <1>1 DEF PlacesInv, TypeOK, Pcs
  <1>3. /\ pc \in [Modifiers -> Pcs] /\ op \in [Modifiers -> Ops \cup {"none"}]
        /\ list \in [Modifiers -> SUBSET Entries]
    BY Zenon, Z3T(60) DEF PlacesInv, TypeOK
  <1>4. \A n \in Modifiers : /\ pc'[n] = "sync" <=> pc[n] = "sync"
                             /\ pc'[n] = "commit" <=> pc[n] = "commit"
                             /\ pc[n] \in {"sync", "commit"} => op'[n] = op[n]
    BY Zenon, <1>3
  <1>5. \A n \in Modifiers : /\ Synced(n)' <=> Synced(n)
                             /\ \A ks : Queued(n, ks)' <=> Queued(n, ks)
    BY ZenonT(60), <1>4 DEF Synced, Queued, Kernel
  <1>6. ModifyShape'
    <2>1. Owners' = Owners
      BY Zenon, Z3T(60), <1>4 DEF Owners
    <2>2. \A i \in 1 .. Len(modify_stream) : modify_stream[i].m \in Modifiers
      BY ZenonT(60), KernelFacts
    <2> QED
      BY ZenonT(60), <1>4, <2>1, <2>2 DEF PlacesInv, ModifyShape, Kernel
  <1>c. \A n \in Modifiers : Claims(n)' <=> Claims(n)
    BY ZenonT(60), <1>4, <1>5 DEF Claims
  <1>7. ClaimedHidden'
    BY ZenonT(60), <1>c DEF PlacesInv, ClaimedHidden, SlotsOf
  <1>w. \A k : WayMask(k)' = WayMask(k)
    BY ZenonT(60) DEF WayMask
  <1>f. ClaimedFresh' /\ OneWayPerKey'
    BY ZenonT(60), <1>c, <1>w DEF PlacesInv, ClaimedFresh, OneWayPerKey, Injective
  <1>8. EventCovers => EventCovers'
    BY ZenonT(60), <1>4, <1>5 DEF EventCovers, SlotsOf
  <1>9. SnapshotCovers => SnapshotCovers'
    BY Zenon, Z3T(60), <1>1 DEF PlacesInv, TypeOK, SnapshotCovers
  <1>10. RowsOwn => RowsOwn'
    <2>1. \A n \in Modifiers : OwnRows(n)' <=> OwnRows(n)
      <3>1. cache' = cache /\ list' = list
        BY Zenon
      <3> QED
        BY ONLY ZenonT(60), <3>1 DEF OwnRows
    <2>2. \A n \in Modifiers : Synced(n) \/ pc[n] = "commit" => op'[n] = op[n]
      BY ZenonT(60), <1>4 DEF Synced
    <2> QED
      BY Zenon, <1>4, <1>5, <2>1, <2>2 DEF RowsOwn, Kernel
  <1>11. RowsInv => RowsInv'
    BY ZenonT(60), <1>10 DEF RowsInv, TaggedRowIsOwn, LookupIsAtomic
  <1>12. PlacesInv'
    BY Zenon, Z3T(60), <1>2, <1>6, <1>7, <1>f, ModifyFrame DEF PlacesInv
  <1> QED
    BY Zenon, <1>8, <1>9, <1>11, <1>12 DEF EventsInv

\* With the lock of the cache free, the invalidation of m goes behind kernels of operations
\* that have returned.
LEMMA StartStep ==
    ASSUME PlacesInv, NEW m \in Modifiers, pc[m] = "call", Owners = {},
           QueueModify(<<Kernel("invalidate", m)>>), pc' = [pc EXCEPT ![m] = "sync"],
           UNCHANGED <<d_tags, cache, contexts, stream, held, failed, flow, list, sync_event, ahead, op, req>>
    PROVE  /\ PlacesInv'
           /\ EventsInv => EventsInv'
           /\ RowsInv => RowsInv'
           /\ \A n \in Modifiers : ~Synced(n)'
           /\ \A n \in Modifiers : \A ks : "invalidate" \notin ks => (Queued(n, ks)' <=> Queued(n, ks))
  <1> DEFINE x == Kernel("invalidate", m)
             L == Len(modify_stream)
  <1>1. QueueModify(<<x>>)
    BY Zenon
  <1>2. /\ pc \in [Modifiers -> Pcs] /\ modify_stream \in Seq(ModifyKernels)
        /\ list \in [Modifiers -> SUBSET Entries]
    BY Zenon, Z3T(60) DEF PlacesInv, TypeOK
  <1>3. x \in ModifyKernels /\ x.kind = "invalidate" /\ x.m = m
    BY Zenon DEF Kernel, ModifyKernels
  <1> HIDE DEF x
  <1>4. /\ modify_stream' \in Seq(ModifyKernels)
        /\ L \in Nat /\ Len(modify_stream') = L + 1
        /\ modify_stream'[L + 1] = x
        /\ \A i \in 1 .. L : modify_stream'[i] = modify_stream[i]
    BY ONLY ZenonT(60), <1>1, <1>2, <1>3, QueueFacts
  <1>5. \A n \in Modifiers : /\ pc[n] \notin {"sync", "commit"}
                             /\ n # m => pc'[n] = pc[n]
    BY Zenon, Z3T(60), <1>2 DEF Owners
  <1>6. pc'[m] = "sync"
    BY Zenon, <1>2
  <1>7. TypeOK'
    BY ZenonT(60), <1>2, <1>4 DEF PlacesInv, TypeOK, Pcs
  <1>9. \A i \in 1 .. L : modify_stream[i] \in ModifyKernels /\ modify_stream[i].kind # "invalidate"
    BY ZenonT(60), <1>5, KernelFacts DEF PlacesInv, ModifyShape
  <1>10. ModifyShape'
    <2>1. \A a, b \in Owners' : a = b
      BY Zenon, <1>5, <1>6 DEF Owners
    <2>2. ASSUME NEW i \in 1 .. Len(modify_stream')
          PROVE LET k == modify_stream'[i] IN
                /\ k.kind = "invalidate" => i = Len(modify_stream') /\ pc'[k.m] = "sync"
                /\ k.kind \in {"mem", "acc"} =>
                      i = 1 /\ Len(modify_stream') >= 2 /\ modify_stream'[2] = Kernel("tags", k.m)
                /\ k.kind = "tags" =>
                      i = 1 \/ (i = 2 /\ modify_stream'[1].kind \in {"mem", "acc"} /\ modify_stream'[1].m = k.m)
                /\ k.kind = "clear" => i = 1
      <3>1. CASE i = L + 1
        BY ZenonT(60), <1>3, <1>4, <1>6, <3>1
      <3>2. CASE i \in 1 .. L
        <4>1. modify_stream'[i] = modify_stream[i] /\ (1 \in 1 .. L) /\ modify_stream'[1] = modify_stream[1]
          BY Z3T(60), <1>4, <3>2
        <4>2. L >= 2 => modify_stream'[2] = modify_stream[2]
          BY <1>4
        <4>3. /\ modify_stream[i].kind \in {"mem", "acc"} =>
                      i = 1 /\ L >= 2 /\ modify_stream[2] = Kernel("tags", modify_stream[i].m)
              /\ modify_stream[i].kind = "tags" =>
                      i = 1 \/ (i = 2 /\ modify_stream[1].kind \in {"mem", "acc"} /\ modify_stream[1].m = modify_stream[i].m)
              /\ modify_stream[i].kind = "clear" => i = 1
          BY ZenonT(60), <3>2 DEF PlacesInv, ModifyShape
        <4> QED
          BY Z3T(60), <1>4, <1>9, <3>2, <4>1, <4>2, <4>3
      <3> QED
        BY Z3T(60), <1>4, <3>1, <3>2
    <2>3. \A n \in Modifiers : pc'[n] # "commit" /\ (pc'[n] = "sync" => n = m)
      BY Zenon, <1>5, <1>6
    <2> QED
      BY ZenonT(60), <1>4, <2>1, <2>2, <2>3 DEF ModifyShape, Kernel, x
  <1>11. \A n \in Modifiers : ~Synced(n)'
    <2>1. L + 1 \in 1 .. Len(modify_stream')
      BY Z3T(60), <1>4
    <2>2. ~Synced(m)'
      BY ZenonT(60), <1>4, <2>1 DEF Synced, Kernel, x
    <2> QED
      BY ZenonT(60), <1>5, <2>2 DEF Synced
  <1>12. ASSUME NEW n \in Modifiers, NEW ks, "invalidate" \notin ks
         PROVE  Queued(n, ks)' <=> Queued(n, ks)
    <2>1. ASSUME Queued(n, ks)' PROVE Queued(n, ks)
      <3>1. PICK i \in 1 .. Len(modify_stream') : modify_stream'[i].kind \in ks /\ modify_stream'[i].m = n
        BY Zenon, <2>1 DEF Queued
      <3>2. i \in 1 .. L
        BY Z3T(60), <1>3, <1>4, <1>12, <3>1
      <3> QED
        BY ZenonT(60), <1>4, <3>1, <3>2 DEF Queued
    <2>2. ASSUME Queued(n, ks) PROVE Queued(n, ks)'
      <3>1. PICK i \in 1 .. L : modify_stream[i].kind \in ks /\ modify_stream[i].m = n
        BY Zenon, <2>2 DEF Queued
      <3>2. i \in 1 .. Len(modify_stream')
        BY Z3T(60), <1>4
      <3> QED
        BY ZenonT(60), <1>4, <3>1, <3>2 DEF Queued
    <2> QED
      BY Zenon, <2>1, <2>2
  <1>13. \A n \in Modifiers : pc'[n] # "commit"
    BY Zenon, Z3T(60), <1>5, <1>6
  <1>c. \A n \in Modifiers : Claims(n)' => Claims(n)
    BY Zenon, <1>11, <1>12, <1>13 DEF Claims
  <1>14. ClaimedHidden'
    BY ZenonT(60), <1>c DEF PlacesInv, ClaimedHidden, SlotsOf
  <1>w. \A k : WayMask(k)' = WayMask(k)
    BY ZenonT(60) DEF WayMask
  <1>f. ClaimedFresh' /\ OneWayPerKey'
    BY ZenonT(60), <1>c, <1>w DEF PlacesInv, ClaimedFresh, OneWayPerKey, Injective
  <1>15. EventCovers => EventCovers'
    <2>1. \A n \in Modifiers : Queued(n, {"mem", "acc"})' => Queued(n, {"mem", "acc"})
      BY Zenon, <1>12
    <2> QED
      BY ZenonT(60), <1>13, <2>1 DEF EventCovers, SlotsOf
  <1>16. SnapshotCovers => SnapshotCovers'
    <2>1. \A n \in Modifiers : pc'[n] \in {"call", "sync"} => pc[n] \in {"call", "sync"}
      BY Zenon, Z3T(60), <1>5
    <2> QED
      BY ZenonT(60), <2>1 DEF SnapshotCovers
  <1>17. RowsOwn => RowsOwn'
    <2>1. \A n \in Modifiers : OwnRows(n)' <=> OwnRows(n)
      BY ZenonT(60) DEF OwnRows
    <2>2. \A n \in Modifiers : Queued(n, {"acc"})' => Queued(n, {"acc"})
      BY Zenon, <1>12
    <2>3. ASSUME NEW n \in Modifiers, modify_stream'[1] = Kernel("tags", n)
          PROVE  modify_stream # <<>> /\ modify_stream[1] = Kernel("tags", n)
      <3>1. modify_stream'[1] # x
        BY ONLY Z3T(60), <2>3, <1>3 DEF Kernel
      <3>2. L # 0
        BY ONLY Z3T(60), <1>4, <3>1
      <3> QED
        BY ONLY Z3T(60), <1>2, <1>4, <2>3, <3>2, EmptyFacts
    <2> QED
      BY ONLY Zenon, Z3T(60), <1>11, <1>13, <2>1, <2>2, <2>3 DEF RowsOwn, Kernel
  <1>18. RowsInv => RowsInv'
    BY ZenonT(60), <1>17 DEF RowsInv, TaggedRowIsOwn, LookupIsAtomic
  <1>19. PlacesInv'
    BY Zenon, Z3T(60), <1>7, <1>10, <1>14, <1>f, ModifyFrame DEF PlacesInv
  <1> QED
    BY Zenon, <1>11, <1>12, <1>15, <1>16, <1>18, <1>19 DEF EventsInv

\* The event is recorded when no custom flow is half queued, so a lookup that holds a row
\* still has a kernel queued, and the event waits for it.
LEMMA RecordStep ==
    ASSUME PlacesInv, NEW m \in Modifiers, Synced(m), NEW a \in [Contexts -> Nat],
           ahead' = [ahead EXCEPT ![m] = a], pc' = [pc EXCEPT ![m] = "commit"],
           UNCHANGED <<d_tags, cache, contexts, stream, held, failed, flow, modify_stream, list, sync_event, op, req>>
    PROVE  /\ PlacesInv'
           /\ EventsInv /\ event_record(m) /\ ~FlowLockOwned => EventsInv'
           /\ RowsInv => RowsInv'
  <1>1. pc[m] = "sync"
    BY Zenon DEF Synced
  <1>2. modify_stream = <<>> /\ Len(modify_stream) = 0
    BY Z3T(60), SyncedEmpty
  <1>3. /\ pc \in [Modifiers -> Pcs] /\ ahead \in [Modifiers -> [Contexts -> Nat]]
        /\ stream \in [Contexts -> Seq(LookupKernels)]
    BY Zenon DEF PlacesInv, TypeOK
  <1>5. TypeOK'
    BY ZenonT(60), <1>3 DEF PlacesInv, TypeOK, Pcs
  <1>6. \A n \in Modifiers \ {m} : pc'[n] = pc[n] /\ pc[n] \notin {"sync", "commit"}
    BY ZenonT(60), <1>1, <1>3 DEF PlacesInv, ModifyShape, Owners
  <1>7. pc'[m] = "commit"
    BY ZenonT(60), <1>3
  <1>8. \A n \in Modifiers : (\A ks : ~Queued(n, ks)') /\ ~Synced(n)'
    <2>1. Len(modify_stream') = 0
      BY Zenon, <1>2
    <2>2. 1 .. Len(modify_stream') = {}
      BY ONLY Z3T(60), <2>1
    <2>3. \A n \in Modifiers : pc'[n] # "sync"
      BY ONLY ZenonT(60), <1>6, <1>7
    <2> QED
      BY ONLY ZenonT(60), <2>2, <2>3 DEF Queued, Synced
  <1>9. ModifyShape'
    <2>1. \A u, v \in Owners' : u = v
      BY ZenonT(60), <1>6 DEF Owners
    <2>2. modify_stream' = <<>> /\ Len(modify_stream') = 0
      BY Zenon, <1>2
    <2>3. 1 .. Len(modify_stream') = {}
      BY ONLY Z3T(60), <2>2
    <2> QED
      BY ONLY ZenonT(60), <2>1, <2>2, <2>3 DEF ModifyShape
  <1>c. \A n \in Modifiers : Claims(n)' => Claims(n)
    BY Zenon, Z3T(60), <1>6, <1>8 DEF Claims
  <1>10. ClaimedHidden'
    BY ZenonT(60), <1>c DEF PlacesInv, ClaimedHidden, SlotsOf
  <1>w. \A k : WayMask(k)' = WayMask(k)
    BY ZenonT(60) DEF WayMask
  <1>f. ClaimedFresh' /\ OneWayPerKey'
    BY ZenonT(60), <1>c, <1>w DEF PlacesInv, ClaimedFresh, OneWayPerKey, Injective
  <1>11. ASSUME EventsInv, event_record(m), ~FlowLockOwned PROVE EventCovers'
    <2> SUFFICES ASSUME NEW n \in Modifiers, NEW c \in Contexts,
                        pc'[n] = "commit", held[c].is = "found", held[c].slot \in SlotsOf(list[n])
                 PROVE  ahead'[n][c] > 0
      BY ZenonT(60), <1>8 DEF EventCovers, SlotsOf
    <2>1. n = m
      BY ZenonT(60), <1>6
    <2>2. flow[c] = Sentinel
      BY ZenonT(60), <1>11 DEF FlowLockOwned
    <2>3. stream[c] # <<>> /\ c \in contexts
      BY Zenon, Z3T(60), <2>2 DEF PlacesInv, LookupShape
    <2>4. c \in sync_event[m]
      BY ZenonT(60), <1>1, <1>11, <2>3 DEF EventsInv, SnapshotCovers
    <2>5. ahead'[m][c] = Len(stream[c])
      BY ZenonT(60), <1>3, <1>11, <2>4 DEF event_record
    <2>6. Len(stream[c]) > 0
      BY ONLY c \in Contexts, <1>3, <2>3, EmptyFacts
    <2> QED
      BY Zenon, <2>1, <2>5, <2>6
  <1>12. SnapshotCovers => SnapshotCovers'
    BY ZenonT(60), <1>6, <1>7 DEF SnapshotCovers
  <1>13. RowsOwn => RowsOwn'
    <2>1. OwnRows(m)' <=> OwnRows(m)
      BY ZenonT(60) DEF OwnRows
    <2>2. RowsOwn /\ op[m] = "update_accumulate" => OwnRows(m)
      BY Zenon DEF RowsOwn
    <2> QED
      BY ZenonT(60), <1>2, <1>6, <1>8, <2>1, <2>2 DEF RowsOwn
  <1>14. RowsInv => RowsInv'
    BY ZenonT(60), <1>13 DEF RowsInv, TaggedRowIsOwn, LookupIsAtomic
  <1>15. PlacesInv'
    BY ZenonT(60), <1>5, <1>9, <1>10, <1>f, ModifyFrame DEF PlacesInv
  <1> QED
    BY Zenon, <1>11, <1>12, <1>14, <1>15 DEF EventsInv

\* An operation that returns without queueing rows and tags gives up what it claimed.
LEMMA ReturnStep ==
    ASSUME PlacesInv, NEW m \in Modifiers,
           \/ pc[m] = "call" /\ list' = list
           \/ (Synced(m) \/ pc[m] = "commit") /\ list' = [list EXCEPT ![m] = {}],
           pc' = [pc EXCEPT ![m] = "idle"], op' = [op EXCEPT ![m] = "none"], req' = [req EXCEPT ![m] = <<>>],
           sync_event' = [sync_event EXCEPT ![m] = {}],
           UNCHANGED <<d_tags, cache, contexts, stream, held, failed, flow, modify_stream, ahead>>
    PROVE  /\ PlacesInv'
           /\ EventsInv => EventsInv'
           /\ RowsInv => RowsInv'
  <1>1. /\ pc \in [Modifiers -> Pcs] /\ list \in [Modifiers -> SUBSET Entries]
        /\ op \in [Modifiers -> Ops \cup {"none"}] /\ req \in [Modifiers -> Requests \cup {<<>>}]
        /\ sync_event \in [Modifiers -> SUBSET Contexts]
    BY ZenonT(60) DEF PlacesInv, TypeOK
  <1>2. /\ pc'[m] = "idle" /\ op'[m] = "none"
        /\ \A n \in Modifiers \ {m} : /\ pc'[n] = pc[n] /\ op'[n] = op[n] /\ list'[n] = list[n]
                                      /\ sync_event'[n] = sync_event[n]
    BY ZenonT(60), <1>1
  <1>3. pc[m] # "call" => modify_stream = <<>> /\ Len(modify_stream) = 0
    BY Z3T(60), SyncedEmpty DEF PlacesInv, ModifyShape
  <1>4. TypeOK'
    BY ZenonT(60), <1>1 DEF PlacesInv, TypeOK, Pcs
  <1>5. \A n, ks : Queued(n, ks)' <=> Queued(n, ks)
    BY Zenon DEF Queued
  <1>6. \A n \in Modifiers : (Synced(n)' => n # m /\ Synced(n)) /\ (pc'[n] = "commit" => n # m /\ pc[n] = "commit")
    BY ZenonT(60), <1>2 DEF Synced, Kernel
  <1>7. ASSUME NEW n \in Modifiers, NEW ks, Queued(n, ks) PROVE list'[n] = list[n]
    <2>1. pc[m] = "call"
      BY <1>3, <1>7 DEF Queued
    <2> QED
      BY Zenon, <2>1 DEF Synced
  <1>8. ModifyShape'
    <2>1. \A u, v \in Owners' : u = v
      <3>1. \A n \in Modifiers : pc'[n] \in {"sync", "commit"} => pc[n] \in {"sync", "commit"}
        BY Zenon, Z3T(60), <1>2
      <3>2. Owners' \subseteq Owners
        BY ZenonT(60), <3>1 DEF Owners
      <3> QED
        BY ZenonT(60), <3>2 DEF PlacesInv, ModifyShape
    <2>2. CASE pc[m] = "call"
      <3>1. \A i \in 1 .. Len(modify_stream) : modify_stream[i].m \in Modifiers
        BY ZenonT(60), KernelFacts
      <3>2. \A n \in Modifiers : (pc'[n] = "sync" <=> pc[n] = "sync") /\ (pc'[n] = "commit" <=> pc[n] = "commit")
        BY Zenon, <1>2, <2>2
      <3> QED
        BY ZenonT(60), <2>1, <3>1, <3>2 DEF PlacesInv, ModifyShape, Kernel
    <2>3. CASE pc[m] # "call"
      <3>1. 1 .. Len(modify_stream') = {} /\ modify_stream' = <<>>
        BY Z3T(60), <1>3, <2>3
      <3> QED
        BY ZenonT(60), <2>1, <3>1 DEF ModifyShape
    <2> QED
      BY Zenon, <2>2, <2>3
  <1>9. \A n \in Modifiers : Claims(n)' => Claims(n) /\ list'[n] = list[n]
    BY ZenonT(60), <1>2, <1>5, <1>6, <1>7 DEF Claims
  <1>10. ClaimedHidden'
    BY ZenonT(60), <1>9 DEF PlacesInv, ClaimedHidden, SlotsOf
  <1>w. \A k : WayMask(k)' = WayMask(k)
    BY ZenonT(60) DEF WayMask
  <1>f. ClaimedFresh' /\ OneWayPerKey'
    BY ZenonT(60), <1>9, <1>w DEF PlacesInv, ClaimedFresh, OneWayPerKey, Injective
  <1>11. EventCovers => EventCovers'
    BY ZenonT(60), <1>2, <1>5, <1>6, <1>7 DEF EventCovers, SlotsOf
  <1>12. SnapshotCovers => SnapshotCovers'
    BY ZenonT(60), <1>2 DEF SnapshotCovers
  <1>13. RowsOwn => RowsOwn'
    <2>1. \A n \in Modifiers : list'[n] = list[n] /\ OwnRows(n) => OwnRows(n)'
      BY ZenonT(60) DEF OwnRows
    <2>2. ASSUME NEW n \in Modifiers, modify_stream # <<>> PROVE list'[n] = list[n]
      BY ZenonT(60), <1>3, <2>2 DEF Synced
    <2> QED
      BY ZenonT(60), <1>2, <1>5, <1>6, <1>7, <2>1, <2>2 DEF RowsOwn, Kernel
  <1>14. RowsInv => RowsInv'
    BY ZenonT(60), <1>13 DEF RowsInv, TaggedRowIsOwn, LookupIsAtomic
  <1>15. PlacesInv'
    BY ZenonT(60), <1>4, <1>8, <1>10, <1>f, ModifyFrame DEF PlacesInv
  <1> QED
    BY Zenon, <1>11, <1>12, <1>14, <1>15 DEF EventsInv

\* The row and tag kernels are queued on an empty stream, behind the recorded event.
LEMMA CommitStep ==
    ASSUME PlacesInv, NEW m \in Modifiers, pc[m] = "commit", NEW kind \in {"mem", "acc"},
           kind = "acc" => op[m] = "update_accumulate",
           QueueModify(<<Kernel(kind, m), Kernel("tags", m)>>),
           pc' = [pc EXCEPT ![m] = "idle"], op' = [op EXCEPT ![m] = "none"], req' = [req EXCEPT ![m] = <<>>],
           sync_event' = [sync_event EXCEPT ![m] = {}],
           UNCHANGED <<d_tags, cache, contexts, stream, held, failed, flow, list, ahead>>
    PROVE  /\ PlacesInv'
           /\ EventsInv => EventsInv'
           /\ RowsInv => RowsInv'
           /\ modify_stream = <<>> /\ modify_stream' = <<Kernel(kind, m), Kernel("tags", m)>>
  <1>2. /\ pc \in [Modifiers -> Pcs] /\ list \in [Modifiers -> SUBSET Entries]
        /\ op \in [Modifiers -> Ops \cup {"none"}] /\ req \in [Modifiers -> Requests \cup {<<>>}]
        /\ sync_event \in [Modifiers -> SUBSET Contexts]
        /\ modify_stream = <<>>
    BY ZenonT(60) DEF PlacesInv, TypeOK, ModifyShape
  <1>3. \A n \in Modifiers \ {m} : pc'[n] = pc[n] /\ pc[n] \notin {"sync", "commit"}
    BY ZenonT(60), <1>2 DEF PlacesInv, ModifyShape, Owners
  <1>4. pc'[m] = "idle"
    BY Zenon, <1>2
  <1>5. /\ Kernel(kind, m) \in ModifyKernels /\ Kernel("tags", m) \in ModifyKernels
        /\ Kernel(kind, m).kind = kind /\ Kernel(kind, m).m = m
        /\ Kernel("tags", m).kind = "tags" /\ Kernel("tags", m).m = m
    BY Zenon DEF Kernel, ModifyKernels
  <1>6. modify_stream' = <<Kernel(kind, m), Kernel("tags", m)>>
    BY ONLY <1>2, <1>5, QueueModify(<<Kernel(kind, m), Kernel("tags", m)>>) DEF QueueModify
  <1>7. /\ modify_stream' \in Seq(ModifyKernels)
        /\ Len(modify_stream') = 2
        /\ modify_stream'[1] = Kernel(kind, m) /\ modify_stream'[2] = Kernel("tags", m)
    BY <1>5, <1>6
  <1>8. TypeOK'
    BY ZenonT(60), <1>2, <1>7 DEF PlacesInv, TypeOK, Pcs
  <1>9. \A n \in Modifiers : pc'[n] \notin {"sync", "commit"} /\ ~Synced(n)'
    BY Zenon, <1>3, <1>4 DEF Synced
  <1>10. ModifyShape'
    <2>1. Owners' = {}
      BY Zenon, <1>9 DEF Owners
    <2>2. \A i \in 1 .. Len(modify_stream') : i = 1 \/ i = 2
      BY <1>7
    <2> QED
      BY ONLY Z3T(60), <1>5, <1>7, <1>9, <2>1, <2>2 DEF ModifyShape, Kernel
  <1>11. ASSUME NEW n \in Modifiers, NEW ks, Queued(n, ks)' PROVE n = m /\ (kind \in ks \/ "tags" \in ks)
    <2>1. PICK i \in 1 .. Len(modify_stream') : modify_stream'[i].kind \in ks /\ modify_stream'[i].m = n
      BY ZenonT(60), <1>11 DEF Queued
    <2>2. i = 1 \/ i = 2
      BY <1>7
    <2> QED
      BY ZenonT(60), <1>5, <1>7, <2>1, <2>2
  <1>c. \A n \in Modifiers : Claims(n)' => Claims(n)
    BY Zenon, Z3T(60), <1>9, <1>11 DEF Claims
  <1>12. ClaimedHidden'
    BY ZenonT(60), <1>c DEF PlacesInv, ClaimedHidden, SlotsOf
  <1>w. \A k : WayMask(k)' = WayMask(k)
    BY ZenonT(60) DEF WayMask
  <1>f. ClaimedFresh' /\ OneWayPerKey'
    BY ZenonT(60), <1>c, <1>w DEF PlacesInv, ClaimedFresh, OneWayPerKey, Injective
  <1>13. EventCovers => EventCovers'
    <2>1. \A n \in Modifiers : pc'[n] = "commit" \/ Queued(n, {"mem", "acc"})' => n = m
      BY Zenon, Z3T(60), <1>9, <1>11
    <2> QED
      BY ZenonT(60), <2>1 DEF EventCovers, SlotsOf
  <1>14. SnapshotCovers => SnapshotCovers'
    BY Zenon, <1>2, <1>3, <1>4 DEF SnapshotCovers
  <1>15. RowsOwn => RowsOwn'
    <2>1. OwnRows(m)' <=> OwnRows(m)
      BY ZenonT(60) DEF OwnRows, SlotsOf
    <2>2. RowsOwn /\ op[m] = "update_accumulate" => OwnRows(m)
      BY ZenonT(60) DEF RowsOwn
    <2>3. ASSUME NEW n \in Modifiers, Queued(n, {"acc"})' PROVE n = m /\ op[m] = "update_accumulate"
      BY Z3T(60), <1>11, <2>3
    <2>4. ASSUME NEW n \in Modifiers PROVE modify_stream'[1] # Kernel("tags", n)
      BY Z3T(60), <1>7 DEF Kernel
    <2> QED
      BY ZenonT(60), <1>9, <2>1, <2>2, <2>3, <2>4 DEF RowsOwn, Kernel
  <1>16. RowsInv => RowsInv'
    BY ZenonT(60), <1>15 DEF RowsInv, TaggedRowIsOwn, LookupIsAtomic
  <1>17. PlacesInv'
    BY Zenon, Z3T(60), <1>8, <1>10, <1>12, <1>f, ModifyFrame DEF PlacesInv
  <1> QED
    BY Zenon, <1>2, <1>6, <1>13, <1>14, <1>16, <1>17 DEF EventsInv

\* clear_cache is called with nothing else in flight.
LEMMA ClearQueueStep ==
    ASSUME PlacesInv, NEW m \in Modifiers, \A n \in Modifiers : pc[n] = "idle", modify_stream = <<>>,
           QueueModify(<<Kernel("clear", m)>>),
           UNCHANGED <<d_tags, cache, contexts, stream, held, failed, flow, list, sync_event, ahead, pc, op, req>>
    PROVE  /\ PlacesInv'
           /\ EventsInv => EventsInv'
           /\ RowsInv => RowsInv'
           /\ \A n, ks : "clear" \notin ks => ~Queued(n, ks)'
           /\ modify_stream' = <<Kernel("clear", m)>>
  <1>2. Kernel("clear", m) \in ModifyKernels /\ Kernel("clear", m).kind = "clear"
    BY Zenon, Z3T(60) DEF Kernel, ModifyKernels
  <1>3. modify_stream' = <<Kernel("clear", m)>>
    BY <1>2 DEF QueueModify
  <1>4. /\ modify_stream' \in Seq(ModifyKernels)
        /\ Len(modify_stream') = 1 /\ modify_stream'[1] = Kernel("clear", m)
    BY <1>2, <1>3
  <1>5. TypeOK'
    BY ZenonT(60), <1>4 DEF PlacesInv, TypeOK
  <1>6. ModifyShape'
    <2>1. Owners' = {}
      BY Zenon, Z3T(60) DEF Owners
    <2>2. \A i \in 1 .. Len(modify_stream') : i = 1 /\ modify_stream'[i].kind = "clear"
      BY <1>2, <1>4
    <2> QED
      BY ZenonT(60), <2>1, <2>2 DEF ModifyShape
  <1>q. \A n, ks : "clear" \notin ks => ~Queued(n, ks)'
    <2>1. \A i \in 1 .. Len(modify_stream') : modify_stream'[i].kind = "clear"
      BY Z3T(60), <1>2, <1>4
    <2> QED
      BY ZenonT(60), <2>1 DEF Queued
  <1>7. \A n \in Modifiers : /\ ~Synced(n)' /\ pc'[n] = "idle"
                             /\ ~Queued(n, {"mem", "acc", "tags"})'
                             /\ ~Queued(n, {"mem", "acc"})'
                             /\ ~Queued(n, {"acc"})'
                             /\ modify_stream'[1] # Kernel("tags", n)
    <2>1. \A n \in Modifiers : Kernel("tags", n).kind = "tags"
      BY Zenon DEF Kernel
    <2>2. \A n \in Modifiers : ~Synced(n)' /\ pc'[n] = "idle"
      BY ZenonT(60) DEF Synced
    <2>3. \A n \in Modifiers : modify_stream'[1] # Kernel("tags", n)
      BY Zenon, <1>2, <1>4, <2>1
    <2> QED
      BY Zenon, Z3T(60), <1>q, <2>2, <2>3
  <1>8. ClaimedHidden' /\ ClaimedFresh' /\ EventCovers' /\ RowsOwn'
    BY ZenonT(60), <1>7 DEF ClaimedHidden, ClaimedFresh, Claims, EventCovers, RowsOwn, Kernel
  <1>w. \A k : WayMask(k)' = WayMask(k)
    BY ZenonT(60) DEF WayMask
  <1>9. OneWayPerKey' /\ (SnapshotCovers => SnapshotCovers') /\ (RowsInv => RowsInv')
    BY ZenonT(60), <1>8, <1>w DEF PlacesInv, OneWayPerKey, SnapshotCovers, RowsInv, TaggedRowIsOwn, LookupIsAtomic
  <1>10. PlacesInv'
    BY Zenon, Z3T(60), <1>5, <1>6, <1>8, <1>9, ModifyFrame DEF PlacesInv
  <1> QED
    BY Zenon, <1>3, <1>8, <1>9, <1>10, <1>q DEF EventsInv

\* A step that changes nothing the cache knows of.
LEMMA StutterStep ==
    ASSUME PlacesInv,
           UNCHANGED <<d_tags, cache, contexts, stream, held, failed, flow, modify_stream, list, sync_event, ahead,
                       pc, op, req>>
    PROVE  /\ PlacesInv'
           /\ EventsInv => EventsInv'
           /\ RowsInv => RowsInv'
  <1>1. TypeOK'
    BY ZenonT(60) DEF PlacesInv, TypeOK
  <1> QED
    BY Zenon, <1>1, PlacesFrame, ModifyFrame, QuietLookup DEF PlacesInv

=============================================================================

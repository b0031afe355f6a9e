------------------------------ MODULE Loader ------------------------------
(***************************************************************************)
(* Exported models in a C++ host.  A LayerDirectory builds a model's       *)
(* layers from its metadata, shares their storage with other models        *)
(* through a ResourceDirectory, points the package's marker constants at   *)
(* tensors of its own and registers each layer under its marker's address. *)
(* The torch operators find their layer through the marker they are given  *)
(* and look up with the execution context of their stream.                 *)
(***************************************************************************)
EXTENDS Integers, Sequences, FiniteSets, FiniteSetsExt, Functions

CONSTANTS Models,   \* exported models, each loaded by a directory of its own
          Threads,  \* threads that run the models
          Streams,  \* CUDA streams
          Ids,      \* addresses of markers, bindings and storage, numbers
          None,     \* no value
          Setups    \* [layers: model -> its entries, version, remap, threads, fails, reloads, swaps]

VARIABLES setup,
          dirs,      \* model -> its directory: [state, layers], layers_ in order
          consts,    \* model -> its package's constants: [active, slot, rebuilt]
          resources, \* the shared ResourceDirectory: key -> storage
          storage,   \* live storage: address -> the weights it was given, in order
          bindings,  \* live bindings: id -> [store, streams]
          registry,  \* NVELayerRegistry: marker address -> binding
          op,        \* thread -> the operator it is in and the layer it means, or None
          pending    \* work queued on a stream: <<binding, stream>>

vars == <<setup, dirs, consts, resources, storage, bindings, registry, op, pending>>

Put(f, k, v) == [x \in DOMAIN f \cup {k} |-> IF x = k THEN v ELSE f[x]]

Without(f, keys) == [x \in DOMAIN f \ keys |-> f[x]]

(***************************************************************************)
(* The ResourceDirectory.                                                  *)
(***************************************************************************)
\* remap redirects a key of the file to another; it is applied once to get the
\* effective key and again by find and insert.
remap(key) == IF key \in DOMAIN setup.remap THEN setup.remap[key] ELSE key

Effective(entry) == remap(entry.ref)

find(entry) == LET key == <<entry.kind, remap(Effective(entry))>>
               IN  IF key \in DOMAIN resources THEN resources[key] ELSE None

InsertKey_Raw(entry) == <<entry.kind, entry.ref>>

InsertKey(entry) == <<entry.kind, remap(Effective(entry))>>

(***************************************************************************)
(* Building a layer.                                                       *)
(***************************************************************************)
Markers(d) == {dirs[d].layers[i].marker : i \in DOMAIN dirs[d].layers}

AllMarkers == UNION {Markers(d) : d \in Models}

\* at::tensor: an address no live marker has; it may be one freed earlier.
NewMarker == Min(Ids \ AllMarkers)

NewStore == Min(Ids \ DOMAIN storage)

NewBinding == Min(Ids \ DOMAIN bindings)

\* The weight file is named after the reference of the file, or the module.
WeightFile(d, entry) == IF entry.ref = None THEN <<d, Len(dirs[d].layers)>> ELSE <<d, entry.ref>>

\* get_or_build_memblock, get_or_build_ps: storage found is not loaded again.
NeedsWeights(entry) == entry.ref = None \/ find(entry) = None

Store(entry) == IF entry.ref # None /\ find(entry) # None THEN find(entry) ELSE NewStore

\* What the directory knows after a layer's storage is there: a memory block is
\* entered before its weights are read, a parameter server after.
Entered(entry, complete) ==
  IF entry.ref = None \/ (entry.kind = "ps" /\ ~complete) THEN resources
  ELSE Put(resources, InsertKey(entry), Store(entry))

\* write_marker: both buffers of the package, so that a swap keeps the marker.
WrittenSlots_ActiveOnly(d) == {consts[d].active}

WrittenSlots(d) == {0, 1}

NewConstants == [active |-> 0, slot |-> [b \in {0, 1} |-> None], rebuilt |-> FALSE]

WriteMarkers(d, c, markers) ==
  [c EXCEPT !.slot = [b \in {0, 1} |-> IF b \in WrittenSlots(d) THEN markers ELSE c.slot[b]]]

MarkerSeq(layers) == [i \in DOMAIN layers |-> layers[i].marker]

\* A directory is built while no other is: the resources have no lock.
CanLoad(d) ==
  /\ dirs[d].state \in {"new", "loading"}
  /\ Len(dirs[d].layers) < Len(setup.layers[d])
  /\ \A e \in Models \ {d} : dirs[e].state # "loading"

\* Storage that is not there yet is described by the file under the effective key.
Described(d, entry) ==
  entry.ref # None /\ find(entry) = None
    => \E i \in DOMAIN setup.layers[d] : setup.layers[d][i].kind = entry.kind
                                        /\ setup.layers[d][i].ref = Effective(entry)

\* register_layer, the end of an entry: its marker, its name in the registry.
Registered(d, store) ==
  LET layers == Append(dirs[d].layers, [marker |-> NewMarker, binding |-> NewBinding])
  IN  /\ bindings' = Put(bindings, NewBinding, [store |-> store, streams |-> {}])
      /\ registry' = Put(registry, NewMarker, NewBinding)
      /\ dirs' = [dirs EXCEPT ![d] = [state |-> IF Len(layers) = Len(setup.layers[d]) THEN "loaded" ELSE "loading",
                                      layers |-> layers]]
      /\ consts' = [consts EXCEPT ![d] = WriteMarkers(d, @, MarkerSeq(layers))]

NextEntry(d) == setup.layers[d][Len(dirs[d].layers) + 1]

\* An entry of a version 1 file has storage of its own and reads its weights.
load_layers_v1(d) ==
  /\ CanLoad(d) /\ setup.version[d] = 1
  /\ storage' = Put(storage, NewStore, <<WeightFile(d, NextEntry(d))>>)
  /\ Registered(d, NewStore)
  /\ UNCHANGED <<setup, resources, op, pending>>

\* An entry of a version 2 file takes its storage from the resources.
load_layers_v2(d) ==
  LET entry == NextEntry(d)
      had == IF Store(entry) \in DOMAIN storage THEN storage[Store(entry)] ELSE <<>>
  IN  /\ CanLoad(d) /\ setup.version[d] = 2
      /\ Described(d, entry)
      /\ resources' = Entered(entry, TRUE)
      /\ storage' = Put(storage, Store(entry),
                        IF NeedsWeights(entry) THEN Append(had, WeightFile(d, entry)) ELSE had)
      /\ Registered(d, Store(entry))
      /\ UNCHANGED <<setup, op, pending>>

(***************************************************************************)
(* Lifetimes.  What a registry, the directories and the operators in       *)
(* progress refer to stays; a binding that goes waits for its contexts.    *)
(***************************************************************************)
LayerBindings(ds) == UNION {{ds[d].layers[i].binding : i \in DOMAIN ds[d].layers} : d \in Models}

\* get_binding returns a shared pointer, which the operator keeps.
HeldByOps(o) == {o[t].binding : t \in {u \in Threads : o[u] # None}} \ {None}

Kept(ds, reg, o) == LayerBindings(ds) \cup Range(reg) \cup HeldByOps(o)

\* release_contexts waits for the work of every context of the binding.
MustWait(b) == \E s \in Streams : <<b, s>> \in pending

\* The bindings and the storage left once only `kept` are referred to.
Collect(kept, res) ==
  LET live == DOMAIN bindings \cap kept
  IN  /\ \A b \in DOMAIN bindings \ kept : ~MustWait(b)
      /\ bindings' = Without(bindings, DOMAIN bindings \ kept)
      /\ storage' = [a \in DOMAIN storage \cap ({bindings[b].store : b \in live} \cup Range(res)) |-> storage[a]]

Unregistered(d) == Without(registry, Markers(d))

\* ~LayerDirectory unregisters its markers and drops its layers.
Destroy(d) ==
  LET ds == [dirs EXCEPT ![d] = [state |-> IF setup.reloads THEN "new" ELSE "gone", layers |-> <<>>]]
      reg == Unregistered(d)
  IN  /\ dirs[d].state = "loaded"
      /\ Collect(Kept(ds, reg, op), resources)
      /\ dirs' = ds
      /\ registry' = reg
      /\ consts' = [consts EXCEPT ![d] = NewConstants]
      /\ UNCHANGED <<setup, resources, op, pending>>

\* A layer's storage is not described or its weights cannot be read: the
\* constructor throws and the directory's destructor does not run.
LoadFails(d) ==
  LET entry == NextEntry(d)
  IN  /\ setup.fails /\ CanLoad(d) /\ NeedsWeights(entry)
      /\ resources' = IF Described(d, entry) THEN Entered(entry, FALSE) ELSE resources
      /\ storage' = IF resources' # resources THEN Put(storage, Store(entry), <<>>) ELSE storage
      /\ dirs' = [dirs EXCEPT ![d] = [state |-> "gone", layers |-> <<>>]]
      /\ UNCHANGED <<setup, consts, bindings, registry, op, pending>>

(***************************************************************************)
(* The package's two constant buffers.                                     *)
(***************************************************************************)
\* An update of the inactive buffer copies every constant, the markers included.
RebuildInactive(d) ==
  /\ dirs[d].state = "loaded" /\ setup.swaps
  /\ consts' = [consts EXCEPT ![d] = [@ EXCEPT !.slot[1 - consts[d].active] = None, !.rebuilt = TRUE]]
  /\ UNCHANGED <<setup, dirs, resources, storage, bindings, registry, op, pending>>

\* swap_constant_buffer; the host calls rebind_markers after one that followed a
\* rebuild, before it runs the model.
SwapConstants(d) ==
  LET swapped == [consts[d] EXCEPT !.active = 1 - consts[d].active]
  IN  /\ dirs[d].state = "loaded" /\ setup.swaps
      /\ consts' = [consts EXCEPT ![d] = IF consts[d].rebuilt
                      THEN [WriteMarkers(d, swapped, MarkerSeq(dirs[d].layers)) EXCEPT !.rebuilt = FALSE]
                      ELSE swapped]
      /\ UNCHANGED <<setup, dirs, resources, storage, bindings, registry, op, pending>>

(***************************************************************************)
(* embedding_lookup, embedding_lookup_with_pooling.                        *)
(***************************************************************************)
Marker(d, i) == IF consts[d].slot[consts[d].active] = None THEN None ELSE consts[d].slot[consts[d].active][i]

\* get_binding: the layer registered for the marker of the running graph.
Dispatch(t, d, i) ==
  LET m == Marker(d, i)
      found == m # None /\ m \in DOMAIN registry
  IN  /\ t \in setup.threads /\ op[t] = None /\ dirs[d].state = "loaded"
      /\ op' = [op EXCEPT ![t] = [binding |-> IF found THEN registry[m] ELSE None,
                                 own |-> dirs[d].layers[i].binding, done |-> ~found]]
      /\ UNCHANGED <<setup, dirs, consts, resources, storage, bindings, registry, pending>>

\* binding_lookup: get_exec_context makes the stream's context on first use; the
\* lookup's kernels are queued on it.
RunLookup(t, s) ==
  /\ op[t] # None /\ ~op[t].done
  /\ LET b == op[t].binding
     IN  /\ bindings' = IF b \in DOMAIN bindings THEN [bindings EXCEPT ![b].streams = @ \cup {s}] ELSE bindings
         /\ pending' = pending \cup {<<b, s>>}
  /\ op' = [op EXCEPT ![t].done = TRUE]
  /\ UNCHANGED <<setup, dirs, consts, resources, storage, registry>>

\* The operator returns and drops its reference, the last one perhaps.
OpEnds(t) ==
  LET o == [op EXCEPT ![t] = None]
  IN  /\ op[t] # None /\ op[t].done
      /\ Collect(Kept(dirs, registry, o), resources)
      /\ op' = o
      /\ UNCHANGED <<setup, dirs, consts, resources, registry, pending>>

StreamDone == \E p \in pending :
  /\ pending' = pending \ {p}
  /\ UNCHANGED <<setup, dirs, consts, resources, storage, bindings, registry, op>>

Init ==
  /\ setup \in Setups
  /\ dirs = [d \in Models |-> [state |-> "new", layers |-> <<>>]]
  /\ consts = [d \in Models |-> NewConstants]
  /\ resources = <<>>
  /\ storage = <<>>
  /\ bindings = <<>>
  /\ registry = <<>>
  /\ op = [t \in Threads |-> None]
  /\ pending = {}

Next ==
  \/ \E d \in Models :
       \/ load_layers_v1(d)
       \/ load_layers_v2(d)
       \/ LoadFails(d)
       \/ Destroy(d)
       \/ RebuildInactive(d)
       \/ SwapConstants(d)
       \/ \E t \in Threads, i \in DOMAIN setup.layers[d] : Dispatch(t, d, i)
  \/ \E t \in Threads, s \in Streams : RunLookup(t, s)
  \/ \E t \in Threads : OpEnds(t)
  \/ StreamDone

TypeOK ==
  /\ \A d \in Models : dirs[d].state \in {"new", "loading", "loaded", "gone"}
  /\ \A d \in Models : consts[d].active \in {0, 1}
  /\ Range(resources) \subseteq Ids

\* An operator of a loaded model reaches that model's own layer, whatever the
\* constant buffer it runs with and whichever models were loaded and dropped
\* before it, their marker addresses reused.
ReachesOwnLayer == \A t \in Threads : op[t] # None => op[t].binding = op[t].own

\* The registry has exactly the layers of the live directories.
RegistryIsLive ==
  registry = [m \in AllMarkers |-> CHOOSE b \in LayerBindings(dirs) :
                \E d \in Models : \E i \in DOMAIN dirs[d].layers : dirs[d].layers[i] = [marker |-> m, binding |-> b]]

LoadedEntries == {<<d, i>> \in Models \X (1 .. Max({Len(setup.layers[d]) : d \in Models} \cup {1})) :
                    i \in DOMAIN dirs[d].layers}

StoreOf(l) == bindings[dirs[l[1]].layers[l[2]].binding].store

EntryOf(l) == setup.layers[l[1]][l[2]]

\* Two layers have the same storage exactly when their references lead to the
\* same resource, in one model or in two.
SharedByReference ==
  \A l, m \in LoadedEntries : l # m =>
    (StoreOf(l) = StoreOf(m) <=>
       /\ EntryOf(l).ref # None /\ EntryOf(m).ref # None
       /\ EntryOf(l).kind = EntryOf(m).kind
       /\ Effective(EntryOf(l)) = Effective(EntryOf(m)))

\* The weights of a layer's storage have been read, and once: a model loaded
\* later does not undo what was trained into storage it shares.
WeightsReadOnce == \A l \in LoadedEntries : Len(storage[StoreOf(l)]) = 1

\* What an operator in progress or queued work uses is alive: a layer dropped by
\* its directory waits for its operators and for its streams.
NothingDangles ==
  /\ \A t \in Threads : op[t] # None => op[t].binding \in DOMAIN bindings \cup {None}
  /\ \A p \in pending : p[1] \in DOMAIN bindings
  /\ \A b \in DOMAIN bindings : bindings[b].store \in DOMAIN storage
=============================================================================

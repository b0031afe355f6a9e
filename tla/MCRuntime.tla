------------------------------ MODULE MCRuntime ------------------------------
(***************************************************************************)
(* What the layers rest on and what is built on them: "heuristic", the     *)
(* default insert heuristic; "buffers", execution contexts, allocator and  *)
(* memory blocks; "capi", the objects of the C interface; "loader", models *)
(* exported with their layers; "gradients", the backward pass.             *)
(***************************************************************************)
EXTENDS Integers, Sequences

CONSTANTS c1, c2, t1, t2, m1, m2, s1, ra, rb, None

VARIABLES part, setup, call, storage,
          num_keys, state, hitrate_window, hitrate_mean, hitrate_var, window_samples_collected,
          insertions_performed, consecutive_unsteady_samples, answer, samples, inserts,
          heap, mmaps, streams, wrap, memblocks, bad,
          objects, handles, error, terminated,
          dirs, consts, resources, bindings, registry, op, pending,
          calls, runner, buffers, result

H == INSTANCE InsertHeuristic WITH Tables <- {1}, Unit <- 2, NumKeys <- {0, 8}, KFactorSquared <- 1, window_size <- 4,
       num_inserts_needed <- 3, max_unsteady_samples <- 3, CounterRange <- 8

(* The arithmetic on tags and sets, for keys of two to five bits and any     *)
(* number of sets.                                                           *)
E(half, sets) == INSTANCE EcHash WITH Half <- half, num_sets <- sets

ASSUME HashAssumption ==
  \A half \in {2, 4, 8, 16} : \A sets \in 1 .. half :
    /\ E(half, sets)!WidthsOK /\ E(half, sets)!KeyRoundTrips
    /\ E(half, sets)!TagsTellKeysApart /\ E(half, sets)!FreeSlotsMiss

ASSUME HeuristicAssumption == H!UnitOK /\ H!ParametersOK /\ H!RangeOK

(***************************************************************************)
(* Machines with huge pages, free and used up; scratch buffers that grow;  *)
(* buffers wrapped from memory of every kind; an allocator that fails;     *)
(* NVLink blocks of one to nine bytes on three devices.                    *)
(***************************************************************************)
Machine == [contexts |-> {c1}, driver |-> TRUE, hugepages |-> {}, threshold |-> 3, fails |-> FALSE, sizes |-> {1, 3},
            hosts |-> {}, streams |-> {}, types |-> {}, accesses |-> 0, memblocks |-> 0, kinds |-> {}, nvl |-> {},
            gpus |-> 0, page |-> 1]
Pages == {[size |-> 2, free |-> 2], [size |-> 4, free |-> 0]}
BufferSetups == {
  [Machine EXCEPT !.contexts = {c1, c2}, !.hosts = {TRUE}, !.hugepages = Pages, !.memblocks = 1, !.kinds = {"host"}],
  [Machine EXCEPT !.hosts = BOOLEAN, !.hugepages = Pages, !.streams = {1, 2}, !.memblocks = 1,
                  !.kinds = {"linear_device", "host", "managed"}],
  [Machine EXCEPT !.sizes = {1, 2}, !.types = {"unregistered", "host", "device"}, !.accesses = 4],
  [Machine EXCEPT !.sizes = {1, 2}, !.driver = FALSE, !.fails = TRUE, !.types = {"unregistered"}, !.accesses = 3,
                  !.hosts = {TRUE}],
  [Machine EXCEPT !.contexts = {}, !.memblocks = 1, !.nvl = 1 .. 9, !.gpus = 3, !.page = 2]}
B == INSTANCE Buffers WITH Contexts <- {c1, c2}, Blocks <- 1 .. 6, Setups <- BufferSetups

(***************************************************************************)
(* Clients that share a GPU table between two layers; that fill host       *)
(* tables from a factory, pass null pointers and run out of memory; that   *)
(* give a heuristic away; that look up in a database, one of whose tables  *)
(* has 4-byte keys; that leave comparing key types to the library.         *)
(***************************************************************************)
Objects(most) == [most |-> most, key_sizes |-> {}, database |-> <<>>, throws |-> {}, nulls |-> FALSE,
                  compares |-> TRUE]
ClientSetups == {
  Objects([gpu_table |-> 1, hierarchical_layer |-> 2, context |-> 1]),
  [Objects([factory |-> 1, host_table |-> 1, host_layer |-> 1, context |-> 1, thread_pool |-> 1])
     EXCEPT !.key_sizes = {4, 2}, !.throws = {"bad_alloc"}, !.nulls = TRUE],
  Objects([gpu_table |-> 1, linear_uvm_layer |-> 1, heuristic |-> 1, context |-> 2]),
  [Objects([gpu_layer |-> 1, hierarchical_layer |-> 1, context |-> 1])
     EXCEPT !.database = <<8, 4>>, !.throws = {"bad_alloc"}],
  [Objects([gpu_table |-> 2, hierarchical_layer |-> 1]) EXCEPT !.compares = FALSE]}
C == INSTANCE CApi WITH Threads <- {t1, t2}, Ids <- 1 .. 5, Setups <- ClientSetups

(***************************************************************************)
(* Two models: that share a reference, and are dropped and loaded again;   *)
(* one of them with a reference renamed; one of version 1 beside one of    *)
(* version 2, with constants swapped while two threads run; that fail to   *)
(* load, sharing nothing.  In Failing they share, and fail.                *)
(***************************************************************************)
Entry(kind, ref) == [kind |-> kind, ref |-> ref]
Block(ref) == Entry("memblock", ref)
Server(ref) == Entry("ps", ref)
Packages(a, b) == [layers |-> [d \in {m1, m2} |-> IF d = m1 THEN a ELSE b], version |-> [d \in {m1, m2} |-> 2],
                   remap |-> <<>>, threads |-> {t1}, fails |-> FALSE, reloads |-> FALSE, swaps |-> FALSE]
LoaderSetups == {
  [Packages(<<Block(ra), Block(None)>>, <<Block(ra)>>) EXCEPT !.reloads = TRUE],
  [Packages(<<Block(ra), Server(ra)>>, <<Block(rb), Block(ra), Server(rb)>>) EXCEPT !.remap = [x \in {rb} |-> ra]],
  [Packages(<<Block(None)>>, <<Block(None)>>) EXCEPT !.version[m2] = 1, !.swaps = TRUE, !.threads = {t1, t2}],
  [Packages(<<Block(ra)>>, <<Server(ra)>>) EXCEPT !.fails = TRUE]}
Failing == {[Packages(<<Block(ra)>>, <<Block(ra)>>) EXCEPT !.fails = TRUE]}
L == INSTANCE Loader WITH Models <- {m1, m2}, Threads <- {t1, t2}, Streams <- {s1}, Ids <- 1 .. 6, Setups <- LoaderSetups
F == INSTANCE Loader WITH Models <- {m1, m2}, Threads <- {t1, t2}, Streams <- {s1}, Ids <- 1 .. 6, Setups <- Failing

(***************************************************************************)
(* Batches of up to four keys and of up to seven, in runs that are split;  *)
(* every way to put up to three keys in two bags.                          *)
(***************************************************************************)
Concat(keys) == [keys |-> keys, mode |-> "concat", weighted |-> FALSE, offsets |-> <<0>>]
Bags(keys) == {[keys |-> keys, mode |-> m[1], weighted |-> m[2], offsets |-> <<0, n, Len(keys)>>] :
                 n \in 0 .. Len(keys), m \in {<<"sum", FALSE>>, <<"sum", TRUE>>, <<"mean", TRUE>>}}
UpTo(n, keys) == UNION {[1 .. m -> keys] : m \in 1 .. n}
Passes(n, max_run, batches) == [calls |-> n, max_run |-> max_run, short |-> 2, warp |-> 4, batches |-> batches]
GradientSetups == {
  Passes(2, 2, {Concat(k) : k \in UpTo(4, 1 .. 2) \cup [1 .. 3 -> 1 .. 3]}),
  Passes(2, 2, UNION {Bags(k) : k \in UpTo(3, 1 .. 2)}),
  Passes(3, 5, {Concat([i \in 1 .. n |-> 1]) : n \in 3 .. 7} \cup {Concat(<<2, 1, 1, 1, 1, 1, 1>>)}
               \cup Bags(<<1, 1, 1, 2>>))}
G == INSTANCE Gradients WITH Setups <- GradientSetups

heuristicVars == <<num_keys, state, hitrate_window, hitrate_mean, hitrate_var, window_samples_collected,
                   insertions_performed, consecutive_unsteady_samples, answer, samples, inserts>>
bufferVars == <<heap, mmaps, streams, wrap, memblocks, bad>>
clientVars == <<objects, handles, error, terminated>>
loaderVars == <<dirs, consts, resources, bindings, registry, op, pending>>
gradientVars == <<calls, runner, buffers, result>>
vars == <<part, setup, call, storage, heuristicVars, bufferVars, clientVars, loaderVars, gradientVars>>

NoHeuristic ==
  /\ num_keys = None /\ state = None /\ hitrate_window = None /\ hitrate_mean = None /\ hitrate_var = None
  /\ window_samples_collected = None /\ insertions_performed = None /\ consecutive_unsteady_samples = None
  /\ answer = None /\ samples = None /\ inserts = None
NoBuffers == heap = None /\ mmaps = None /\ streams = None /\ wrap = None /\ memblocks = None /\ bad = None
NoClients == objects = None /\ handles = None /\ error = None /\ terminated = None
NoLoader == dirs = None /\ consts = None /\ resources = None /\ bindings = None /\ registry = None /\ op = None
            /\ pending = None
NoGradients == calls = None /\ runner = None /\ buffers = None /\ result = None

LoaderOnly == part = "loader" /\ call = None /\ NoHeuristic /\ NoBuffers /\ NoClients /\ NoGradients

Init ==
  \/ part = "heuristic" /\ H!HeuristicInit /\ setup = None /\ call = None /\ storage = None
     /\ NoBuffers /\ NoClients /\ NoLoader /\ NoGradients
  \/ part = "buffers" /\ B!Init /\ call = None /\ NoHeuristic /\ NoClients /\ NoLoader /\ NoGradients
  \/ part = "capi" /\ C!Init /\ storage = None /\ NoHeuristic /\ NoBuffers /\ NoLoader /\ NoGradients
  \/ LoaderOnly /\ L!Init
  \/ part = "gradients" /\ G!Init /\ storage = None /\ NoHeuristic /\ NoBuffers /\ NoClients /\ NoLoader

Next ==
  /\ UNCHANGED part
  /\ \/ part = "heuristic" /\ H!HeuristicNext /\ UNCHANGED <<setup, call, storage, bufferVars, clientVars, loaderVars, gradientVars>>
     \/ part = "buffers" /\ B!Next /\ UNCHANGED <<call, heuristicVars, clientVars, loaderVars, gradientVars>>
     \/ part = "capi" /\ C!Next /\ UNCHANGED <<storage, heuristicVars, bufferVars, loaderVars, gradientVars>>
     \/ part = "loader" /\ L!Next /\ UNCHANGED <<call, heuristicVars, bufferVars, clientVars, gradientVars>>
     \/ part = "gradients" /\ G!Next /\ UNCHANGED <<storage, heuristicVars, bufferVars, clientVars, loaderVars>>

Spec == Init /\ [][Next]_vars
FailSpec == LoaderOnly /\ F!Init /\ [][Next]_vars

(* The heuristic inserts when the hit rates say so: each round asks for       *)
(* num_inserts_needed_ insertions, but for the one cut short when the counter *)
(* wraps, the first one rests on a window of fresh samples whose mean is      *)
(* right, a later one on a run of bad samples.                                *)
RoundsAreComplete ==
  [][part = "heuristic" => /\ H!HeuristicTypeOK /\ H!HInv /\ H!MeanOfWindow'
                           /\ H!WindowIsFresh /\ H!RoundsAreComplete /\ H!SteadyNeedsARun]_vars

(* Nothing is used after it is gone: what an object of the C interface or an  *)
(* operator of a loaded model refers to is alive, destructors do not throw,   *)
(* and a buffer handed out is live and large enough, is freed once and as it  *)
(* was allocated.                                                             *)
NothingDangles ==
  CASE part = "capi" -> C!TypeOK /\ C!NoTermination /\ C!NothingDangles
    [] part = "loader" -> L!TypeOK /\ L!NothingDangles
    [] part = "buffers" -> B!TypeOK /\ B!FreesMatch /\ B!BuffersLive /\ B!NvlCovers
    [] OTHER -> TRUE

(* An object lives only while a handle leads to it, and a block of memory     *)
(* only while a context or a memory block owns it.                            *)
NothingLeaks == (part = "capi" => C!NothingLeaks) /\ (part = "buffers" => B!NoLostBlock)

(* A handle's key type is its object's, and a layer's tables have the layer's, *)
(* but for the handles nve_build_host_database labels with another size and    *)
(* the hierarchical layers whose tables nobody compares.                       *)
KeyTypesAgree == part = "capi" => C!KeyTypesAgree

(* The buffer a layer last asked for holds what was last written to any of    *)
(* the copies of it.                                                          *)
SeesLatest == part = "buffers" => B!SeesLatest

(* An operator of a loaded model reaches that model's own layer, whatever was *)
(* loaded, dropped and swapped before, and the registry has exactly the       *)
(* layers of the live directories.                                            *)
ReachesOwnLayer == part = "loader" => L!ReachesOwnLayer /\ L!RegistryIsLive

(* Layers share storage exactly when their references lead to one resource,   *)
(* and the weights of the storage have been read once.                        *)
SharedByReference == part = "loader" => L!SharedByReference /\ L!WeightsReadOnce

(* Storage that a layer takes from the shared resources has its weights:      *)
(* "needs_weight_load is false on a registry hit".                            *)
WeightsReadOnce == part = "loader" => L!WeightsReadOnce

(* The backward pass returns each key once with the sum of exactly its own    *)
(* gradients, and what a call uses fits the buffers that earlier calls left.  *)
GradientsExact == part = "gradients" => G!TypeOK /\ G!GradientsExact /\ G!BuffersFit
=============================================================================

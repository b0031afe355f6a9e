------------------------------- MODULE CApi -------------------------------
(***************************************************************************)
(* The C API: handles over shared objects, the calls that create, use and  *)
(* destroy them, and the thread-local error.  A handle owns a shared       *)
(* reference; a layer owns references to its tables and heuristic, a       *)
(* context to its pool and allocator.  An object goes when its last        *)
(* reference does.  A GpuTable that goes while contexts are registered     *)
(* with it throws in its destructor: the process terminates.               *)
(*                                                                         *)
(* Clients on several threads follow the header: contexts before their     *)
(* table or layer, no destroy of a handle a call is using.                 *)
(***************************************************************************)
EXTENDS Integers, Sequences, FiniteSets, FiniteSetsExt

CONSTANTS Threads,  \* client threads
          Ids,      \* handles that may be created, numbers
          None,     \* no value
          Setups    \* what clients create and may fail

VARIABLES setup,      \* the objects and failures of this behaviour
          objects,    \* live objects: id -> their kind and what they refer to
          handles,    \* live handles: id -> the key type they were given
          call,       \* per thread: the call in progress, or None
          error,      \* g_last_error per thread
          terminated  \* has a destructor thrown?

vars == <<setup, objects, handles, call, error, terminated>>

Kinds == {"gpu_table", "host_table", "gpu_layer", "linear_uvm_layer", "hierarchical_layer", "host_layer",
          "context", "thread_pool", "heuristic", "factory"}

Tables == {"gpu_table", "host_table"}

Layers == {"gpu_layer", "linear_uvm_layer", "hierarchical_layer", "host_layer"}

OfKind(kinds) == {i \in DOMAIN objects : objects[i].kind \in kinds}

\* What i and everything it refers to keep alive.
Reach(roots, o) ==
  LET step[n \in 0 .. Cardinality(Ids)] ==
        IF n = 0 THEN roots ELSE step[n - 1] \cup UNION {o[i].holds : i \in step[n - 1]}
  IN  step[Cardinality(Ids)]

(***************************************************************************)
(* Errors.                                                                 *)
(***************************************************************************)
\* nve_set_error: the message of this thread is replaced, the status returned.
Fails(t, status) == error' = [error EXCEPT ![t] = status]

\* A call that succeeds leaves the message alone.
Succeeds == UNCHANGED error

\* The status the catch clauses give for what was thrown.
StatusOf(thrown) == IF thrown = "bad_alloc" THEN "OUT_OF_MEMORY"
                    ELSE IF thrown = "invalid_argument" THEN "INVALID_ARGUMENT" ELSE "RUNTIME"

Free(t) == call[t] = None

Unchanged == UNCHANGED <<setup, objects, handles, call, terminated>>

(***************************************************************************)
(* Creation.                                                               *)
(***************************************************************************)
\* A new object and its handle; the references are copies of the handles' own.
Create(t, i, kind, size, label, uses, holds, registered) ==
  /\ kind \in DOMAIN setup.most /\ Cardinality(OfKind({kind})) < setup.most[kind]
  /\ objects' = [j \in DOMAIN objects \cup {i} |->
                   IF j = i THEN [kind |-> kind, size |-> size, uses |-> uses, holds |-> holds, registered |-> registered]
                   ELSE objects[j]]
  /\ handles' = [j \in DOMAIN handles \cup {i} |-> IF j = i THEN label ELSE handles[j]]
  /\ Succeeds
  /\ UNCHANGED <<setup, call, terminated>>

\* Which of the free ids a new object gets makes no difference: the least.
New(i) == i \in Ids \ DOMAIN objects /\ \A j \in Ids \ DOMAIN objects : i <= j

Optional(kind) == {{}} \cup {{j} : j \in DOMAIN handles \cap OfKind({kind})}

Plain(t, i, kind) == New(i) /\ Create(t, i, kind, None, None, {}, {}, {})

\* nve_threadpool_create, nve_heuristic_create_*, nve_host_factory_create: objects
\* that refer to no other.
CreatePool(t, i) == Plain(t, i, "thread_pool")

CreateHeuristic(t, i) == Plain(t, i, "heuristic")

CreateFactory(t, i) == Plain(t, i, "factory")

\* nve_gpu_table_create: the template is chosen by the key type.
CreateGpuTable(t, i) ==
  /\ New(i)
  /\ \E key_type \in {4, 8} : Create(t, i, "gpu_table", key_type, key_type, {}, {}, {})

LabelOfProduced_Int64(key_size) == 8

\* nve_host_factory_produce: the handle's key type is read off key_size; sizes
\* other than 4 and 8 are refused.
LabelOfProduced(key_size) == key_size

ProduceHostTable(t, i) ==
  \E f \in DOMAIN handles \cap OfKind({"factory"}), key_size \in setup.key_sizes :
    /\ New(i)
    /\ IF key_size \in {4, 8}
       THEN Create(t, i, "host_table", key_size, LabelOfProduced(key_size), {}, {}, {})
       ELSE Fails(t, "INVALID_ARGUMENT") /\ Unchanged

Database == DOMAIN setup.database

\* nve_build_host_database: every table has the key size its configuration gives it,
\* and every handle the key type NVE_KEY_INT64.  When a handle cannot be made those
\* before it are deleted, the tables go with db, and the exception becomes a status.
BuildDatabase(t) ==
  /\ Database # {}
  /\ Database \cap DOMAIN objects = {}
  /\ \/ /\ objects' = [j \in DOMAIN objects \cup Database |->
                        IF j \in Database
                        THEN [kind |-> "host_table", size |-> setup.database[j], uses |-> {}, holds |-> {}, registered |-> {}]
                        ELSE objects[j]]
        /\ handles' = [j \in DOMAIN handles \cup Database |-> IF j \in Database THEN 8 ELSE handles[j]]
        /\ Succeeds
        /\ UNCHANGED <<setup, call, terminated>>
     \/ \E thrown \in setup.throws : Fails(t, StatusOf(thrown)) /\ Unchanged

\* nve_gpu_embedding_layer_create.
CreateGpuLayer(t, i) ==
  /\ New(i)
  /\ \E key_type \in {4, 8} : Create(t, i, "gpu_layer", key_type, key_type, {}, {}, {})

\* nve_linear_uvm_layer_create, nve_host_embedding_layer_create: one table, whose
\* handle's key type must be the layer's; the layer copies the references.
CreateTableLayer(t, i, kind, table_kind) ==
  \E table \in DOMAIN handles \cap OfKind({table_kind}), key_type \in {4, 8} :
    /\ New(i)
    /\ IF handles[table] # key_type THEN Fails(t, "INVALID_ARGUMENT") /\ Unchanged
       ELSE \E h \in IF kind = "host_layer" THEN {{}} ELSE Optional("heuristic") :
              Create(t, i, kind, key_type, key_type, {table}, {table} \cup h, {})

CreateLinearUvm(t, i) == CreateTableLayer(t, i, "linear_uvm_layer", "gpu_table")

CreateHostLayer(t, i) == CreateTableLayer(t, i, "host_layer", "host_table")

LayerHolds_Borrowed(tables, h) == h

\* The references a hierarchical layer keeps: every table's and the heuristic's.
LayerHolds(tables, h) == tables \cup h

\* nve_hierarchical_layer_create does not compare key types: a client that does not
\* do it may pass any tables.
CreateHierarchical(t, i) ==
  /\ New(i)
  /\ \E tables \in SUBSET (DOMAIN handles \cap OfKind(Tables)) \ {{}}, key_type \in {4, 8}, h \in Optional("heuristic") :
       /\ setup.compares => \A j \in tables : handles[j] = key_type
       /\ Create(t, i, "hierarchical_layer", key_type, key_type, tables, LayerHolds(tables, h), {})

\* The GPU tables a context of owner o registers with: a table's context with it,
\* a layer's through one context for each of its tables.
RegistersWith(o) == {j \in {o} \cup objects[o].uses : objects[j].kind = "gpu_table"}

\* nve_table_create_execution_context, nve_layer_create_execution_context: the
\* context keeps its pool, but neither the table nor the layer.
CreateContext(t, i) ==
  \E o \in DOMAIN handles \cap OfKind(Tables \cup Layers), pool \in Optional("thread_pool") :
    /\ New(i)
    /\ Create(t, i, "context", o, None, {}, pool, RegistersWith(o))

\* Any creation may throw: nothing is created and *out is not written.
CreateThrows(t) ==
  \E thrown \in setup.throws : Fails(t, StatusOf(thrown)) /\ Unchanged

(***************************************************************************)
(* Use.                                                                    *)
(***************************************************************************)
\* An operation with a context of what it operates on; one at a time on a context.
Begin(t, o, c) ==
  /\ {o, c} \subseteq DOMAIN handles
  /\ objects[c].kind = "context" /\ objects[c].size = o
  /\ ~\E u \in Threads : call[u] # None /\ call[u].ctx = c
  /\ call' = [call EXCEPT ![t] = [on |-> o, ctx |-> c]]
  /\ UNCHANGED <<setup, objects, handles, error, terminated>>

\* find, insert, update, update_accumulate, clear, erase of a table.
BeginTableUse(t, o, c) == o \in OfKind(Tables) /\ Begin(t, o, c)

\* lookup, lookup_pooled, insert, update, accumulate, clear, erase of a layer.
BeginLayerUse(t, o, c) == o \in OfKind(Layers) /\ Begin(t, o, c)

\* It returns a status: the operation's, or that of what it threw.
EndUse(t) ==
  /\ call[t] # None
  /\ call' = [call EXCEPT ![t] = None]
  /\ Succeeds \/ \E thrown \in setup.throws : Fails(t, StatusOf(thrown))
  /\ UNCHANGED <<setup, objects, handles, terminated>>

\* A null handle is refused before anything is touched.
NullHandle(t) == setup.nulls /\ Fails(t, "INVALID_ARGUMENT") /\ Unchanged

(***************************************************************************)
(* Destruction.                                                            *)
(***************************************************************************)
InUse(i) == \E u \in Threads : call[u] # None /\ i \in {call[u].on, call[u].ctx}

\* What the header asks of the client: "All execution contexts created from this
\* table must be destroyed first", and a context "must be destroyed before its owning table/layer".
InOrder(i) == \A c \in OfKind({"context"}) : objects[c].size # i

Dropped_Forgotten(gone) == DOMAIN objects

\* The objects left once the handles `gone` are deleted.
Dropped(gone) == Reach(DOMAIN handles \ gone, objects)

\* delete of handles: their references go, and what nothing else refers to.
DestroyAll(gone) ==
  LET left == Dropped(gone) \cap DOMAIN objects
  IN  /\ handles' = [j \in DOMAIN handles \ gone |-> handles[j]]
      /\ objects' = [j \in left |-> objects[j]]
      /\ terminated' = (terminated \/ \E j \in DOMAIN objects \ left :
                          /\ objects[j].kind = "gpu_table"
                          /\ \E c \in left : j \in objects[c].registered)

Destroy(i, kinds) ==
  /\ i \in DOMAIN handles \cap OfKind(kinds)
  /\ ~InUse(i)
  /\ InOrder(i)
  /\ DestroyAll({i})
  /\ Succeeds
  /\ UNCHANGED <<setup, call>>

DestroyTable(i) == Destroy(i, Tables)

DestroyLayer(i) == Destroy(i, Layers)

DestroyContext(i) == Destroy(i, {"context"})

DestroyPool(i) == Destroy(i, {"thread_pool"})

DestroyHeuristic(i) == Destroy(i, {"heuristic"})

DestroyFactory(i) == Destroy(i, {"factory"})

\* nve_free_host_database deletes every handle of the array.
FreeDatabase ==
  /\ Database # {}
  /\ Database \subseteq DOMAIN handles
  /\ \A i \in Database : ~InUse(i) /\ InOrder(i)
  /\ DestroyAll(Database)
  /\ Succeeds
  /\ UNCHANGED <<setup, call>>

(***************************************************************************)
(* The specification.                                                      *)
(***************************************************************************)
Init ==
  /\ setup \in Setups
  /\ objects = <<>>
  /\ handles = <<>>
  /\ call = [t \in Threads |-> None]
  /\ error = [t \in Threads |-> None]
  /\ terminated = FALSE

Creates(t, i) ==
  \/ CreatePool(t, i)
  \/ CreateHeuristic(t, i)
  \/ CreateFactory(t, i)
  \/ CreateGpuTable(t, i)
  \/ ProduceHostTable(t, i)
  \/ CreateGpuLayer(t, i)
  \/ CreateLinearUvm(t, i)
  \/ CreateHostLayer(t, i)
  \/ CreateHierarchical(t, i)
  \/ CreateContext(t, i)

Destroys(i) ==
  \/ DestroyTable(i)
  \/ DestroyLayer(i)
  \/ DestroyContext(i)
  \/ DestroyPool(i)
  \/ DestroyHeuristic(i)
  \/ DestroyFactory(i)

Step(t) ==
  \/ Free(t) /\ \E i \in Ids : Creates(t, i)
  \/ Free(t) /\ (CreateThrows(t) \/ NullHandle(t) \/ BuildDatabase(t) \/ FreeDatabase)
  \/ Free(t) /\ \E i \in Ids : Destroys(i)
  \/ Free(t) /\ \E o, c \in Ids : BeginTableUse(t, o, c) \/ BeginLayerUse(t, o, c)
  \/ EndUse(t)

Next == \E t \in Threads : Step(t)

TypeOK ==
  /\ DOMAIN handles \subseteq DOMAIN objects
  /\ \A i \in DOMAIN objects : objects[i].kind \in Kinds
  /\ terminated \in BOOLEAN

\* A client that destroys in the order the header asks for never takes the process
\* down: no GpuTable is destructed with contexts registered with it, whichever of
\* the handles that share it goes last.
NoTermination == ~terminated

\* All that a live object refers to is alive, a layer's tables and a context's
\* registry included, and so is what a call in progress works on.
NothingDangles ==
  /\ \A i \in DOMAIN objects : objects[i].uses \cup objects[i].holds \cup objects[i].registered \subseteq DOMAIN objects
  /\ \A t \in Threads : call[t] # None => {call[t].on, call[t].ctx} \subseteq DOMAIN objects

\* An object lives only while a handle leads to it: when every handle is
\* destroyed nothing is left.
NothingLeaks == DOMAIN objects \subseteq Reach(DOMAIN handles, objects)

\* The tables of a database whose configuration gives another key size than the 8
\* bytes nve_build_host_database labels every handle with.
Mislabelled == {i \in OfKind({"host_table"}) \cap Database : setup.database[i] # 8}

\* The key type a handle carries is the size of its object's keys, and a layer's
\* tables have the layer's: buffers are sized with one and read with the other.  It is
\* so of every handle but those nve_build_host_database mislabels, and of every layer
\* whose tables are not mislabelled, except a hierarchical one for which the client
\* does not compare the key types of its tables, as the library does not either.
KeyTypesAgree ==
  /\ \A i \in DOMAIN handles \ Mislabelled : objects[i].kind \in Tables => handles[i] = objects[i].size
  /\ \A i \in OfKind(Layers) :
       objects[i].kind # "hierarchical_layer" \/ setup.compares =>
         \A j \in objects[i].uses \ Mislabelled : objects[j].size = objects[i].size
=============================================================================

-------------------------- MODULE GpuEmbeddingLayer --------------------------
(***************************************************************************)
(* GPUEmbeddingLayer (src/gpu_embedding_layer.cu): a table that lives in   *)
(* GPU memory as a whole, without a cache.  Lookups run on the lookup      *)
(* stream of their context, update and accumulate on one private stream.   *)
(* Nothing but CUDA events keeps a lookup kernel off a row that a modify   *)
(* kernel is writing:                                                      *)
(*   - a lookup makes its stream wait for modify_in_progress_, recorded    *)
(*     behind the last modify kernel;                                      *)
(*   - a modify operation records an event on the lookup stream of every   *)
(*     registered context and makes the private stream wait for them;      *)
(*   - kernel_launch_mutex_ makes each of the two sequences atomic.        *)
(* insert, clear and erase do nothing in this layer.  The copies of keys   *)
(* and values to the device do not touch the table and are left out.       *)
(*                                                                         *)
(* Kernels are counted.  A lookup kernel is the number of modify kernels   *)
(* its stream waits for; a modify kernel is, per lookup stream, the number *)
(* of lookup kernels the private stream waits for.                         *)
(***************************************************************************)
EXTENDS Naturals, Sequences

CONSTANTS
    Contexts,      \* execution contexts, each with a lookup stream and one calling thread
    None,          \* no owner of the mutex
    MaxLookups,    \* bound: lookups of a context
    MaxModifies    \* bound: modify operations

ASSUME NoneAssumption == None \notin Contexts
ASSUME BoundsAssumption == MaxLookups \in Nat /\ MaxModifies \in Nat

VARIABLES
    contexts,               \* ContextRegistry::contexts_
    kernel_launch_mutex,    \* kernel_launch_mutex_: its owner
    pc,                     \* pc[c]: what the thread of c is doing under the mutex
    modify_stream,          \* modify_stream[c]: modify kernels the modify stream of c waits for
    sync_event,             \* sync_event[c]: the lookup streams of syncEvent
    modify_in_progress,     \* modify_in_progress_: modify kernels it was recorded behind
    stream,                 \* stream[c]: lookup kernels queued for c
    private_modify_stream,  \* private_modify_stream_: modify kernels queued
    looked,                 \* looked[c]: lookup kernels of c that have finished
    modified,               \* modify kernels that have finished
    reading,                \* contexts whose first queued lookup kernel is running
    writing                 \* modify kernels running: 1 when the first queued one runs

hostVars == <<contexts, kernel_launch_mutex, pc, modify_stream, sync_event, modify_in_progress>>
deviceVars == <<looked, modified, reading, writing>>
vars == <<hostVars, stream, private_modify_stream, deviceVars>>

Init ==
    /\ contexts = {}
    /\ kernel_launch_mutex = None
    /\ pc = [c \in Contexts |-> "idle"]
    /\ modify_stream = [c \in Contexts |-> 0]
    /\ sync_event = [c \in Contexts |-> {}]
    /\ modify_in_progress = 0
    /\ stream = [c \in Contexts |-> <<>>]
    /\ private_modify_stream = <<>>
    /\ looked = [c \in Contexts |-> 0]
    /\ modified = 0
    /\ reading = {}
    /\ writing = 0

create_execution_context(c) ==
    /\ c \notin contexts
    /\ contexts' = contexts \cup {c}
    /\ UNCHANGED <<kernel_launch_mutex, pc, modify_stream, sync_event, modify_in_progress>>
    /\ UNCHANGED <<stream, private_modify_stream, deviceVars>>

\* The destructor synchronises the lookup stream and the modify stream of the context.
destroy_execution_context(c) ==
    /\ c \in contexts
    /\ pc[c] = "idle"
    /\ stream[c] = <<>>
    /\ modify_stream[c] <= modified
    /\ contexts' = contexts \ {c}
    /\ UNCHANGED <<kernel_launch_mutex, pc, modify_stream, sync_event, modify_in_progress>>
    /\ UNCHANGED <<stream, private_modify_stream, deviceVars>>

-----------------------------------------------------------------------------
\* Mutant: kernel_launch_mutex_ is taken without excluding anyone.
Lock_Shared(c, next) ==
    /\ pc[c] = "idle"
    /\ kernel_launch_mutex' = c
    /\ pc' = [pc EXCEPT ![c] = next]

\* Takes kernel_launch_mutex_ and goes on with the rest of the call.
Lock(c, next) ==
    /\ pc[c] = "idle"
    /\ kernel_launch_mutex = None
    /\ kernel_launch_mutex' = c
    /\ pc' = [pc EXCEPT ![c] = next]

Unlock(c) ==
    /\ kernel_launch_mutex' = None
    /\ pc' = [pc EXCEPT ![c] = "idle"]

lookup(c) ==
    /\ c \in contexts
    /\ looked[c] + Len(stream[c]) < MaxLookups
    /\ Lock(c, "lookup")
    /\ UNCHANGED <<contexts, modify_stream, sync_event, modify_in_progress>>
    /\ UNCHANGED <<stream, private_modify_stream, deviceVars>>

\* cudaStreamWaitEvent(lookup_stream, modify_in_progress_), then the kernel.
QueueLookup(c) ==
    /\ pc[c] = "lookup"
    /\ stream' = [stream EXCEPT ![c] = Append(@, modify_in_progress)]
    /\ Unlock(c)
    /\ UNCHANGED <<contexts, modify_stream, sync_event, modify_in_progress>>
    /\ UNCHANGED <<private_modify_stream, deviceVars>>

\* update and accumulate up to create_sync_event, which copies the registered lookup streams.
modify(c) ==
    /\ c \in contexts
    /\ modified + Len(private_modify_stream) < MaxModifies
    /\ Lock(c, "modify")
    /\ sync_event' = [sync_event EXCEPT ![c] = contexts]
    /\ UNCHANGED <<contexts, modify_stream, modify_in_progress>>
    /\ UNCHANGED <<stream, private_modify_stream, deviceVars>>

\* Mutant: the private stream waits for the caller's own lookup stream only.
LookupsQueued_OwnStream(c) ==
    [d \in Contexts |-> IF d = c THEN looked[d] + Len(stream[d]) ELSE 0]

\* event_record on the streams of the event: the lookups queued on them so far.
LookupsQueued(c) ==
    [d \in Contexts |-> IF d \in sync_event[c] THEN looked[d] + Len(stream[d]) ELSE 0]

\* Mutant: modify_in_progress_ is recorded before the kernel is queued.
RecordModify_Early(c) ==
    /\ modify_in_progress' = modified + Len(private_modify_stream)
    /\ modify_stream' = [modify_stream EXCEPT ![c] = modify_in_progress']

\* modify_in_progress_ is recorded behind the kernel and the modify stream waits for it.
RecordModify(c) ==
    /\ modify_in_progress' = modified + Len(private_modify_stream) + 1
    /\ modify_stream' = [modify_stream EXCEPT ![c] = modify_in_progress']

\* event_record, event_wait_stream, the kernel, and the event behind it.
QueueModify(c) ==
    /\ pc[c] = "modify"
    /\ private_modify_stream' = Append(private_modify_stream, LookupsQueued(c))
    /\ RecordModify(c)
    /\ sync_event' = [sync_event EXCEPT ![c] = {}]
    /\ Unlock(c)
    /\ UNCHANGED <<contexts, stream, deviceVars>>

\* An unsupported pooling type throws under the mutex: the lookup stream has one more wait,
\* which the next lookup repeats, and no kernel.
LookupThrows(c) ==
    /\ pc[c] = "lookup"
    /\ Unlock(c)
    /\ UNCHANGED <<contexts, modify_stream, sync_event, modify_in_progress>>
    /\ UNCHANGED <<stream, private_modify_stream, deviceVars>>

\* An unsupported data type throws after the private stream was made to wait, which the next
\* modify operation repeats.  ~StreamCoordinator makes the modify stream wait for the
\* private one.
ModifyThrows(c) ==
    /\ pc[c] = "modify"
    /\ modify_stream' = [modify_stream EXCEPT ![c] = modified + Len(private_modify_stream)]
    /\ sync_event' = [sync_event EXCEPT ![c] = {}]
    /\ Unlock(c)
    /\ UNCHANGED <<contexts, modify_in_progress>>
    /\ UNCHANGED <<stream, private_modify_stream, deviceVars>>

-----------------------------------------------------------------------------
(***************************************************************************)
(* The device: the first kernel of a stream starts when what its stream    *)
(* waits for is done.                                                      *)
(***************************************************************************)
StartLookup(c) ==
    /\ stream[c] # <<>>
    /\ c \notin reading
    /\ Head(stream[c]) <= modified
    /\ reading' = reading \cup {c}
    /\ UNCHANGED <<stream, private_modify_stream, looked, modified, writing>>
    /\ UNCHANGED hostVars

FinishLookup(c) ==
    /\ c \in reading
    /\ reading' = reading \ {c}
    /\ stream' = [stream EXCEPT ![c] = Tail(@)]
    /\ looked' = [looked EXCEPT ![c] = @ + 1]
    /\ UNCHANGED <<private_modify_stream, modified, writing>>
    /\ UNCHANGED hostVars

StartModify ==
    /\ private_modify_stream # <<>>
    /\ writing = 0
    /\ \A c \in Contexts : Head(private_modify_stream)[c] <= looked[c]
    /\ writing' = 1
    /\ UNCHANGED <<stream, private_modify_stream, looked, modified, reading>>
    /\ UNCHANGED hostVars

FinishModify ==
    /\ writing = 1
    /\ writing' = 0
    /\ private_modify_stream' = Tail(private_modify_stream)
    /\ modified' = modified + 1
    /\ UNCHANGED <<stream, looked, reading>>
    /\ UNCHANGED hostVars

Next ==
    \/ \E c \in Contexts :
          \/ create_execution_context(c)
          \/ destroy_execution_context(c)
          \/ lookup(c)
          \/ QueueLookup(c)
          \/ modify(c)
          \/ QueueModify(c)
          \/ LookupThrows(c)
          \/ ModifyThrows(c)
          \/ StartLookup(c)
          \/ FinishLookup(c)
    \/ StartModify
    \/ FinishModify

Spec == Init /\ [][Next]_vars

-----------------------------------------------------------------------------
\* The variables hold values of their types.
TypeOK ==
    /\ contexts \subseteq Contexts
    /\ kernel_launch_mutex \in Contexts \cup {None}
    /\ pc \in [Contexts -> {"idle", "lookup", "modify"}]
    /\ modify_stream \in [Contexts -> Nat]
    /\ sync_event \in [Contexts -> SUBSET Contexts]
    /\ modify_in_progress \in Nat
    /\ stream \in [Contexts -> Seq(Nat)]
    /\ private_modify_stream \in Seq([Contexts -> Nat])
    /\ looked \in [Contexts -> Nat]
    /\ modified \in Nat
    /\ reading \subseteq Contexts
    /\ writing \in {0, 1}

\* No lookup kernel runs while an update or accumulate kernel writes the table.
NoOverlap == writing = 1 => reading = {}

\* A running lookup kernel sees exactly the modify operations whose launch took
\* kernel_launch_mutex_ before its own: none of them is missing, none of a later one is seen.
ReadsItsPlace == \A c \in reading : modified = Head(stream[c])

-----------------------------------------------------------------------------
(***************************************************************************)
(* The inductive invariant.                                                *)
(***************************************************************************)
MutexOwned == \A c \in Contexts : pc[c] # "idle" <=> kernel_launch_mutex = c

\* modify_in_progress_ stands behind the last modify kernel queued.
EventIsLast == modify_in_progress = modified + Len(private_modify_stream)

\* The event that is about to be recorded covers every stream with queued lookups, although
\* contexts may have been created since: their lookups need the mutex.
SnapshotCovers ==
    \A c, d \in Contexts : pc[c] = "modify" /\ stream[d] # <<>> => d \in sync_event[c]

Registered == \A c \in Contexts : c \notin contexts => stream[c] = <<>> /\ pc[c] = "idle"

\* A modify kernel waits for lookups that have been queued, never for later ones.
WaitsQueued ==
    \A i \in 1 .. Len(private_modify_stream) : \A c \in Contexts :
        private_modify_stream[i][c] <= looked[c] + Len(stream[c])

\* Of a queued lookup and a queued modify operation, one waits for the other and only one.
\* A lookup never waits for less than what has been modified already.
Ordered ==
    \A c \in Contexts : \A j \in 1 .. Len(stream[c]) :
        /\ stream[c][j] \in modified .. modified + Len(private_modify_stream)
        /\ \A i \in 1 .. Len(private_modify_stream) :
              stream[c][j] >= modified + i <=> private_modify_stream[i][c] < looked[c] + j

Running ==
    /\ \A c \in reading : stream[c] # <<>> /\ Head(stream[c]) <= modified
    /\ writing = 1 => /\ private_modify_stream # <<>>
                      /\ \A c \in Contexts : Head(private_modify_stream)[c] <= looked[c]

\* What every step of the layer keeps: who holds the mutex, what the events cover, and the
\* order of every queued lookup and modify kernel.
GInv ==
    /\ TypeOK
    /\ MutexOwned
    /\ EventIsLast
    /\ SnapshotCovers
    /\ Registered
    /\ WaitsQueued
    /\ Ordered
    /\ Running
=============================================================================

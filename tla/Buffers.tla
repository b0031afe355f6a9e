----------------------------- MODULE Buffers -----------------------------
(***************************************************************************)
(* Memory: the default allocator all contexts share, the named scratch     *)
(* buffers of an execution context, the BufferWrapper through which a      *)
(* layer moves an argument between host and device, and the memory blocks  *)
(* the Python layers are built on.  Sizes are in pages of the model.       *)
(*                                                                         *)
(* A call of the allocator is atomic.  The code takes no lock around       *)
(* host_mmap_allocations_, so with huge pages this is an assumption on the *)
(* threads: no two of them allocate or free host memory at one time.       *)
(***************************************************************************)
EXTENDS Integers, Sequences, FiniteSets, FiniteSetsExt, SequencesExt

CONSTANTS Contexts,  \* execution contexts, each used by one thread at a time
          Blocks,    \* addresses the system's allocators return, numbers
          None,      \* no value
          Setups     \* the machine and what is asked of it

VARIABLES setup,
          heap,      \* live blocks: address -> [by, bytes]
          mmaps,     \* host_mmap_allocations_: address -> mapped bytes
          storage,   \* per context: buffer_storage_, name -> [buffer, size]
          streams,   \* per context: aux_streams_storage_, name -> streams
          wrap,      \* per context: the BufferWrapper in use, or None
          memblocks, \* live memory blocks: address -> their kind
          bad        \* a free that did not match its allocation

vars == <<setup, heap, mmaps, storage, streams, wrap, memblocks, bad>>

Put(f, k, v) == [x \in DOMAIN f \cup {k} |-> IF x = k THEN v ELSE f[x]]

Drop(f, k) == [x \in DOMAIN f \ {k} |-> f[x]]

(***************************************************************************)
(* DefaultAllocator.                                                       *)
(***************************************************************************)
CeilDiv(n, d) == (n + d - 1) \div d

\* get_largest_hugepage_bits: the largest page of which enough are free; 0 if none.
LargestHugepage(size) ==
  LET fits == {p \in setup.hugepages : p.free >= CeilDiv(size, p.size)}
  IN  IF fits = {} THEN 0 ELSE Max({p.size : p \in fits})

\* Which of the free addresses is returned makes no difference.
Address(h) == Min(Blocks \ DOMAIN h)

\* host_allocate: malloc without a driver, huge pages from the threshold on,
\* pinned memory otherwise.
HostBlock(size) ==
  LET page == IF size >= setup.threshold THEN LargestHugepage(size) ELSE 0
  IN  IF ~setup.driver THEN [by |-> "malloc", bytes |-> size]
      ELSE IF page = 0 THEN [by |-> "cudaMallocHost", bytes |-> size]
      ELSE [by |-> "mmap", bytes |-> CeilDiv(size, page) * page]

DeviceBlock(size) == [by |-> "cudaMalloc", bytes |-> size]

Recorded(a, block, m) == IF block.by = "mmap" THEN Put(m, a, block.bytes) ELSE m

\* host_free: unmap what the map of huge-page blocks knows, with its size there.
HowHostFrees(a) ==
  IF ~setup.driver THEN [by |-> "malloc", bytes |-> None]
  ELSE IF a \in DOMAIN mmaps THEN [by |-> "mmap", bytes |-> mmaps[a]]
  ELSE [by |-> "cudaMallocHost", bytes |-> None]

HowFrees(a, host) == IF host THEN HowHostFrees(a) ELSE [by |-> "cudaMalloc", bytes |-> None]

\* Does this free give back exactly the live block at a?
Matches(a, how) ==
  /\ a \in DOMAIN heap
  /\ heap[a].by = how.by
  /\ how.bytes # None => heap[a].bytes = how.bytes

(***************************************************************************)
(* ResizeableBuffer::get_ptr and ExecutionContext::get_buffer.             *)
(***************************************************************************)
InternalName(name, host) == <<IF host THEN "H__" ELSE "D__", name>>

Stored(c, key) == IF key \in DOMAIN storage[c] THEN storage[c][key] ELSE [buffer |-> None, size |-> 0]

MustGrow(c, key, size) == size > Stored(c, key).size

\* The old block is freed first, its data lost; a malloc that fails leaves a null
\* buffer and the old size.
Grow(c, key, size, fails) ==
  LET old == Stored(c, key).buffer
      host == key[1] = "H__"
      left == IF old = None THEN heap ELSE Drop(heap, old)
      block == IF host THEN HostBlock(size) ELSE DeviceBlock(size)
      a == Address(left)
  IN  /\ bad' = (bad \/ (old # None /\ ~Matches(old, HowFrees(old, host))))
      /\ IF fails
         THEN /\ heap' = left
              /\ mmaps' = Drop(mmaps, old)
              /\ storage' = [storage EXCEPT ![c] = Put(@, key, [buffer |-> None, size |-> Stored(c, key).size])]
         ELSE /\ heap' = Put(left, a, block)
              /\ mmaps' = Recorded(a, block, Drop(mmaps, old))
              /\ storage' = [storage EXCEPT ![c] = Put(@, key, [buffer |-> a, size |-> size])]

\* What get_buffer leaves; the pointer it returns is Stored(c, key)'.buffer.
GetBuffer(c, key, size, fails) ==
  IF MustGrow(c, key, size) THEN Grow(c, key, size, fails)
  ELSE ~fails /\ UNCHANGED <<heap, mmaps, bad>> /\ storage' = [storage EXCEPT ![c] = Put(@, key, Stored(c, key))]

MayFail == setup.fails /\ ~setup.driver

\* A layer takes a scratch buffer of its own.
Scratch(c) ==
  /\ storage[c] # None /\ wrap[c] = None
  /\ \E size \in setup.sizes, host \in setup.hosts, fails \in {FALSE, MayFail} :
       GetBuffer(c, InternalName("scratch", host), size, fails)
  /\ UNCHANGED <<setup, streams, wrap, memblocks>>

\* get_aux_streams: streams are added, never taken back.
GetAuxStreams(c) ==
  /\ storage[c] # None /\ setup.driver
  /\ \E n \in setup.streams : n > streams[c] /\ streams' = [streams EXCEPT ![c] = n]
  /\ UNCHANGED <<setup, heap, mmaps, storage, wrap, memblocks, bad>>

(***************************************************************************)
(* BufferWrapper.  held: memory type -> address; data: address -> value.   *)
(***************************************************************************)
User == 0  \* the caller's buffer, which no allocator of ours owns

Wrap(c) ==
  /\ storage[c] # None /\ wrap[c] = None
  /\ \E type \in setup.types, const \in BOOLEAN, size \in setup.sizes :
       wrap' = [wrap EXCEPT ![c] = [const |-> const, size |-> size, last |-> type, held |-> [t \in {type} |-> User],
                                    data |-> [a \in {User} |-> 0], latest |-> 0, left |-> setup.accesses]]
  /\ UNCHANGED <<setup, heap, mmaps, storage, streams, memblocks, bad>>

\* Where an access of memory type t looks: unregistered memory is taken from the
\* pinned buffer when there is none.
Place(w, t) == IF t = "unregistered" /\ t \notin DOMAIN w.held THEN "host" ELSE t

Allocates(w, t) == Place(w, t) \notin DOMAIN w.held

MustCopy_OnlyNew(w, t, copy) == copy /\ Allocates(w, t)

\* Constant data is copied once, other data whenever the last access was elsewhere.
MustCopy(w, t, copy) == copy /\ (~w.const \/ Allocates(w, t))

\* access_buffer once the buffer at a exists.  What is not copied, the caller
\* overwrites.
Accessed(w, t, a, copy) ==
  LET from == w.held[w.last]
      got == IF MustCopy(w, t, copy) THEN w.data[from]
             ELSE IF a \in DOMAIN w.data THEN w.data[a] ELSE None
  IN  [w EXCEPT !.held = [x \in DOMAIN w.held \cup {t, Place(w, t)} |-> IF x \in {t, Place(w, t)} THEN a ELSE w.held[x]],
                !.data = Put(w.data, a, IF copy THEN got ELSE w.latest + 1),
                !.latest = IF copy THEN @ ELSE @ + 1,
                !.last = t, !.left = @ - 1]

Access(c, t, copy) ==
  LET w == wrap[c]
      key == InternalName("arg", Place(w, t) = "host")
  IN  /\ wrap[c] # None /\ w.left > 0
      /\ w.const => copy
      /\ t = "device" => setup.driver
      /\ IF Allocates(w, t)
         THEN \E fails \in {FALSE, MayFail} :
                /\ GetBuffer(c, key, w.size, fails)
                /\ LET a == storage'[c][key].buffer
                   IN  wrap' = [wrap EXCEPT ![c] = IF a = None THEN None ELSE Accessed(w, t, a, copy)]
         ELSE /\ wrap' = [wrap EXCEPT ![c] = Accessed(w, t, w.held[Place(w, t)], copy)]
              /\ UNCHANGED <<heap, mmaps, storage, bad>>
      /\ UNCHANGED <<setup, streams, memblocks>>

\* The layer writes through the pointer of its last access.
WriteData(c) ==
  /\ wrap[c] # None /\ ~wrap[c].const /\ wrap[c].left > 0
  /\ LET a == wrap[c].held[wrap[c].last]
     IN  wrap' = [wrap EXCEPT ![c] = [@ EXCEPT !.data[a] = wrap[c].latest + 1, !.latest = @ + 1, !.left = @ - 1]]
  /\ UNCHANGED <<setup, heap, mmaps, storage, streams, memblocks, bad>>

\* The operation ends; its buffers stay with the context.
Unwrap(c) ==
  /\ wrap[c] # None
  /\ wrap' = [wrap EXCEPT ![c] = None]
  /\ UNCHANGED <<setup, heap, mmaps, storage, streams, memblocks, bad>>

\* ~ResizeableBuffer frees what was allocated.
ToFree(c) == {<<key, storage[c][key].buffer>> : key \in {k \in DOMAIN storage[c] : storage[c][k].buffer # None}}

\* ~ExecutionContext: the auxiliary streams go, then the buffers.
DestroyContext(c) ==
  LET held == ToFree(c)
  IN  /\ storage[c] # None /\ wrap[c] = None
      /\ bad' = (bad \/ \E h \in held : ~Matches(h[2], HowFrees(h[2], h[1][1] = "H__")))
      /\ heap' = [a \in DOMAIN heap \ {h[2] : h \in held} |-> heap[a]]
      /\ mmaps' = [a \in DOMAIN mmaps \ {h[2] : h \in held} |-> mmaps[a]]
      /\ storage' = [storage EXCEPT ![c] = None]
      /\ streams' = [streams EXCEPT ![c] = 0]
      /\ UNCHANGED <<setup, wrap, memblocks>>

(***************************************************************************)
(* Memory blocks.                                                          *)
(***************************************************************************)
RoundUp(n, page) == CeilDiv(n, page) * page

\* byte_per_gpu, aligned to the large page.
PerGpu(size, n) == RoundUp(CeilDiv(size, n), setup.page)

\* The sizes of NVLMemBlock's allocations: full shards, then what remains.
NvlShards(size, n) ==
  LET per == PerGpu(size, n)
      remains[i \in 0 .. n] == IF i = 0 THEN size ELSE IF remains[i - 1] > per THEN remains[i - 1] - per ELSE 0
      used == {i \in 1 .. n : i = 1 \/ remains[i - 1] > 0}
  IN  [i \in 1 .. Cardinality(used) |-> IF remains[i - 1] > per THEN per ELSE RoundUp(remains[i - 1], setup.page)]

\* resolve_memblock_devices: from def_index on, unless a list is given.
NvlDevices(def_index, override) == IF override # {} THEN override ELSE def_index .. setup.gpus - 1

NewBlock(kind, size) ==
  IF kind = "linear_device" THEN DeviceBlock(size)
  ELSE IF kind = "managed" THEN [by |-> "cudaMallocManaged", bytes |-> size]
  ELSE HostBlock(size)

\* LinearMemBlock, HostMemBlock, ManagedMemBlock.
CreateMemBlock ==
  /\ Cardinality(DOMAIN memblocks) < setup.memblocks
  /\ \E kind \in setup.kinds, size \in setup.sizes :
       LET block == NewBlock(kind, size)
           a == Address(heap)
       IN  /\ heap' = Put(heap, a, block)
           /\ mmaps' = Recorded(a, block, mmaps)
           /\ memblocks' = Put(memblocks, a, [kind |-> kind, size |-> size, shards |-> <<>>])
  /\ UNCHANGED <<setup, storage, streams, wrap, bad>>

\* NVLMemBlock: one allocation on each device used, mapped one after the other.
CreateNvl ==
  /\ Cardinality(DOMAIN memblocks) < setup.memblocks
  /\ \E size \in setup.nvl, first \in 0 .. setup.gpus - 1, override \in {{}, {0, 1}} :
       LET shards == NvlShards(size, Cardinality(NvlDevices(first, override)))
           a == Address(heap)
       IN  /\ override \subseteq 0 .. setup.gpus - 1
           /\ heap' = Put(heap, a, [by |-> "cuMemCreate", bytes |-> FoldSeq(LAMBDA x, y : x + y, 0, shards)])
           /\ memblocks' = Put(memblocks, a, [kind |-> "nvl", size |-> size, shards |-> shards])
  /\ UNCHANGED <<setup, mmaps, storage, streams, wrap, bad>>

HowBlockFrees(a) ==
  LET kind == memblocks[a].kind
  IN  IF kind = "managed" THEN [by |-> "cudaMallocManaged", bytes |-> None]
      ELSE IF kind = "nvl" THEN [by |-> "cuMemCreate", bytes |-> FoldSeq(LAMBDA x, y : x + y, 0, memblocks[a].shards)]
      ELSE HowFrees(a, kind # "linear_device")

DestroyMemBlock ==
  /\ \E a \in DOMAIN memblocks :
       /\ bad' = (bad \/ ~Matches(a, HowBlockFrees(a)))
       /\ heap' = Drop(heap, a)
       /\ mmaps' = Drop(mmaps, a)
       /\ memblocks' = Drop(memblocks, a)
  /\ UNCHANGED <<setup, storage, streams, wrap>>

Init ==
  /\ setup \in Setups
  /\ heap = <<>>
  /\ mmaps = <<>>
  /\ storage = [c \in Contexts |-> IF c \in setup.contexts THEN <<>> ELSE None]
  /\ streams = [c \in Contexts |-> 0]
  /\ wrap = [c \in Contexts |-> None]
  /\ memblocks = <<>>
  /\ bad = FALSE

Next ==
  \/ \E c \in Contexts :
       \/ Scratch(c)
       \/ GetAuxStreams(c)
       \/ Wrap(c)
       \/ \E t \in {"unregistered", "host", "device"}, copy \in BOOLEAN : Access(c, t, copy)
       \/ WriteData(c)
       \/ Unwrap(c)
       \/ DestroyContext(c)
  \/ CreateMemBlock
  \/ CreateNvl
  \/ DestroyMemBlock

TypeOK ==
  /\ DOMAIN heap \subseteq Blocks
  /\ DOMAIN mmaps \subseteq DOMAIN heap
  /\ \A c \in Contexts : wrap[c] # None => wrap[c].last \in DOMAIN wrap[c].held

\* Each block is given back once and the way it was obtained: malloc'ed, pinned,
\* mapped with the size the map recorded, device, managed.
FreesMatch == ~bad

Owned == {b \in UNION {{storage[c][k].buffer : k \in DOMAIN storage[c]} : c \in {d \in Contexts : storage[d] # None}} :
            b # None} \cup DOMAIN memblocks

\* A scratch buffer is live and holds the size it is known by, two contexts never
\* share one, and what a wrapper handed out is live and large enough for it.
BuffersLive ==
  /\ \A c \in Contexts : storage[c] # None => \A k \in DOMAIN storage[c] :
       LET b == storage[c][k]
       IN  b.buffer # None => b.buffer \in DOMAIN heap /\ heap[b.buffer].bytes >= b.size
  /\ \A c \in Contexts : wrap[c] # None => \A t \in DOMAIN wrap[c].held :
       LET a == wrap[c].held[t]
       IN  a # User => a \in DOMAIN heap /\ heap[a].bytes >= wrap[c].size

\* The buffer a layer last asked for with its contents holds what was last
\* written, wherever the accesses before it were.
SeesLatest == \A c \in Contexts : wrap[c] # None => wrap[c].data[wrap[c].held[wrap[c].last]] = wrap[c].latest

\* Every live block has an owner: a context's buffer or a memory block.  When all
\* are destroyed nothing is left.
NoLostBlock == DOMAIN heap \subseteq Owned /\ \A a \in DOMAIN heap : heap[a].by = "mmap" <=> a \in DOMAIN mmaps

\* The shards of an NVLink block are whole pages, none empty, and together hold
\* the size asked for with less than a page per device to spare.
NvlCovers ==
  \A a \in DOMAIN memblocks : memblocks[a].kind = "nvl" =>
    LET shards == memblocks[a].shards
        total == FoldSeq(LAMBDA x, y : x + y, 0, shards)
    IN  /\ \A i \in DOMAIN shards : shards[i] > 0 /\ shards[i] % setup.page = 0
        /\ total >= memblocks[a].size /\ total < memblocks[a].size + setup.page
=============================================================================

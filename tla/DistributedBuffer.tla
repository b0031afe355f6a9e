------------------------ MODULE DistributedBuffer ------------------------
(***************************************************************************)
(* CUDADistributedBuffer: the ranks of a job build one buffer, sharded     *)
(* over the ranks that have a device and mapped by all.  On one host the   *)
(* root creates every shard and the others copy its file descriptors; on   *)
(* several each rank creates its shard and exports a fabric handle.  The   *)
(* ranks meet in collectives: an all-gather or a barrier returns when all  *)
(* have entered it, a broadcast when the root has.                         *)
(***************************************************************************)
EXTENDS Integers, Sequences, FiniteSets

CONSTANTS Ranks,    \* 0 .. world_size - 1; 0 is the root
          Nothing,  \* no value
          Setups    \* [env, host, devices, device_count, size, granularity, sys, imex]

VARIABLES setup,    \* the job of this behaviour
          rank_pc,  \* where each rank is in the constructor or destructor
          entered,  \* the collectives each rank has entered, with what it sent
          shards,   \* all_devices_: per rank, the ranks that own a shard
          refs,     \* references to physical memory: <<kind, holder, shard>>
          views     \* buffer_: where each rank mapped the shards, Nothing before it reserved

rankVars == <<setup, rank_pc, entered, shards, refs, views>>

Root == 0

WorldSize == Cardinality(Ranks)

(***************************************************************************)
(* The environments.                                                       *)
(***************************************************************************)
\* MPIEnv compares its own host name with every rank's.
MpiSingleHost(r) == \A i \in Ranks : setup.host[i] = setup.host[r]

\* TorchDistEnv counts the distinct ranks it gathered.
TorchSingleHost(r) == Cardinality({i : i \in Ranks}) = WorldSize

SingleHost(r) == IF setup.env = "mpi" THEN MpiSingleHost(r) ELSE TorchSingleHost(r)

\* The ranks before r on r's host.
LocalRank(r) == Cardinality({i \in Ranks : i < r /\ setup.host[i] = setup.host[r]})

\* The device given for the rank, -1 where none is; with no list, by local rank.
LocalDevice(r) ==
  IF setup.devices = <<>> THEN LocalRank(r) % setup.device_count
  ELSE IF r \in DOMAIN setup.devices THEN setup.devices[r] ELSE -1

(***************************************************************************)
(* Collectives.                                                            *)
(***************************************************************************)
Enter(r, op, sent) == entered' = [entered EXCEPT ![r] = Append(@, [op |-> op, sent |-> sent])]

\* The collective r is in: the last it entered.
Current(r) == Len(entered[r])

AllEntered(r) == \A s \in Ranks : Len(entered[s]) >= Current(r)

RootEntered(r) == Len(entered[Root]) >= Current(r)

\* What rank s sent to the collective r is in.
Sent(r, s) == entered[s][Current(r)].sent

At(r, where) == rank_pc[r] = where

Proceed(r, where) == rank_pc' = [rank_pc EXCEPT ![r] = where]

Throws(r) == Proceed(r, "threw") /\ UNCHANGED <<setup, entered, shards, refs, views>>

(***************************************************************************)
(* Sizes.                                                                  *)
(***************************************************************************)
\* get_device_granularity: the same for every device, else the constructor throws.
Granularity == setup.granularity

RoundUp(n, multiple) == (n + multiple - 1) - ((n + multiple - 1) % multiple)

\* total_size_: every shard is a multiple of the granularity.
TotalSize(shard_count) == RoundUp(setup.size, shard_count * Granularity)

ShardSize(shard_count) == TotalSize(shard_count) \div shard_count

\* The ranks with a device, from what all_gather collected.
Owners(gathered) == {i \in Ranks : gathered[i] >= 0}

(***************************************************************************)
(* The constructor.                                                        *)
(***************************************************************************)
\* Memory of several hosts is device memory, through an IMEX channel.
check_imex == setup.imex

\* collect_devices: every rank sends its device.
GatherDevices(r) ==
  /\ At(r, "start")
  /\ IF ~SingleHost(r) /\ (setup.sys \/ ~check_imex)
     THEN Throws(r)
     ELSE /\ Enter(r, "all_gather", LocalDevice(r))
          /\ Proceed(r, "devices")
          /\ UNCHANGED <<setup, shards, refs, views>>

Create(r, kinds, owners) == refs \cup {<<kind, r, i>> : kind \in kinds, i \in owners}

Drop(r, kinds) == refs \ {<<kind, r, i>> : kind \in kinds, i \in Ranks}

\* init_single_host up to the first broadcast: the root creates and exports all.
DevicesGathered(r) ==
  LET owners == Owners([i \in Ranks |-> Sent(r, i)])
  IN  /\ At(r, "devices") /\ AllEntered(r)
      /\ IF owners = {} THEN Throws(r)
         ELSE /\ shards' = [shards EXCEPT ![r] = owners]
              /\ IF SingleHost(r)
                 THEN /\ refs' = IF r = Root THEN Create(r, {"handle", "fd"}, owners) ELSE refs
                      /\ Enter(r, "broadcast", Nothing)
                      /\ Proceed(r, "fds")
                 ELSE /\ refs' = IF LocalDevice(r) >= 0 THEN Create(r, {"own"}, {r}) ELSE refs
                      /\ Enter(r, "all_gather", Nothing)
                      /\ Proceed(r, "fabric")
              /\ UNCHANGED <<setup, views>>

\* The descriptors' numbers are known; the root's pid is broadcast next.
FdsKnown(r) ==
  /\ At(r, "fds") /\ RootEntered(r)
  /\ Enter(r, "broadcast", Nothing)
  /\ Proceed(r, IF r = Root THEN "import" ELSE "pid")
  /\ UNCHANGED <<setup, shards, refs, views>>

\* pidfd_open and pidfd_getfd: the root's process must be of this host and its
\* descriptors still open.
CopyFds(r) ==
  /\ At(r, "pid") /\ RootEntered(r)
  /\ IF setup.host[r] # setup.host[Root] \/ \E i \in shards[r] : <<"fd", Root, i>> \notin refs
     THEN Throws(r)
     ELSE /\ refs' = Create(r, {"fd"}, shards[r])
          /\ Proceed(r, "import")
          /\ UNCHANGED <<setup, entered, shards, views>>

\* shard_id: the shards follow each other in rank order, at multiples of shard_size_.
ShardIds(owners) == [i \in owners |-> Cardinality({j \in owners : j < i})]

\* Reserve, import each descriptor, map it, release the imported handle.
ImportAndMap(r) ==
  /\ At(r, "import")
  /\ views' = [views EXCEPT ![r] = ShardIds(shards[r])]
  /\ refs' = Create(r, {"map"}, shards[r])
  /\ Enter(r, "barrier", Nothing)
  /\ Proceed(r, "mapped")
  /\ UNCHANGED <<setup, shards>>

BeforeClose_Unordered(r) == TRUE

\* The barrier before the descriptors are closed.
BeforeClose(r) == AllEntered(r)

\* "Now we can close all shareable handles", then the constructor's last barrier.
CloseFds(r) ==
  /\ At(r, "mapped") /\ BeforeClose(r)
  /\ refs' = Drop(r, {"fd"})
  /\ Enter(r, "barrier", Nothing)
  /\ Proceed(r, "built")
  /\ UNCHANGED <<setup, shards, views>>

\* init_multi_host: import every rank's fabric handle, keep it, reserve and map.
ImportFabric(r) ==
  /\ At(r, "fabric") /\ AllEntered(r)
  /\ views' = [views EXCEPT ![r] = ShardIds(shards[r])]
  /\ refs' = Create(r, {"handle", "map"}, shards[r])
  /\ Enter(r, "barrier", Nothing)
  /\ Proceed(r, "built")
  /\ UNCHANGED <<setup, shards>>

Built(r) ==
  /\ At(r, "built") /\ AllEntered(r)
  /\ Proceed(r, "ready")
  /\ UNCHANGED <<setup, entered, shards, refs, views>>

(***************************************************************************)
(* The destructor.                                                         *)
(***************************************************************************)
BeginDestroy(r) ==
  /\ At(r, "ready")
  /\ Enter(r, "barrier", Nothing)
  /\ Proceed(r, "leaving")
  /\ UNCHANGED <<setup, shards, refs, views>>

\* Unmap, release the handles kept and, of several hosts, the rank's own shard.
Released(r) == {"map", "handle"} \cup IF ~SingleHost(r) /\ LocalDevice(r) >= 0 THEN {"own"} ELSE {}

Release(r) ==
  /\ At(r, "leaving") /\ AllEntered(r)
  /\ refs' = Drop(r, Released(r))
  /\ Enter(r, "barrier", Nothing)
  /\ Proceed(r, "released")
  /\ UNCHANGED <<setup, shards, views>>

\* cuMemAddressFree.
FreeAddresses(r) ==
  /\ At(r, "released") /\ AllEntered(r)
  /\ views' = [views EXCEPT ![r] = Nothing]
  /\ Proceed(r, "gone")
  /\ UNCHANGED <<setup, entered, shards, refs>>

RanksInit ==
  /\ setup \in Setups
  /\ rank_pc = [r \in Ranks |-> "start"]
  /\ entered = [r \in Ranks |-> <<>>]
  /\ shards = [r \in Ranks |-> Nothing]
  /\ refs = {}
  /\ views = [r \in Ranks |-> Nothing]

Rank(r) ==
  \/ GatherDevices(r)
  \/ DevicesGathered(r)
  \/ FdsKnown(r)
  \/ CopyFds(r)
  \/ ImportAndMap(r)
  \/ CloseFds(r)
  \/ ImportFabric(r)
  \/ Built(r)
  \/ BeginDestroy(r)
  \/ Release(r)
  \/ FreeAddresses(r)

RanksNext == \E r \in Ranks : Rank(r)

RanksSpec == RanksInit /\ [][RanksNext]_rankVars

-----------------------------------------------------------------------------
\* The ranks that own a shard.
Devices == {i \in Ranks : LocalDevice(i) >= 0}

\* A job that can have a buffer: some rank has a device; on several hosts, which only
\* MPI tells apart, the memory is the devices' and there is an IMEX channel.
JobOK ==
  /\ setup.size \in Nat /\ setup.granularity \in Nat \ {0}
  /\ Devices # {}
  /\ \/ \A r \in Ranks : setup.host[r] = setup.host[Root]
     \/ setup.env = "mpi" /\ ~setup.sys /\ setup.imex

RanksTypeOK ==
  /\ setup \in Setups
  /\ refs \subseteq {"handle", "own", "fd", "map"} \X Ranks \X Ranks
  /\ \A r \in Ranks : rank_pc[r] \in {"start", "devices", "fds", "pid", "import", "mapped", "fabric", "built", "ready",
                                 "leaving", "released", "gone", "threw"}

\* The ranks enter the same collectives in the same order: none waits in one that
\* another will never enter.
CollectivesMatch ==
  \A r, s \in Ranks : \A k \in 1 .. Len(entered[r]) :
    k <= Len(entered[s]) => entered[r][k].op = entered[s][k].op

\* A row has one address and one place on every rank that holds the buffer: all
\* map the same shards at the same offsets, one behind the other without a gap; the
\* shards are aligned and together they hold the size asked for.
SameBuffer ==
  \A r \in Ranks : At(r, "ready") =>
    LET n == Cardinality(Devices)
    IN  /\ \A s \in Ranks : At(s, "ready") => views[r] = views[s]
        /\ views[r] \in [Devices -> 0 .. n - 1]
        /\ \A k \in 0 .. n - 1 : \E i \in Devices : views[r][i] = k
        /\ ShardSize(n) % Granularity = 0
        /\ ShardSize(n) * n >= setup.size

\* No rank's constructor throws where nothing failed and every rank has its
\* device: a shard's descriptor is copied before the root closes it.
NoRankThrows == \A r \in Ranks : ~At(r, "threw")

\* When the last rank has destroyed its buffer no reference to a shard is left,
\* through a handle, a mapping or a descriptor: the memory of every GPU is free.
AllReleased == (\A r \in Ranks : At(r, "gone")) => refs = {}
=============================================================================

----------------------------- MODULE MCStructures -----------------------------
(***************************************************************************)
(* The data structures of the kernel side by side: the heaps of MCHeaps,   *)
(* the file system of MCFiles, the table of MCTables, the cached blocks of *)
(* a block group and the tree under Utils::map.  As in MCHeaps each is     *)
(* modelled on its own, and a behaviour is about one of them, the part.    *)
(***************************************************************************)
EXTENDS BlockCache, MCHeaps, MCFiles, MCTables, TLC

CONSTANTS Keys, Erases                                         \* RBTree

VARIABLES tree, content, erased, thin

tree_vars == <<tree, content, erased, thin>>

maps == INSTANCE RBTree

Part == {"cache", "kernel", "slab", "buddy", "paged", "maps", "hashed",
         "files", "fds"}

StructuresInit ==
  /\ part \in Part
  /\ Init /\ (part = "cache" \/ \A b, c \in Block : disk[b] = disk[c])
  /\ HeapsInit /\ FilesInit /\ TablesInit /\ maps!Init

\* What a step of one part leaves alone.
Others(p) ==
  /\ p # "cache" => UNCHANGED vars
  /\ OtherHeaps(p) /\ OtherFiles(p) /\ OtherTables(p)
  /\ p # "maps" => UNCHANGED tree_vars

StructuresNext ==
  /\ UNCHANGED part
  /\ \/ part = "cache" /\ Next
     \/ HeapsStep \/ FilesStep \/ TablesStep
     \/ part = "maps" /\ maps!Next
  /\ Others(part)

StructuresSpec ==
  StructuresInit /\ [][StructuresNext]_<<part, vars, heaps_vars, files_vars,
    tree_vars, hash_vars>>

\* Blocks and values of the cache and threads of the heap are only compared.
Symmetry ==
  Permutations(Block) \cup Permutations(Value) \cup Permutations(Thread)

-----------------------------------------------------------------------------
\* The type invariants.
StructuresTypeOK ==
  /\ part = "cache" => TypeOK
  /\ part = "kernel" => kernel!TypeOK
  /\ part = "slab" => slab!TypeOK
  /\ part = "buddy" => buddy!TypeOK
  /\ part = "paged" => paged!TypeOK
  /\ part = "maps" => maps!TypeOK
  /\ part = "hashed" => hashed!TypeOK
  /\ part = "files" => files!TypeOK
  /\ part = "fds" => fds!TypeOK

\* Maps (findCreate, create, deleteNode): as long as no root and no node with
\* two children was erased, the tree is the set of its keys, in order.
TreeIsSet == part = "maps" => maps!TreeIsSet

\* Maps (rebalance): as long as nothing was erased, the tree is balanced.
Balanced == part = "maps" => maps!Balanced
=============================================================================

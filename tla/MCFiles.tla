-------------------------------- MODULE MCFiles --------------------------------
(***************************************************************************)
(* What the file system keeps, side by side: the disk of EXT2 and a table  *)
(* of descriptors.  A descriptor names an open file by an address that     *)
(* neither looks at, so each is modelled on its own: a behaviour is about  *)
(* one of them, the part, and each property looks at its own part.         *)
(***************************************************************************)
EXTENDS Integers, Parts

CONSTANTS
  Groups, BlocksPerGroup, NodesPerGroup, Fixed, GroupFixed, Reserved,
  Direct, Ptrs, BlockSize, Inline, NameLen, WriteEnd, TargetLen,
  TargetWord,                                                  \* Ext2
  MaxOpen                                                      \* Descriptors

VARIABLES
  volume,
  size, used, descriptors, open

fds_vars == <<size, used, descriptors, open>>
files_vars == <<volume, fds_vars>>

files == INSTANCE Ext2 WITH disk <- volume
fds == INSTANCE Descriptors

ASSUME FilesAssumption == files!Ext2Assumption

FilesInit == files!Init /\ fds!Init

FilesStep ==
  \/ part = "files" /\ files!Next
  \/ part = "fds" /\ fds!Next

\* What a step of one part leaves alone.
OtherFiles(p) ==
  /\ p # "files" => UNCHANGED volume
  /\ p # "fds" => UNCHANGED fds_vars

FilesNext == UNCHANGED part /\ FilesStep /\ OtherFiles(part)

FilesSpec == FilesInit /\ [][FilesNext]_<<part, files_vars>>

-----------------------------------------------------------------------------
\* Directories (create_file, remove): every inode in use has one name and every
\* name an inode, also after calls that fail half way, and the entries tile
\* their blocks, so that no walk leaves one, until the removal of a short link
\* releases a block in use whose number its characters are.
DirectoriesSound == part = "files" => files!NamedOnce /\ files!DirTiles

\* Groups (reserve_block, release_block, reserve_inode, release_node): the
\* counts in the descriptors follow the bitmaps, so no group with room is skipped,
\* also when a short link's characters are released as a block number.
CountsTrack == part = "files" => files!CountsTrack

\* Inodes (get_file_block_indexes, add_block_to_node): block i of a file is the
\* i-th added to it, until a short link's characters are released as the number
\* of a block in use.
BlocksInOrder == part = "files" => files!BlocksInOrder

\* Blocks (expand_to, release_reserved_blocks): each block in use has one owner,
\* and none is lost when a write runs out of blocks half way, until a short link's
\* characters are released as the number of a block in use.
BlocksOwned == part = "files" => files!BlocksOwned

\* Descriptors (map, unmap, expand): the queue has the free descriptors, each
\* once, the smallest on top.
LowestFree == part = "fds" => fds!LowestFree
=============================================================================

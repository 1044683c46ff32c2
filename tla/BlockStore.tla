----------------------------- MODULE BlockStore -----------------------------
(***************************************************************************)
(* What the block cache of a file system promises: a block holds what was  *)
(* last written to it through whichever handle; what goes to the disk is   *)
(* the newest content of a block; and the file system is unmounted only    *)
(* when the disk has everything.                                           *)
(***************************************************************************)
CONSTANTS Block, Value

VARIABLES content, disk, mounted
vars == <<content, disk, mounted>>

Init ==
  /\ disk \in [Block -> Value]
  /\ content = disk
  /\ mounted = TRUE

Put(b, v) ==
  /\ mounted
  /\ content' = [content EXCEPT ![b] = v]
  /\ UNCHANGED <<disk, mounted>>

Flush(b) ==
  /\ mounted
  /\ disk' = [disk EXCEPT ![b] = content[b]]
  /\ UNCHANGED <<content, mounted>>

Unmount ==
  /\ mounted /\ disk = content
  /\ mounted' = FALSE
  /\ UNCHANGED <<content, disk>>

Mount == ~mounted /\ mounted' = TRUE /\ UNCHANGED <<content, disk>>

Next ==
  \/ \E b \in Block, v \in Value : Put(b, v)
  \/ \E b \in Block : Flush(b)
  \/ Unmount
  \/ Mount

Spec == Init /\ [][Next]_vars
=============================================================================

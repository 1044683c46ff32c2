--------------------------------- MODULE Parts ---------------------------------
(***************************************************************************)
(* Components of the kernel that do not touch one another's state are      *)
(* modelled side by side: a behaviour is about one of them, its part.      *)
(***************************************************************************)
VARIABLE part
=============================================================================

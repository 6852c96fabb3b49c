------------------------------ MODULE MCRequest ------------------------------
(* Two web threads of one process and a worker thread; a host of a tenant, of *)
(* one whose shard alias left DATABASES or of the management site, and a host *)
(* nobody owns.                                                               *)
EXTENDS Request, TLC

CONSTANTS t1, t2, k1, p1, x, y, z, hk, hu

MCProcessOf == [t \in Threads |-> p1]
MCHostTenants == [Known -> {x, z, Public}]
MCHome == x :> "s1" @@ y :> "s2" @@ z :> "gone"
MCDepths ==
  {t1 :> 1 @@ t2 :> 1 @@ k1 :> 0,      \* two requests
   t1 :> 3 @@ t2 :> 0 @@ k1 :> 0,      \* a view that nests contexts
   t1 :> 0 @@ t2 :> 0 @@ k1 :> 3}      \* a task that does
MCOverrides == {None, "default", "s1"}
=============================================================================

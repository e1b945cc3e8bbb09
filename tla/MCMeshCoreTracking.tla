------------------------ MODULE MCMeshCoreTracking -------------------------
(* MeshCoreTracking on small instances.                                    *)
EXTENDS MeshCoreTracking

Sent(r) == [route |-> r, sent |-> TRUE]

(* A request that timed out may have taken any route or none that is known *)
(* of.  A staging that fails stands for the other errors.                  *)
TimedOut == [error : {"timeout"}, fix : {"none"},
             by : {Sent(r) : r \in Routes \cup {"flood"}} \cup {NoEvidence}]
Lost == [error : Unavailable, fix : {"none"}, by : {NoEvidence}]
Read(fixes, routes) == [error : {None}, fix : fixes, by : {Sent(r) : r \in routes}]

AllAnswers == TimedOut \cup Lost \cup Read(Fixes, Routes) \cup Read({"none"}, {"flood"})
FewAnswers == Lost \cup Read(Fixes, Routes)
=============================================================================

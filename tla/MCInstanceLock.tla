--------------------------- MODULE MCInstanceLock ---------------------------
EXTENDS InstanceLock, TLC

CONSTANTS o1, o2, o3, o4, p1, p2, p3, h1, h2

\* Two calls of open() in one process, one more process on the same host, and
\* one on another host that shares the directory.
MCProcessOf == o1 :> p1 @@ o2 :> p1 @@ o3 :> p2 @@ o4 :> p3
MCHostOf    == p1 :> h1 @@ p2 :> h1 @@ p3 :> h2
=============================================================================

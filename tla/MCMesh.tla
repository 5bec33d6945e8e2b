------------------------------- MODULE MCMesh -------------------------------
(* Small instances of MeshWorkers. *)
EXTENDS MeshWorkers, TLC

CONSTANTS n1, n2, n3, n4, p1, p2, o1, o2, orders, service, users

\* src/orders contains src/orders/service.py; src/users is apart.
MCRoots == {orders, service, users}
MCOverlapping == {<<r, r>> : r \in MCRoots} \cup {<<orders, service>>, <<service, orders>>}

\* n1 plans; n2 and n3 write overlapping scopes; n4 reads what n2 wrote.
MCWriteRoots == (n1 :> {}) @@ (n2 :> {orders, users}) @@ (n3 :> {service}) @@ (n4 :> {})
MCRank == (n1 :> 1) @@ (n2 :> 2) @@ (n3 :> 3) @@ (n4 :> 4)
MCBatches == {(n1 :> {}) @@ (n2 :> {n1}) @@ (n4 :> {n2}), (n3 :> {})}
MCWorkerId == (p1 :> o1) @@ (p2 :> o2)
=============================================================================

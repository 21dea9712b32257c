------------------------- MODULE MCRequestLifecycle -------------------------
(***************************************************************************)
(* A pool and a session from it, and a repository on the session: three    *)
(* generators in a chain.  A route depends on the session, and maybe on a  *)
(* user; the guard that may be added to it depends on the user.            *)
(*                                                                         *)
(* The applications arrange a mount, a router to include and three         *)
(* endpoints, two of them with one template, in every possible way.        *)
(***************************************************************************)
EXTENDS RequestLifecycle

CONSTANTS pool, session, repo, user, guard, mount, router, mounted, updated, included

MCDeps == (session :> <<pool>>) @@ (repo :> <<session>>) @@ (user :> <<session>>)
          @@ (pool :> <<>>) @@ (guard :> <<user>>)
MCRouteDeps == (mounted :> <<session, user>>) @@ (updated :> <<user>>)
               @@ (included :> <<session>>)

MCTemplate == (mount :> <<"m">>) @@ (router :> <<"r">>)
              @@ (mounted :> <<"x">>) @@ (updated :> <<"x">>)
              @@ (included :> <<Param, Param>>)
MCMethods == (mounted :> {"GET"}) @@ (updated :> {"PUT"}) @@ (included :> {"POST"})

\* Every way to arrange the five routes in the three lists, none of which holds itself.
Arranged(order, i, j) ==
    (Root :> SubSeq(order, 1, i)) @@ (mount :> SubSeq(order, i + 1, j))
    @@ (router :> SubSeq(order, j + 1, Len(order)))

MCApps ==
    LET orders == SetToSeqs({mount, router, mounted, updated, included})
        all == UNION {{Arranged(order, i, j) : j \in i..5} : order \in orders, i \in 0..5}
        Holds(a, n, m) == m \in Range(a[n])
    IN  {a \in all :
            /\ ~Holds(a, mount, mount) /\ ~Holds(a, router, router)
            /\ ~(Holds(a, mount, router) /\ Holds(a, router, mount))}

MCRequests == {[path |-> path, method |-> method] :
    path \in {<<"x">>, <<"m", "x">>, <<"m", "y">>, <<"r", "x">>, <<"r", "m">>, <<"m", "r", "x">>,
              <<"r", "m", "x">>, <<"r", "m", "y">>},
    method \in {"GET", "PUT", "POST"}}

\* Those that are followed: in a router that has the mount in front of an endpoint that takes
\* its paths or behind it, a request that the mount has an endpoint for, one that the router
\* has an endpoint for, and one that ends in the mount with no endpoint.
InRouter(routes) ==
    (Root :> <<router>>) @@ (mount :> <<updated, mounted>>) @@ (router :> routes)
To(last, method) == [path |-> <<"r", "m", last>>, method |-> method]

MCFollowed ==
    {<<InRouter(<<included, mount>>), To("x", "GET")>>,
     <<InRouter(<<included, mount>>), To("x", "POST")>>,
     <<InRouter(<<mount, included>>), To("y", "POST")>>}
=============================================================================

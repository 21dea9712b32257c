------------------------------- MODULE Routes -------------------------------
(***************************************************************************)
(* The walks of reflect/_routes.py over an application's routes: what is   *)
(* listed, and which route a request would get, next to what Starlette's   *)
(* router does with it.                                                    *)
(*                                                                         *)
(* An application maps Root and every mount and included router to its     *)
(* routes in order.  A path is a sequence of segments; Param in a template *)
(* is a parameter.                                                         *)
(***************************************************************************)
EXTENDS Naturals, Sequences, SequencesExt, FiniteSetsExt

CONSTANTS Root, Mounts, Includes, Endpoints, Segments, Param,
    Template,   \* the path of each mount, included router and endpoint
    Methods     \* the methods of each endpoint

Containers == {Root} \cup Mounts \cup Includes

ASSUME RoutesAssumption ==
    /\ Param \in Segments
    /\ Template \in [Mounts \cup Includes \cup Endpoints -> Seq(Segments)]
    /\ Containers \cap Endpoints = {}

NoRoute == [path |-> <<>>, route |-> Root]

Prefixed(prefix, at) == [at EXCEPT !.path = prefix \o @]
Under(prefix, listing) == [i \in DOMAIN listing |-> Prefixed(prefix, listing[i])]

\* fastapi.routing.iter_route_contexts (external): included routers are expanded.
Contexts(app) ==
    LET contexts[n \in Containers] ==
            LET expanded(r) == IF r \in Includes THEN Under(Template[r], contexts[r])
                               ELSE <<[path |-> Template[r], route |-> r]>>
            IN  FlattenSeq([i \in DOMAIN app[n] |-> expanded(app[n][i])])
    IN  contexts

\* Bug: what a mount holds is listed under its own path only.
InsideUnprefixed(at, listing) == <<at>> \o listing

Inside(at, listing) == <<at>> \o Under(at.path, listing)

\* iter_routes(): every route, and after a mount what it holds.
IterRoutes(app) ==
    LET listed[n \in Containers] ==
            LET contexts == Contexts(app)[n]
                inside(at) == Inside(at, IF at.route \in Mounts THEN listed[at.route] ELSE <<>>)
            IN  FlattenSeq([i \in DOMAIN contexts |-> inside(contexts[i])])
    IN  listed[Root]

IterApiRoutes(app) ==
    LET listed == IterRoutes(app)
    IN  FlattenSeq([i \in DOMAIN listed |->
            IF listed[i].route \in Endpoints THEN <<listed[i]>> ELSE <<>>])

\* iter_routes_where(): an entry for each method of the routes that are wanted.
IterRoutesWhere(app, wanted) ==
    LET found == {e \in Range(IterApiRoutes(app)) : e.route \in wanted}
    IN  UNION {{<<method, e>> : method \in Methods[e.route]} : e \in found}

\* Bug: any method will do.
FindRouteByPath(app, method, path) ==
    LET listed == IterApiRoutes(app)
        found == {i \in DOMAIN listed : listed[i].path = path}
    IN  IF found = {} THEN NoRoute ELSE listed[Min(found)]

\* find_route() by method and path; NoRoute stands for the LookupError.
FindRoute(app, method, path) ==
    LET listed == IterApiRoutes(app)
        found == {i \in DOMAIN listed : /\ method \in Methods[listed[i].route]
                                       /\ listed[i].path = path}
    IN  IF found = {} THEN NoRoute ELSE listed[Min(found)]

-----------------------------------------------------------------------------
\* Starlette's Mount.matches and Route.matches (external)

Starts(template, path) ==
    /\ Len(template) <= Len(path)
    /\ \A i \in DOMAIN template : template[i] \in {path[i], Param}
Rest(template, path) == SubSeq(path, Len(template) + 1, Len(path))

Enters(at, path) == at.route \in Mounts /\ Starts(at.path, path)
Fits(at, path) == at.route \in Endpoints /\ Starts(at.path, path) /\ Len(at.path) = Len(path)
Full(at, path, method) == Fits(at, path) /\ method \in Methods[at.route]

\* The first partial match: the path of an endpoint with another method.
Partial(contexts, path) ==
    LET fits == {i \in DOMAIN contexts : Fits(contexts[i], path)}
    IN  IF fits = {} THEN NoRoute ELSE contexts[Min(fits)]

\* Bug: a route that matches in part is taken before a later one that matches fully.
MatchRoutePartial(app, request) ==
    LET match[n \in Containers] == [path \in Seq(Segments) |->
            LET contexts == Contexts(app)[n]
                inner(at) == match[at.route][Rest(at.path, path)]
                found(at) == \/ Fits(at, path)
                             \/ Enters(at, path) /\ inner(at) # NoRoute
                hits == {i \in DOMAIN contexts : found(contexts[i])}
                at == contexts[Min(hits)]
            IN  IF hits = {} THEN NoRoute
                ELSE IF at.route \in Mounts THEN Prefixed(at.path, inner(at))
                ELSE at]
    IN  match[Root][request.path]

\* match_route(): the first endpoint that matches fully or mount that holds any match; a
\* mount without one is passed over.
MatchRoute(app, request) ==
    LET match[n \in Containers] == [path \in Seq(Segments) |->
            LET contexts == Contexts(app)[n]
                inner(at) == match[at.route][Rest(at.path, path)]
                found(at) == \/ Full(at, path, request.method)
                             \/ Enters(at, path) /\ inner(at) # NoRoute
                hits == {i \in DOMAIN contexts : found(contexts[i])}
                at == contexts[Min(hits)]
            IN  IF hits = {} THEN Partial(contexts, path)
                ELSE IF at.route \in Mounts THEN Prefixed(at.path, inner(at))
                ELSE at]
    IN  match[Root][request.path]

\* Router.app (external): the first endpoint or mount that matches fully, for better or
\* for worse.
Dispatch(app, request) ==
    LET handle[n \in Containers] == [path \in Seq(Segments) |->
            LET contexts == Contexts(app)[n]
                hits == {i \in DOMAIN contexts : \/ Full(contexts[i], path, request.method)
                                                 \/ Enters(contexts[i], path)}
                at == contexts[Min(hits)]
            IN  IF hits = {} THEN Partial(contexts, path).route
                ELSE IF at.route \in Mounts THEN handle[at.route][Rest(at.path, path)]
                ELSE at.route]
    IN  handle[Root][request.path]
=============================================================================

------------------------------- MODULE Routing -------------------------------
(***************************************************************************)
(* The route table (routing/table.rs): compiled from the routes of a       *)
(* config, in their order, and searched for each request.  The routes come *)
(* one at a time, so that a behaviour is a config being written and every  *)
(* state a config the table is compiled from.                              *)
(***************************************************************************)
EXTENDS HostNames

LOCAL INSTANCE SequencesExt
LOCAL INSTANCE FiniteSetsExt

CONSTANTS
  RouteListeners, RouteHosts, RoutePaths,   \* what routes are made of
  AskedHosts, AskedPaths,                   \* what requests ask for
  MaxRoutes,
  NoRoute

VARIABLES routes   \* config.routes

Route == [listener : RouteListeners, host : RouteHosts, path_prefix : RoutePaths]

-----------------------------------------------------------------------------
(* A sort that leaves the routes in their order.                           *)
SortRoutesAsWritten(indices) == SetToSortSeq(indices, <)

(* sort_routes: the longest prefix first, else in their order.             *)
SortRoutes(indices) ==
  LET Longer(i, j) ==
        LET a == Length(routes[i].path_prefix)
            b == Length(routes[j].path_prefix)
        IN a > b \/ (a = b /\ i < j)
  IN SetToSortSeq(indices, Longer)

(* insert_route and compile, for one listener: the positions of the routes *)
(* of each exact host, of each wildcard and of any host.                   *)
Compile(listener) ==
  LET mine == {i \in DOMAIN routes : routes[i].listener = listener}
      key(i) == ToLower(routes[i].host)
      keys == {key(i) : i \in mine}
      Of(k) == SortRoutes({i \in mine : key(i) = k})
      First(k) == Min({i \in mine : key(i) = k})
      Before(k, l) == \/ Length(k) > Length(l)
                      \/ Length(k) = Length(l) /\ First(k) < First(l)
      wildcards == SetToSortSeq({k \in keys : IsWildcard(k)}, Before)
  IN [exact |-> [k \in {k \in keys : k # AnyHost /\ ~ IsWildcard(k)} |-> Of(k)],
      wildcard |-> [w \in DOMAIN wildcards |->
                      [pattern |-> wildcards[w], routes |-> Of(wildcards[w])]],
      any |-> Of(AnyHost)]

(* match_path: the first that matches, as a sequence of none or one.       *)
MatchPath(indices, path) ==
  LET found == SelectSeq(indices,
                         LAMBDA i : PathPrefixMatches(routes[i].path_prefix, path))
  IN IF found = <<>> THEN <<>> ELSE <<found[1]>>

(* match_request: the exact host's routes, then those of the wildcards the *)
(* host matches, then those of any host.                                   *)
MatchRequest(table, host, path) ==
  LET h == ToLower(host)
      exact == IF h \in DOMAIN table.exact THEN MatchPath(table.exact[h], path) ELSE <<>>
      wild == [w \in DOMAIN table.wildcard |->
                 IF HostMatches(table.wildcard[w].pattern, h)
                 THEN MatchPath(table.wildcard[w].routes, path) ELSE <<>>]
      found == exact \o FlattenSeq(wild) \o MatchPath(table.any, path)
  IN IF found = <<>> THEN NoRoute ELSE found[1]

Init == routes = <<>>

AddRoute(route) == Len(routes) < MaxRoutes /\ routes' = Append(routes, route)

Next == \E route \in Route : AddRoute(route)

-----------------------------------------------------------------------------
(* The most specific of the routes that match, by the documentation of     *)
(* RouteTable: exact hosts before wildcards before any host, then the      *)
(* prefix that is under the others', then the first in the config.         *)
MostSpecific(listener, host, path) ==
  LET matching == {i \in DOMAIN routes :
                     /\ routes[i].listener = listener
                     /\ HostMatches(ToLower(routes[i].host), ToLower(host))
                     /\ PathPrefixMatches(routes[i].path_prefix, path)}
      class(i) == CASE routes[i].host = AnyHost -> 2
                    [] IsWildcard(routes[i].host) -> 1
                    [] OTHER -> 0
      Better(i, j) ==
        \/ class(i) < class(j)
        \/ /\ class(i) = class(j)
           /\ LET p == routes[i].path_prefix
                  q == routes[j].path_prefix
              IN IF p = q THEN i <= j ELSE PathPrefixMatches(q, p)
  IN IF matching = {} THEN NoRoute
     ELSE CHOOSE i \in matching : \A j \in matching : Better(i, j)

(* RouteTable: whatever the order of the routes, a request is routed to    *)
(* the most specific route that matches it, and to none only if none does. *)
RoutedMostSpecifically ==
  \A listener \in RouteListeners :
    LET table == Compile(listener)
    IN \A host \in AskedHosts, path \in AskedPaths :
         MatchRequest(table, host, path) = MostSpecific(listener, host, path)

=============================================================================

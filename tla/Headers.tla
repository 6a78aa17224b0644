------------------------------- MODULE Headers -------------------------------
(***************************************************************************)
(* The heads a node passes on (proxy handler/request.rs, and to_client of  *)
(* handler/forward.rs): a client's request crosses Hops nodes, one the     *)
(* backend of the other, and the last one's response comes back through    *)
(* them.                                                                   *)
(*                                                                         *)
(* A head is the list of values of each header.  A value of Connection or  *)
(* Upgrade is the set of its tokens, or Opaque when it is not text; one of *)
(* X-Forwarded-For is a list of peers; an X-Request-Id can be used or not. *)
(* Peer 0 is the client, peer h the h-th node.  Request targets are paths: *)
(* an authority, which to_backend makes the Host, is left to Certificates. *)
(***************************************************************************)
EXTENDS Integers, Sequences

CONSTANTS Hops, ClientHeads, BackendHeads, Opaque, NoHead, Hsts

VARIABLES
  stage,    \* "request", "response", "done" or "refused"
  hop,      \* how many nodes the head has crossed, or has left to cross
  head,
  sent,     \* the head the client sent,
  replied,  \* and the backend
  ids       \* the id each node has the request under

headers == <<stage, hop, head, sent, replied, ids>>

HopByHop == {"connection", "keep-alive", "te", "upgrade"}
Forwarding == {"x-forwarded-for", "x-forwarded-host"}
Names == HopByHop \cup Forwarding \cup
           {"host", "x-request-id", "custom", "strict-transport-security"}

Texts(values) == {values[i] : i \in DOMAIN values} \ {Opaque}
Tokens(values) == UNION Texts(values)
Has(h, name) == h[name] # <<>>
Set(h, name, value) == [h EXCEPT ![name] = <<value>>]
Without(h, names) == [n \in Names |-> IF n \in names THEN <<>> ELSE h[n]]
SetIfNone(h, name, value) == IF Has(h, name) THEN h ELSE Set(h, name, value)

-----------------------------------------------------------------------------
RequestId(h, fresh) ==
  IF Has(h, "x-request-id") /\ h["x-request-id"][1].usable THEN h["x-request-id"][1].id
  ELSE fresh

AsksForUpgrade(h) ==
  /\ "upgrade" \in Tokens(h["connection"])
  /\ Tokens(h["upgrade"]) \ {"h2c"} # {}

AsksForTrailers(h) == h["te"] = <<"trailers">>

StripReadingLate(h) ==
  LET kept == Without(h, HopByHop) IN Without(kept, Tokens(kept["connection"]))

StripHopByHop(h) == Without(h, HopByHop \cup Tokens(h["connection"]))

WithTrailers(h, asks) == IF asks THEN Set(h, "te", "trailers") ELSE h

WithForwarding(h, peer) ==
  LET before == IF Has(h, "x-forwarded-for") THEN h["x-forwarded-for"][1] ELSE <<>>
  IN  Set(Set(h, "x-forwarded-for", Append(before, peer)), "x-forwarded-host", "routed")

WithId(h, id) == SetIfNone(h, "x-request-id", [id |-> id, usable |-> TRUE])

ToBackendStrippingLast(h, peer, id) ==
  WithId(WithTrailers(StripHopByHop(WithForwarding(h, peer)), AsksForTrailers(h)), id)

ToBackendAskingLate(h, peer, id) ==
  LET kept == StripHopByHop(h)
  IN  WithId(WithForwarding(WithTrailers(kept, AsksForTrailers(kept)), peer), id)

ToBackendOfItsOwn(h, peer, id) ==
  WithId(WithForwarding(WithTrailers(StripHopByHop(h), AsksForTrailers(h)), peer), peer + 1)

ToBackend(h, peer, id) ==
  WithId(WithForwarding(WithTrailers(StripHopByHop(h), AsksForTrailers(h)), peer), id)

(* What the node's client sends: a request without a Host names the        *)
(* backend.                                                                *)
OnTheWire(h) == SetIfNone(h, "host", "backend")

ToClient(h, is_tls, id) ==
  LET kept == StripHopByHop(h)
      strict == IF is_tls THEN Set(kept, "strict-transport-security", Hsts) ELSE kept
  IN  WithId(strict, id)

-----------------------------------------------------------------------------
Init ==
  /\ stage = "request" /\ hop = 0 /\ ids = <<>>
  /\ sent \in ClientHeads /\ head = sent
  /\ replied = NoHead

(* handle and forward: a node takes the request over, or refuses to        *)
(* upgrade.                                                                *)
Relay ==
  /\ stage = "request" /\ hop < Hops
  /\ LET id == RequestId(head, hop + 1) IN
     IF AsksForUpgrade(head)
     THEN stage' = "refused" /\ UNCHANGED <<hop, head, ids>>
     ELSE /\ head' = OnTheWire(ToBackend(head, hop, id))
          /\ ids' = Append(ids, id)
          /\ hop' = hop + 1
          /\ UNCHANGED stage
  /\ UNCHANGED <<sent, replied>>

Reply(h) ==
  /\ stage = "request" /\ hop = Hops
  /\ stage' = "response" /\ head' = h /\ replied' = h
  /\ UNCHANGED <<hop, sent, ids>>

(* The node the client is connected to speaks TLS with it.                 *)
Return ==
  /\ stage = "response"
  /\ head' = ToClient(head, hop = 1, ids[hop])
  /\ hop' = hop - 1
  /\ stage' = IF hop = 1 THEN "done" ELSE "response"
  /\ UNCHANGED <<sent, replied, ids>>

Next == Relay \/ (\E h \in BackendHeads : Reply(h)) \/ Return

-----------------------------------------------------------------------------
(* A backend can trace a request back hop by hop, and knows the host it    *)
(* was routed by: the last peers it is told of are those the request       *)
(* crossed, in order, even if a client or a node before it called the      *)
(* forwarding headers its own to strip (to_backend).                       *)
TracedBack ==
  stage = "request" /\ hop > 0 =>
    LET peers == head["x-forwarded-for"][1] IN
    /\ Has(head, "x-forwarded-for") /\ Len(peers) >= hop
    /\ \A h \in 1..hop : peers[Len(peers) - hop + h] = h - 1
    /\ head["x-forwarded-host"] = <<"routed">>

(* TE: trailers, and no other TE, reaches the backend over every hop, as   *)
(* gRPC needs, though TE is a hop-by-hop header (asks_for_trailers).       *)
TrailersAreAnnounced ==
  stage = "request" /\ hop > 0 =>
    head["te"] = IF sent["te"] = <<"trailers">> THEN <<"trailers">> ELSE <<>>

(* A request has one id: every node logs it under the same one and the     *)
(* backend gets it, unless the client sent one that cannot be used, even   *)
(* if it called the header its own to strip.  The client is told an id.    *)
OneId ==
  /\ Has(sent, "x-request-id") => sent["x-request-id"][1].usable
  => /\ \A i \in DOMAIN ids : ids[i] = ids[1]
     /\ stage = "request" /\ hop > 0 => head["x-request-id"][1].id = ids[1]
     /\ stage = "done" => Has(head, "x-request-id")

(* Only end-to-end headers cross a node, either way: what the sender's     *)
(* Connection header names stays behind, and what it does not name goes on *)
(* (strip_hop_by_hop).                                                     *)
OnlyEndToEnd ==
  LET origin == IF stage = "request" THEN sent ELSE replied
      crossed == (stage = "request" /\ hop > 0) \/ stage = "done" \/
                 (stage = "response" /\ hop < Hops)
  IN  crossed =>
        /\ \A n \in {"connection", "keep-alive", "upgrade"} : ~Has(head, n)
        /\ head["custom"] = IF "custom" \in Tokens(origin["connection"]) THEN <<>>
                            ELSE origin["custom"]

=============================================================================

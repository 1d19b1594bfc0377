----------------------------- MODULE EventFeed ------------------------------
(***************************************************************************)
(* What the webhook dispatcher promises an endpoint: it is sent only       *)
(* events that were accepted and that it wants, in the order in which they *)
(* were accepted, each of them a bounded number of times.  Events may be   *)
(* left out.                                                               *)
(***************************************************************************)
EXTENDS Naturals, Sequences

CONSTANTS
  Types,      \* event types
  Endpoints,  \* subscribers
  Filter,     \* endpoint -> the types it lists; none listed is all
  MaxEvents,  \* bound: accepted events
  MaxPosts    \* requests per event and endpoint

VARIABLES
  kind,       \* types of the accepted events, in order
  posts       \* endpoint -> event number -> requests made

feed == <<kind, posts>>

Numbers == 1..MaxEvents

Wants(ep, type) == Filter[ep] = {} \/ type \in Filter[ep]

Init ==
  /\ kind = <<>>
  /\ posts = [ep \in Endpoints |-> [e \in Numbers |-> 0]]

Accept(type) ==
  /\ Len(kind) < MaxEvents
  /\ kind' = Append(kind, type)
  /\ UNCHANGED posts

Post(ep, e) ==
  /\ e <= Len(kind)
  /\ Wants(ep, kind[e])
  /\ posts[ep][e] < MaxPosts
  /\ \A later \in Numbers : later > e => posts[ep][later] = 0
  /\ posts' = [posts EXCEPT ![ep][e] = @ + 1]
  /\ UNCHANGED kind

Next ==
  \/ \E type \in Types : Accept(type)
  \/ \E ep \in Endpoints, e \in Numbers : Post(ep, e)

Spec == Init /\ [][Next]_feed
=============================================================================

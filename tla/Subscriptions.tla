----------------------------- MODULE Subscriptions -----------------------------
(***************************************************************************)
(* What WebSocket clients subscribe to, as operators: the filters          *)
(* (socket/envelope.rs, socket/events.rs), the registry of a connection    *)
(* (socket/subscription.rs) and the store from which a client that comes   *)
(* back restores its subscriptions (SubscriptionStoreInner of              *)
(* socket/mod.rs).                                                         *)
(*                                                                         *)
(* A registry is a function from the subscription ids to their filters,    *)
(* NoFilter where there is none.  The store is a map and its LRU order,    *)
(* oldest first; it never holds an empty registry.                         *)
(***************************************************************************)
EXTENDS Naturals, Sequences, FiniteSets

CONSTANTS Clients,  \* names of [[socket.client]] entries
          SubIds,   \* subscription ids clients use
          Filters,  \* filters they send: [types, schemas, sessions], sets each
          NoFilter, \* the id is not subscribed
          NoTag,    \* an event without a schema, or without a session
          MaxSubs,  \* max_subscriptions_per_connection
          StoreCap  \* max_subscription_store_entries

ASSUME NoFilterAssumption == NoFilter \notin Filters
(* Config::validate asks for a MaxSubs of at least 1, of StoreCap nothing.   *)
ASSUME CapsAssumption == MaxSubs \in Nat \ {0} /\ StoreCap \in Nat

Registries == [SubIds -> Filters \cup {NoFilter}]

NoSubs == [s \in SubIds |-> NoFilter]

Held(subs) == {s \in SubIds : subs[s] # NoFilter}

(* The facets an event has, on either bus.                                 *)
SchemaTypes == {"structured_output", "webhook_status"}

SessionTypes == {"session_output", "session_exited", "session_started",
                 "session_created", "session_killed", "session_limit_reached"}

Event(type, tag) ==
  [type    |-> type,
   schema  |-> IF type \in SchemaTypes THEN tag ELSE NoTag,
   session |-> IF type \in SessionTypes THEN tag ELSE NoTag]

(* OR within a facet, AND across them; an empty facet takes everything, and *)
(* any other one wants the tag to be there.                                *)
Wants(facet, tag) == facet = {} \/ tag \in facet

Matches(filter, event) ==
  /\ Wants(filter.types, event.type)
  /\ Wants(filter.schemas, event.schema)
  /\ Wants(filter.sessions, event.session)

Matching(subs, event) == {s \in Held(subs) : Matches(subs[s], event)}

CanAdd(subs, s) == Cardinality(Held(subs)) < MaxSubs \/ s \in Held(subs)

(* import of a stored list, in the order of a hash map: what is held takes *)
(* the stored filter, of the rest as many as there is room for come in.    *)
Imports(subs, stored) ==
  LET new  == Held(stored) \ Held(subs)
      left == MaxSubs - Cardinality(Held(subs))
      some == IF Cardinality(new) < left THEN Cardinality(new) ELSE left
  IN  {[s \in SubIds |-> IF s \in K \/ (s \in Held(subs) /\ s \in Held(stored))
                           THEN stored[s] ELSE subs[s]] :
         K \in {N \in SUBSET new : Cardinality(N) = some}}

------------------------------------------------------------------------------
EmptyStore == [map |-> [k \in Clients |-> NoSubs], order |-> <<>>]

Saved(store) == {k \in Clients : store.map[k] # NoSubs}

(* What the store may hold: its limit, but a save puts its entry in after   *)
(* making room, so a store configured to hold nothing holds one.           *)
StoreLimit == IF StoreCap = 0 THEN 1 ELSE StoreCap

(* The n-th of the positions P, in their order.                            *)
Nth(P, n) == CHOOSE i \in P : Cardinality({j \in P : j <= i}) = n

(* order.retain(..): what is not in K stays, in its order.                 *)
Without(order, K) ==
  LET kept == {i \in DOMAIN order : order[i] \notin K}
  IN  [n \in 1..Cardinality(kept) |-> order[Nth(kept, n)]]

(* A name that is new to a full store pushes the oldest one out.           *)
Save(store, k, subs) ==
  LET full == k \notin Saved(store) /\ Cardinality(Saved(store)) >= StoreCap /\ store.order # <<>>
      old  == IF full THEN {Head(store.order)} ELSE {}
  IN  [map   |-> [j \in Clients |-> IF j = k THEN subs
                                    ELSE IF j \in old THEN NoSubs ELSE store.map[j]],
       order |-> Append(IF full THEN Tail(store.order) ELSE Without(store.order, {k}), k)]

(* restore: looking an entry up makes it the youngest.                     *)
Touch(store, k) ==
  IF k \in Saved(store) THEN [store EXCEPT !.order = Append(Without(@, {k}), k)] ELSE store

Forget(store, k) ==
  IF k \in Saved(store)
    THEN [map |-> [store.map EXCEPT ![k] = NoSubs], order |-> Without(store.order, {k})]
    ELSE store

(* An empty registry is not saved, it takes the entry away.                *)
SaveOrForget(store, k, subs) ==
  IF subs = NoSubs THEN Forget(store, k) ELSE Save(store, k, subs)

(* Mutant: purge_clients leaves the order as it was.                       *)
PurgeOfMap(store, retained) ==
  [store EXCEPT !.map = [k \in Clients |-> IF k \in retained THEN @[k] ELSE NoSubs]]

(* purge_clients keeps the names of the new configuration.                 *)
Purge(store, retained) ==
  [map   |-> [k \in Clients |-> IF k \in retained THEN store.map[k] ELSE NoSubs],
   order |-> Without(store.order, Clients \ retained)]
==============================================================================

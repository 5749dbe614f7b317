------------------------------ MODULE HsmRoutes -------------------------------
(***************************************************************************)
(* HsmRouteMapper: the routes a compiled state machine schema gives to the  *)
(* services bound to its states.  A schema is a record of its states        *)
(* [id, tags, backend, unrooted] and its routes [stateId, virtual,          *)
(* redirects, pattern, unrooted]; state ids are sequences of names,         *)
(* patterns are routes, unrooted tells of one that does not start with '/'. *)
(* A mapping is [service, states, tags, canonical, backend, strip, prefix,  *)
(* unrooted].                                                               *)
(***************************************************************************)
EXTENDS Routes

Default(value, otherwise) == IF value = None THEN otherwise ELSE value

(* matchesStateSelector: a state by its id, or ("a.*") all below it.         *)
Selects(selector, id) ==
  IF selector.below THEN IsStrictPrefix(selector.id, id) ELSE selector.id = id

SelectedStates(schema, mapping) ==
  {s \in schema.states : \/ \E selector \in mapping.states : Selects(selector, s.id)
                         \/ s.tags \cap mapping.tags # {}}

IncludeCanonical(mapping, mode) == Default(mapping.canonical, mode \in {"canonical", "both"})
IncludeBackend(mapping, mode) == Default(mapping.backend, mode \in {"backend", "both"})

(* applyRouteTransforms: stripPrefix, then routePrefix ("/" is neither).     *)
Transformed(pattern, mapping) ==
  mapping.prefix \o
    IF IsPrefix(mapping.strip, pattern)
    THEN SubSeq(pattern, Len(mapping.strip) + 1, Len(pattern))
    ELSE pattern

(* What the canonical patterns of the schema give, virtual routes and         *)
(* aliases that redirect left out.                                           *)
CanonicalRoutes(schema, mapping) ==
  {[service |-> mapping.service, source |-> "canonical", stateId |-> r.stateId,
    route |-> Transformed(r.pattern, mapping)] :
     r \in {r \in schema.routes : /\ \E s \in SelectedStates(schema, mapping) : s.id = r.stateId
                                  /\ ~ r.virtual /\ ~ r.redirects /\ r.pattern # None}}

BackendRoutes(schema, mapping) ==
  UNION {{[service |-> mapping.service, source |-> "backend", stateId |-> s.id,
           route |-> Transformed(pattern, mapping)] : pattern \in s.backend} :
         s \in SelectedStates(schema, mapping)}

(* map, once nothing is to be rejected: mappings of unknown services are     *)
(* skipped.                                                                  *)
MappedRoutes(schema, mappings, mode, services) ==
  UNION {(IF IncludeCanonical(m, mode) THEN CanonicalRoutes(schema, m) ELSE {})
         \cup (IF IncludeBackend(m, mode) THEN BackendRoutes(schema, m) ELSE {}) :
         m \in {m \in mappings : m.service \in services}}

(* What strict mode rejects instead of leaving it out.                       *)
LeavesOut(schema, mapping, services) ==
  mapping.service \notin services \/ SelectedStates(schema, mapping) = {}

(* normalizePattern throws on the first backend route, or prefix of the       *)
(* mapping, that does not start with '/'.                                    *)
Unrooted(schema, mapping, mode, services) ==
  /\ mapping.service \in services
  /\ \/ mapping.unrooted /\ MappedRoutes(schema, {mapping}, mode, services) # {}
     \/ /\ IncludeBackend(mapping, mode)
        /\ \E s \in SelectedStates(schema, mapping) : s.unrooted

(* HsmSchemaValidator.assertValid                                            *)
ValidSchema(schema) ==
  /\ schema.kind \in {None, "panom-hsm.schema"}
  /\ \A s \in schema.states : s.id # <<>>
  /\ \A r \in schema.routes : r.stateId # <<>> /\ ~ r.unrooted
===============================================================================

----------------------------- MODULE MCLanePlan -----------------------------
(***************************************************************************)
(* The planner against what it promises, over every list of settings up to *)
(* MaxItems. A behaviour declares one setting after the other; an id may   *)
(* be named before it is declared, or never.                               *)
(***************************************************************************)
EXTENDS LanePlan

CONSTANTS MaxItems, Keys, MaxAfter

VARIABLE items

Ids == 1..MaxItems

NothingDeclared == items = <<>>

Declare ==
    /\ Len(items) < MaxItems
    /\ \E key \in Keys \cup {NoResource}, after \in SUBSET (Ids \ {Len(items) + 1}) :
         /\ Cardinality(after) <= MaxAfter
         /\ items' = Append(items, [id |-> Len(items) + 1, key |-> key, after |-> after])

Declarations == NothingDeclared /\ [][Declare]_items

Positions == DOMAIN items
PosOf(id) == CHOOSE i \in Positions : items[i].id = id

Linked(i, j) ==
    \/ items[i].id \in items[j].after
    \/ items[j].id \in items[i].after
    \/ items[i].key = items[j].key /\ items[i].key # NoResource

Closed(C) == \A i \in C, j \in Positions : Linked(i, j) => j \in C

(* What hangs together: closed, and nothing less of it is.                 *)
IsComponent(C) ==
    /\ C # {} /\ Closed(C)
    /\ \A D \in SUBSET C : D # {} /\ Closed(D) => D = C

\* Two settings are in one lane exactly when a chain of shared resources and
\* declared orders leads from one to the other, and every setting is in one
\* lane once (plan_lanes).
LanesAreComponents ==
    Plannable(items) =>
        LET lanes == PlanLanes(items)
        IN  /\ {ToSet(lanes[l]) : l \in DOMAIN lanes}
                 = {{items[j].id : j \in C} : C \in {D \in SUBSET Positions : IsComponent(D)}}
            /\ \A l \in DOMAIN lanes : Len(lanes[l]) = Cardinality(ToSet(lanes[l]))
            /\ Len(lanes) = Cardinality({ToSet(lanes[l]) : l \in DOMAIN lanes})

\* Lanes stand by their first member's position, so that settings that have
\* nothing to do with one another keep the client's order (plan_lanes).
LanesStandByFirst ==
    Plannable(items) =>
        LET lanes == PlanLanes(items)
        IN  \A l, m \in DOMAIN lanes : l < m =>
                \E i \in ToSet(lanes[l]) : \A j \in ToSet(lanes[m]) : PosOf(i) < PosOf(j)

Respects(lane) ==
    \A i, j \in DOMAIN lane : lane[j] \in items[PosOf(lane[i])].after => j < i

Earlier(s, t) ==
    \E k \in DOMAIN s : PosOf(s[k]) < PosOf(t[k]) /\ \A m \in 1..(k - 1) : s[m] = t[m]

\* A lane is in dependency order, and of all such orders it is the one closest
\* to the client's: "the order the caller gave wherever no dependency decides
\* it" (plan_lanes).
LanesKeepOrder ==
    Plannable(items) =>
        \A lane \in ToSet(PlanLanes(items)) :
            /\ Respects(lane)
            /\ \A other \in SetToSeqs(ToSet(lane)) : Respects(other) => ~Earlier(other, lane)

(* Settings each of which waits for one of them: what holds a cycle.       *)
IsKnot(C) == C # {} /\ \A i \in C : \E j \in C : items[j].id \in items[i].after

\* A list is refused exactly when some setting waits, through others, for itself
\* (BulkPlanError).
RefusedExactlyOnCycle == Plannable(items) <=> ~\E C \in SUBSET Positions : IsKnot(C)

\* Declarations the registry accepted never make a bulk run fail: every request,
\* whatever it leaves out and in whatever order, can be planned
\* (validate_declarations and plan_lanes). Resources play no part in an order.
AcceptedDeclarationsPlan ==
    ValidDeclarations(items) /\ (\A i \in Positions : items[i].key = NoResource) =>
        \A request \in UNION {SetToSeqs(S) : S \in SUBSET Positions} :
            Plannable([k \in DOMAIN request |-> items[request[k]]])

\* The lanes of a request (plan_lanes): they meet nowhere, no two of them touch
\* one resource or one declared order, they stand by their first member, and in each
\* the dependencies go first and the client's order decides the rest.
LanesAreOrderedComponents == LanesAreComponents /\ LanesStandByFirst /\ LanesKeepOrder

\* A cycle is the one thing a request is refused for, and no request over a
\* registry that validated ever is (BulkPlanError, validate_declarations).
CyclesAreRefused == RefusedExactlyOnCycle /\ AcceptedDeclarationsPlan
=============================================================================

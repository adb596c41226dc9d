------------------------------ MODULE LanePlan ------------------------------
(***************************************************************************)
(* Which settings of a bulk apply may overlap: the planner, a pure         *)
(* function from the settings of a request, in the client's order, to      *)
(* lanes. A setting is a record of its id, its resource key (NoResource    *)
(* for none) and the ids it is declared to apply after.                    *)
(*                                                                         *)
(* Source: settings/bulk_plan.py, settings/base.py (resource_key).         *)
(***************************************************************************)
EXTENDS Integers, Sequences, SequencesExt, FiniteSetsExt

CONSTANT NoResource     \* the resource key of a setting that shares nothing

\* Mutant: an id that is not in this run is waited for all the same.
DependencyEdgesOfAbsent(items) ==
    [i \in DOMAIN items |->
        {j \in DOMAIN items : items[j].id \in items[i].after}
            \cup {0 : id \in items[i].after \ {items[j].id : j \in DOMAIN items}}]

(* What each position waits for; ids that are not in this run add nothing. *)
DependencyEdges(items) ==
    [i \in DOMAIN items |-> {j \in DOMAIN items : items[j].id \in items[i].after}]

(* The heap: what waits for nothing that is not done.                      *)
Ready(edges, done) ==
    {i \in DOMAIN edges : i \notin ToSet(done) /\ edges[i] \subseteq ToSet(done)}

Turn(edges, done) ==
    IF Ready(edges, done) = {} THEN done ELSE Append(done, Min(Ready(edges, done)))

(* Dependency order, the client's order breaking ties. What is on a cycle, *)
(* or behind one, is left out.                                             *)
Order(edges) ==
    LET turns == Cardinality(DOMAIN edges)
        ordered[k \in 0..turns] == IF k = 0 THEN <<>> ELSE Turn(edges, ordered[k - 1])
    IN  ordered[turns]

(* BulkPlanError is what a list that cannot be planned raises.             *)
Plannable(items) == Len(Order(DependencyEdges(items))) = Len(items)

(* Union-find over positions; parents only ever point backwards, so that   *)
(* as many steps up as there are positions end at the root.                *)
Find(parent, i) ==
    LET up[k \in 0..Len(parent)] == IF k = 0 THEN i ELSE parent[up[k - 1]]
    IN  up[Len(parent)]

\* Mutant: the two positions are linked, not the roots of their components.
JoinUnrooted(parent, a, b) == [parent EXCEPT ![Max({a, b})] = Min({a, b})]

Join(parent, a, b) ==
    LET ra == Find(parent, a)
        rb == Find(parent, b)
    IN  IF ra = rb THEN parent ELSE [parent EXCEPT ![Max({ra, rb})] = Min({ra, rb})]

(* The first position that holds the resource of i.                        *)
Holder(items, i) ==
    IF items[i].key = NoResource THEN i
    ELSE Min({j \in DOMAIN items : items[j].key = items[i].key})

(* The pairs the planner joins: a dependent and each of its dependencies,  *)
(* and a setting and the first one that holds the same resource.           *)
Links(items) ==
    SetToSeq(UNION {{<<i, j>> : j \in DependencyEdges(items)[i]} : i \in DOMAIN items})
        \o [i \in DOMAIN items |-> <<i, Holder(items, i)>>]

Components(items) ==
    LET links == Links(items)
        parent[k \in 0..Len(links)] ==
            IF k = 0 THEN [i \in DOMAIN items |-> i]
            ELSE Join(parent[k - 1], links[k][1], links[k][2])
    IN  parent[Len(links)]

(* The lane of each root: every position, in order, behind those before it.*)
Filled(items) ==
    LET ordered == Order(DependencyEdges(items))
        parent == Components(items)
        lanes[k \in 0..Len(ordered)] ==
            IF k = 0 THEN [root \in DOMAIN items |-> <<>>]
            ELSE [lanes[k - 1] EXCEPT ![Find(parent, ordered[k])] =
                      Append(@, items[ordered[k]].id)]
    IN  lanes[Len(ordered)]

(* plan_lanes, for a plannable list: the lanes by their earliest member.   *)
(* Sorting is ordering where nothing waits.                                *)
PlanLanes(items) ==
    LET lanes == Filled(items)
        roots == Order([i \in {r \in DOMAIN items : lanes[r] # <<>>} |-> {}])
    IN  [l \in DOMAIN roots |-> lanes[roots[l]]]

(* validate_declarations, over everything the registry holds.              *)
ValidDeclarations(items) ==
    /\ \A i \in DOMAIN items : items[i].after \subseteq {items[j].id : j \in DOMAIN items}
    /\ Plannable(items)
=============================================================================

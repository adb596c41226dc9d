---------------------------- MODULE MCBulkStream ----------------------------
(***************************************************************************)
(* Small instances of BulkStream, with the plans LanePlan makes. adapter1  *)
(* and adapter2 share an adapter; https applies after dns; x is on its own *)
(* and gone is no setting any more.                                        *)
(***************************************************************************)
EXTENDS BulkStream, SequencesExt

INSTANCE LanePlan WITH NoResource <- NoKey

CONSTANTS
    Requested,    \* the ids requests are made of, in every order
    MaxRequest    \* bound: ids in a request

MCSettings == {"adapter1", "adapter2", "dns", "https", "x", "gone"}
MCKey == [s \in MCSettings |-> CASE s \in {"adapter1", "adapter2"} -> "adapter"
                                 [] OTHER -> NoKey]
MCAfter == [s \in MCSettings |-> IF s = "https" THEN {"dns"} ELSE {}]

Item(s) == [id |-> s, key |-> MCKey[s], after |-> MCAfter[s]]

PlanOf(request) ==
    LET known == SelectSeq(request, LAMBDA s : s # "gone")
    IN  [unknown |-> ToSet(request) \cap {"gone"},
         lanes |-> PlanLanes([i \in DOMAIN known |-> Item(known[i])])]

(* A request of adapter2 without adapter1 goes like one of adapter1.       *)
MCRequests ==
    UNION {SetToSeqs(S) : S \in {T \in SUBSET Requested :
        /\ Cardinality(T) <= MaxRequest
        /\ "adapter2" \in T => "adapter1" \in T}}

MCPlans == {PlanOf(request) : request \in MCRequests}
=============================================================================

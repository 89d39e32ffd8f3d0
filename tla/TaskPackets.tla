---------------------------- MODULE TaskPackets ----------------------------
(***************************************************************************)
(* Task packets: how a piece of work is given a tier, how a packet is      *)
(* compiled from a run's step or from a prompt, and the risk classifier    *)
(* that gives the same work a tier before it is packed                     *)
(* (contracts/task-packet.ts, workflows/task-packet-compiler.ts,           *)
(* workflows/risk-classifier.ts).                                          *)
(*                                                                         *)
(* Texts are left out but for what can refuse a packet: "typed" says that  *)
(* every field has the type and the length its schema asks for, "bytes" is *)
(* the size of the canonical JSON.  A packet stands for its own hash.      *)
(***************************************************************************)
EXTENDS Lists, FiniteSets

CONSTANTS
    TierBudgets,  \* TierBudgets[tier]: the limits of a packet of the tier
    Normal        \* Normal[raw tag]: the boundary tag it is read as, a set of at most one

Tiers == {"FAST", "STANDARD", "DEEP"}

Limits == {"maxCalls", "maxPacketBytes", "maxRetrievalCalls", "maxRetrievalBytes"}

ASSUME BudgetsAssumption ==
    /\ DOMAIN TierBudgets = Tiers
    /\ \A tier \in Tiers :
        /\ DOMAIN TierBudgets[tier] = Limits
        /\ \A limit \in Limits : TierBudgets[tier][limit] \in Nat

Distinct(s) == Cardinality(Elements(s)) = Len(s)
First(s) == IF s = <<>> THEN {} ELSE {s[1]}

Concrete(tags) == tags \ {"none", "unknown"}

-----------------------------------------------------------------------------
(* contracts/task-packet.ts                                                *)

classifyTaskTier(paths, tags, public) ==
    IF Concrete(tags) # {} \/ Len(paths) > 8 THEN "DEEP"
    ELSE IF "unknown" \in tags \/ Len(paths) >= 3 \/ public THEN "STANDARD"
    ELSE "FAST"

(* superRefine.  The canonical packet has its arrays sorted already, so    *)
(* what is left of that check is that no element comes twice.              *)
TaskPacketSchema(p) ==
    /\ Distinct(p.paths) /\ Distinct(p.tags)
    /\ Distinct([i \in DOMAIN p.criteria |-> p.criteria[i].id])
    /\ Distinct([i \in DOMAIN p.evidence |-> p.evidence[i].id])
    /\ "none" \in Elements(p.tags) => Len(p.tags) = 1
    /\ {c.evidence : c \in Elements(p.criteria)}
         = {e.id : e \in {r \in Elements(p.evidence) : r.required}}
    /\ p.budgets = TierBudgets[p.tier]
    /\ classifyTaskTier(p.paths, Elements(p.tags), p.public) = p.tier

(* A sorted array in which nothing comes twice is a set. *)
Sorted(p) ==
    [p EXCEPT !.paths = Elements(@), !.tags = Elements(@), !.evidence = Elements(@)]

(* A tag no name is known for refuses the packet; beside a concrete tag,   *)
(* none and unknown are dropped.                                           *)
canonicalPacket(input) ==
    LET read == [i \in DOMAIN input.tags |-> Normal[input.tags[i]]]
        tags == [i \in DOMAIN read |-> CHOOSE tag \in read[i] : TRUE]
        concrete == Chosen(tags, Concrete(Elements(tags)))
        packet == [input EXCEPT !.tags = IF concrete # <<>> THEN concrete ELSE tags]
    IN  IF \A i \in DOMAIN read : read[i] # {}
        THEN {Sorted(p) : p \in {q \in {packet} : TaskPacketSchema(q)}}
        ELSE {}

compileTaskPacket(input) ==
    IF input.typed
    THEN {p \in canonicalPacket(input) : p.bytes <= p.budgets.maxPacketBytes}
    ELSE {}

-----------------------------------------------------------------------------
(* workflows/task-packet-compiler.ts.  A compile result is "none" (null),  *)
(* or the set of the packet, empty when the packet was refused.            *)

NoResult == [kind |-> "none"]
Compiled(input) == [kind |-> "compiled", packet |-> compileTaskPacket(input)]

(* The first remaining task the run declares: as the plan parser reads the *)
(* plan or, if it knows none of them, as the open checkboxes name them.    *)
remainingTaskId(plan, declared) ==
    LET declaredIn(ids) == First(Chosen(ids, declared))
    IN  IF declaredIn(plan.remaining) # {} THEN declaredIn(plan.remaining)
        ELSE declaredIn(plan.open)

Step(run, task, paths, criteria, typed, bytes, tier) ==
    [run |-> run.id, task |-> task, generation |-> IF run.revision > 1 THEN run.revision ELSE 1,
     paths |-> paths, tags |-> <<"none">>, public |-> FALSE, criteria |-> criteria,
     tier |-> tier, budgets |-> TierBudgets[tier], typed |-> typed, bytes |-> bytes,
     evidence |-> [i \in DOMAIN criteria |-> [id |-> criteria[i].evidence, required |-> TRUE]]]

(* The plan's step: its referenced paths, or the plan's own. *)
compilePlanStep(run, plan, task) ==
    LET block == plan.blocks[task]
        paths == IF block.paths # <<>> THEN block.paths ELSE <<"plan">>
    IN  Compiled(Step(run, task, paths, <<[id |-> "acceptance", evidence |-> task]>>,
                      block.typed, block.bytes,
                      classifyTaskTier(paths, {"none"}, FALSE)))

(* The active goal's step: its first six criteria. *)
compileGoalStep(run, goal) ==
    Compiled(Step(run, goal.id, <<>>,
                  SubSeq(goal.criteria, 1, IF Len(goal.criteria) > 6 THEN 6 ELSE Len(goal.criteria)),
                  goal.typed, goal.bytes, "FAST"))

(* run.plan is the plan's text when the file was read, {} if it is gone;   *)
(* run.goal the active goal, {} if there is none.                          *)
compileRunStepContext(run) ==
    IF run.status # "active" THEN NoResult
    ELSE IF run.workflow = "start_work"
    THEN LET steps == UNION {{<<plan, task>> : task \in remainingTaskId(plan, run.tasks)} :
                                plan \in run.plan}
         IN  IF steps = {} THEN NoResult
             ELSE LET step == CHOOSE s \in steps : TRUE
                  IN  compilePlanStep(run, step[1], step[2])
    ELSE LET goals == {goal \in run.goal : goal.criteria # <<>>}
         IN  IF goals = {} THEN NoResult
             ELSE compileGoalStep(run, CHOOSE goal \in goals : TRUE)

(* A prompt is taken for a packet when it is JSON and not too long.  What  *)
(* is JSON but no packet is a refused packet, not a prompt without one.    *)
compilePromptStepContext(prompt) ==
    IF prompt.bytes > TierBudgets["DEEP"].maxPacketBytes \/ ~prompt.json THEN NoResult
    ELSE IF prompt.input = {} THEN [kind |-> "compiled", packet |-> {}]
    ELSE Compiled(CHOOSE input \in prompt.input : TRUE)

-----------------------------------------------------------------------------
(* workflows/risk-classifier.ts                                            *)

(* The ceilings a tier adds to its budgets. *)
RiskTierCeilings ==
    [FAST     |-> [maxActivePackets |-> 1, maxSemanticRolesPerPacket |-> 1],
     STANDARD |-> [maxActivePackets |-> 2, maxSemanticRolesPerPacket |-> 2],
     DEEP     |-> [maxActivePackets |-> 4, maxSemanticRolesPerPacket |-> 3]]

classifierInputSchema(w) ==
    /\ Distinct(w.paths) /\ Distinct(w.roots) /\ w.tags # <<>>
    /\ w.paths = <<>> => w.roots = <<>>
    /\ "none" \in Elements(w.tags) => Len(w.tags) = 1

(* The tier of the first reason that applies. *)
classifyWorkflowRisk(w) ==
    LET tags == Elements(w.tags) IN
    IF ~classifierInputSchema(w) THEN [status |-> "BLOCKED", tier |-> "none"]
    ELSE [status |-> "PASS",
          tier |-> IF Concrete(tags) # {} \/ w.review \/ Len(w.paths) > 8 THEN "DEEP"
                   ELSE IF \/ "unknown" \in tags \/ Len(w.paths) >= 3 \/ Len(w.roots) > 1
                           \/ w.public \/ (w.mutating /\ w.paths = <<>>)
                   THEN "STANDARD"
                   ELSE "FAST"]
=============================================================================

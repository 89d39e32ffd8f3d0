---------------------------- MODULE WorkerRouting ----------------------------
(***************************************************************************)
(* How a packet of work finds a worker and a model: the risk tier, the     *)
(* route through the model roles and its escalation after failures, and    *)
(* the resolution of a role to a model that is there                       *)
(* (workflows/escalation-policy.ts, workflows/model-role-resolution.ts,    *)
(* workflows/operator-model-chain-input.ts).                               *)
(*                                                                         *)
(* These are pure functions an orchestrating agent calls in turn; the      *)
(* actions are its calls, with the providers coming and going in between.  *)
(***************************************************************************)
EXTENDS TaskPackets

CONSTANTS
    Works,        \* work to classify
    Settings,     \* the operator's file, the agent's chain, the models of the roles
    BadAliases,   \* patterns that begin with @ and are no alias
    Parts,        \* Parts[selector]: its provider and model, a set, empty without a slash
    Catalog,      \* the pairs of provider and model the catalog has
    Providers,
    DefaultRole,  \* the agent's entry of AgentNameDefaultRole
    MaxChanges    \* bound: providers that come or go

Aliases == {"@smol", "@task", "@slow"}

Blank == ""

Selectors == Aliases \cup BadAliases \cup DOMAIN Parts

MAX_CHAIN_LENGTH == 8

(* A chain of the operator's file: an entry is one pattern, an alias or a  *)
(* provider and a model.                                                   *)
modelChainInputSchema(chain) ==
    /\ Len(chain) \in 1..MAX_CHAIN_LENGTH
    /\ \A i \in DOMAIN chain : chain[i] \in {<<c>> : c \in Aliases \cup DOMAIN Parts}

(* A file is valid when its chain is; the agent's own chain, which has no  *)
(* schema, is a list of patterns.                                          *)
ASSUME RoutingAssumption ==
    /\ BadAliases \cap Aliases = {} /\ DefaultRole \in Aliases
    /\ Blank \notin Selectors
    /\ \A s \in Settings :
        /\ s.fallbacks \in Seq(Selectors)
        /\ s.input.file = "valid" =>
            \A chain \in s.input.override :
                chain \in Seq(Seq(Selectors)) /\ modelChainInputSchema(chain)
    /\ MaxChanges \in Nat

VARIABLES
    at,          \* where the orchestrator is
    work, setting,
    up,          \* the providers that are available
    route,       \* the WorkerRouteReceipt
    receipt,     \* the last resolution
    provenance,  \* model-chain-provenance/<runId>.json: the attempts of the last one
    changes,
    sends        \* history: the roles it was sent to, in order

routingVars == <<at, work, setting, up, route, receipt, provenance, changes, sends>>

NoRoute == [status |-> "none"]

RoutingInit ==
    /\ at = "classify" /\ work \in Works /\ setting \in Settings /\ up \in SUBSET Providers
    /\ route = NoRoute /\ receipt = NoRoute /\ provenance = <<>> /\ changes = 0 /\ sends = <<>>

-----------------------------------------------------------------------------
(* workflows/escalation-policy.ts                                          *)

TierRoles ==
    [FAST |-> <<"@smol">>, STANDARD |-> <<"@smol", "@task">>,
     DEEP |-> <<"@smol", "@task", "@slow">>]

initialWorkerRoute(tier) ==
    [status |-> "PASS", action |-> "DISPATCH", tier |-> tier, role |-> "@smol",
     semantic |-> 1, transport |-> 1]

(* The roles after the route's own in a tier. *)
nextRoles(role, tier) ==
    LET roles == TierRoles[tier]
    IN  {roles[i + 1] : i \in {j \in 1..(Len(roles) - 1) : roles[j] = role}}

Exhausted(r) == [r EXCEPT !.status = "BLOCKED", !.action = "FAIL"]

block(r) == [r EXCEPT !.status = "BLOCKED", !.action = "BLOCK"]

resend(r) == [r EXCEPT !.action = "RESEND", !.transport = 2]

escalate(r, tier) ==
    IF nextRoles(r.role, tier) = {} THEN Exhausted(r)
    ELSE [status |-> "PASS", action |-> "ESCALATE", tier |-> tier,
          role |-> CHOOSE role \in nextRoles(r.role, tier) : TRUE,
          semantic |-> r.semantic + 1, transport |-> 1]

Failures ==
    {"transport_transient", "provider_unavailable", "new_boundary", "test_failure", "authorization"}

(* Slip: a new boundary gives the packet its first role once more. *)
reduceWorkerFailureAgain(r, failure) ==
    IF r.status = "BLOCKED" THEN r
    ELSE CASE failure = "transport_transient" ->
                IF r.transport = 1 THEN resend(r) ELSE escalate(r, r.tier)
           [] failure = "provider_unavailable" ->
                IF r.transport = 1 THEN resend(r) ELSE block(r)
           [] failure = "new_boundary" ->
                IF r.tier = "FAST" THEN initialWorkerRoute("STANDARD") ELSE escalate(r, r.tier)
           [] failure = "test_failure" -> escalate(r, r.tier)
           [] OTHER -> block(r)

(* A transport failure is sent again once; a boundary that turns up raises *)
(* a FAST packet's tier; a semantic mismatch is as a test failure; all     *)
(* other failures (containment, stale state, ...) are as authorization.    *)
reduceWorkerFailure(r, failure) ==
    IF r.status = "BLOCKED" THEN r
    ELSE CASE failure = "transport_transient" ->
                IF r.transport = 1 THEN resend(r) ELSE escalate(r, r.tier)
           [] failure = "provider_unavailable" ->
                IF r.transport = 1 THEN resend(r) ELSE block(r)
           [] failure = "new_boundary" ->
                escalate(r, IF r.tier = "FAST" THEN "STANDARD" ELSE r.tier)
           [] failure = "test_failure" -> escalate(r, r.tier)
           [] OTHER -> block(r)

-----------------------------------------------------------------------------
(* workflows/operator-model-chain-input.ts                                 *)

(* The schema's sidecar is looked at before the file; a file that is not   *)
(* there is no refusal, one that cannot be read or decoded is.             *)
readModelChainInput(input) ==
    IF ~input.contained THEN "path_outside_inputs"
    ELSE IF ~input.intact THEN "schema_integrity_mismatch"
    ELSE IF input.file = "absent" THEN "absent"
    ELSE IF input.file = "valid" THEN "pass"
    ELSE "invalid_resolution_input"

(* The agent's chain of the file, if it was read: nothing is applied of a  *)
(* refused one.                                                            *)
toAgentModelOverrides(input) ==
    IF readModelChainInput(input) = "pass" THEN input.override ELSE {}

-----------------------------------------------------------------------------
(* workflows/model-role-resolution.ts                                      *)

(* An entry may hold several patterns and commas; blanks are dropped. *)
patterns(entries) ==
    LET upTo[n \in 0 .. Len(entries)] ==
            IF n = 0 THEN <<>>
            ELSE upTo[n - 1] \o Chosen(entries[n], Elements(entries[n]) \ {Blank})
    IN  upTo[Len(entries)]

(* What becomes of one candidate. *)
Outcome(candidate, roleModels) ==
    LET selectors == IF candidate \in Aliases THEN roleModels[candidate] ELSE {candidate}
        parts == UNION {Parts[s] : s \in selectors}
    IN  IF candidate \in BadAliases \/ parts = {} THEN "invalid_model_role"
        ELSE IF \A p \in parts : p[1] \notin up THEN "provider_unavailable"
        ELSE IF parts \cap Catalog = {} THEN "model_unavailable"
        ELSE "resolved"

(* The loop: the first candidate that resolves is taken; one that is       *)
(* malformed, or whose role has no model, ends it too.                     *)
tryCandidate(tried, candidate, roleModels) ==
    LET outcome == Outcome(candidate, roleModels)
    IN  IF tried.stop THEN tried
        ELSE [attempts |-> Append(tried.attempts, [selector |-> candidate, outcome |-> outcome]),
              stop |-> outcome \in {"resolved", "invalid_model_role"}]

Attempts(candidates, roleModels) ==
    LET tried[n \in 0 .. Len(candidates)] ==
            IF n = 0 THEN [attempts |-> <<>>, stop |-> FALSE]
            ELSE tryCandidate(tried[n - 1], candidates[n], roleModels)
    IN  tried[Len(candidates)].attempts

Passed(attempts) == attempts # <<>> /\ attempts[Len(attempts)].outcome = "resolved"

(* The length that is checked is the chain's, whichever candidates are     *)
(* used; only the override's entries are split.                            *)
resolveWorkerModelChain(chain, override, roleModels) ==
    LET candidates == IF override # {} THEN patterns(CHOOSE o \in override : TRUE) ELSE chain
        attempts == Attempts(candidates, roleModels)
    IN  IF chain = <<>> \/ Len(chain) > MAX_CHAIN_LENGTH
        THEN [status |-> "BLOCKED", code |-> "invalid_model_role", attempts |-> <<>>,
              recorded |-> FALSE]
        ELSE [status |-> IF Passed(attempts) THEN "PASS" ELSE "BLOCKED",
              code |-> IF Passed(attempts) THEN "none"
                       ELSE IF \E a \in Elements(attempts) : a.outcome = "invalid_model_role"
                       THEN "invalid_model_role" ELSE "model_unavailable",
              attempts |-> attempts, recorded |-> TRUE]

(* The older resolver refuses a list that is too long or has a blank       *)
(* entry.                                                                  *)
modelPattern(entries) ==
    Len(entries) \in 1..MAX_CHAIN_LENGTH /\ <<Blank>> \notin Elements(entries)

(* It has the same loop over the override, the agent's model or its        *)
(* default role, and answers with the last failure.                        *)
resolveWorkerModelRole(agentModel, override, roleModels) ==
    LET configured == IF override # {} THEN CHOOSE o \in override : TRUE
                      ELSE IF agentModel # <<>> THEN agentModel
                      ELSE <<<<DefaultRole>>>>
        attempts == Attempts(patterns(configured), roleModels)
    IN  IF \E entries \in override \cup ({agentModel} \ {<<>>}) : ~modelPattern(entries)
        THEN [status |-> "BLOCKED", selector |-> Blank, code |-> "invalid_resolution_input"]
        ELSE [status |-> IF Passed(attempts) THEN "PASS" ELSE "BLOCKED",
              selector |-> IF attempts = <<>> THEN Blank ELSE attempts[Len(attempts)].selector,
              code |-> IF Passed(attempts) THEN "none"
                       ELSE IF attempts = <<>> THEN "invalid_model_role"
                       ELSE attempts[Len(attempts)].outcome]

-----------------------------------------------------------------------------
(* The orchestrator's steps                                                *)

Classify ==
    /\ at = "classify"
    /\ LET risk == classifyWorkflowRisk(work)
       IN  IF risk.status = "PASS"
           THEN route' = initialWorkerRoute(risk.tier) /\ at' = "resolve"
           ELSE UNCHANGED route /\ at' = "done"
    /\ UNCHANGED <<work, setting, up, receipt, provenance, changes, sends>>

(* The chain of the route's role: the alias, then the agent's fallbacks.   *)
(* writeProvenance replaces what an earlier resolution of the run wrote.   *)
Resolve ==
    /\ at = "resolve"
    /\ LET resolved == resolveWorkerModelChain(<<route.role>> \o setting.fallbacks,
                            toAgentModelOverrides(setting.input), setting.roleModels)
       IN  /\ receipt' = resolved
           /\ provenance' = IF resolved.recorded THEN resolved.attempts ELSE provenance
           /\ IF resolved.status = "PASS"
              THEN at' = "sent" /\ sends' = Append(sends, route.role)
              ELSE at' = "done" /\ UNCHANGED sends
    /\ UNCHANGED <<work, setting, up, route, changes>>

Fail ==
    /\ at = "sent"
    /\ \E failure \in Failures : route' = reduceWorkerFailure(route, failure)
    /\ at' = IF route'.status = "BLOCKED" THEN "done" ELSE "resolve"
    /\ UNCHANGED <<work, setting, up, receipt, provenance, changes, sends>>

ProviderChanges ==
    /\ changes < MaxChanges /\ changes' = changes + 1 /\ at # "done"
    /\ \E p \in Providers : up' = IF p \in up THEN up \ {p} ELSE up \cup {p}
    /\ UNCHANGED <<at, work, setting, route, receipt, provenance, sends>>

RoutingNext == Classify \/ Resolve \/ Fail \/ ProviderChanges

RoutingSpec == RoutingInit /\ [][RoutingNext]_routingVars

-----------------------------------------------------------------------------
(* Properties                                                              *)

Rank(tier) == CASE tier = "FAST" -> 1 [] tier = "STANDARD" -> 2 [] OTHER -> 3

(* Whatever failures a packet meets, and in whatever order: no role has it *)
(* more than twice, the roles come in their order and are no more than the *)
(* tier's ceiling, the tier is never lower than the work was classified,   *)
(* nor lower than a packet of the same work must claim.                    *)
RouteIsBounded ==
    route # NoRoute =>
        /\ \A role \in Aliases :
            Cardinality({i \in DOMAIN sends : sends[i] = role}) <= 2
        /\ \A i, j \in DOMAIN sends : i < j /\ sends[i] # sends[j] =>
            \A k \in j..Len(sends) : sends[k] # sends[i]
        /\ Cardinality(Elements(sends)) <= RiskTierCeilings[route.tier].maxSemanticRolesPerPacket
        /\ Rank(route.tier) >= Rank(classifyWorkflowRisk(work).tier)
        /\ Rank(route.tier) >= Rank(classifyTaskTier(work.paths, Elements(work.tags), work.public))

(* A packet that is sent goes to the model of the first candidate that is  *)
(* there; it is sent if one is there, the agent's chain is not too long    *)
(* and what comes before is merely not available; and the two resolvers    *)
(* agree.  Of a malformed candidate before one that is there it says       *)
(* nothing: see OnlyExhaustedBlocks.                                       *)
FirstUsableModel ==
    LET override == toAgentModelOverrides(setting.input)
        chain == <<route.role>> \o setting.fallbacks
        candidates == IF override # {} THEN patterns(CHOOSE o \in override : TRUE) ELSE chain
        resolved == resolveWorkerModelChain(chain, override, setting.roleModels)
        older == resolveWorkerModelRole([i \in DOMAIN chain |-> <<chain[i]>>], override,
                                        setting.roleModels)
        outcome(i) == Outcome(candidates[i], setting.roleModels)
        first(i) == /\ outcome(i) = "resolved"
                    /\ \A j \in 1..(i - 1) : outcome(j) # "resolved"
    IN  at = "resolve" =>
            /\ resolved.status = "PASS" => \E i \in DOMAIN candidates : first(i)
            /\ \A i \in DOMAIN candidates : first(i) /\ resolved.status = "PASS" =>
                /\ Len(resolved.attempts) = i
                /\ resolved.attempts[i].selector = candidates[i]
            /\ \A i \in DOMAIN candidates :
                /\ first(i) /\ Len(chain) <= MAX_CHAIN_LENGTH
                /\ \A j \in 1..(i - 1) : outcome(j) # "invalid_model_role"
                => resolved.status = "PASS"
            /\ resolved.status = older.status
            /\ resolved.status = "PASS" =>
                older.selector = resolved.attempts[Len(resolved.attempts)].selector

(* Both: the calls a packet makes its way by, in any order of failures and *)
(* outages, send it forward only, and each to the model its chain says.    *)
RoutesAreSound == RouteIsBounded /\ FirstUsableModel

(* "Only an exhausted chain yields BLOCKED", by the description of         *)
(* resolveWorkerModelChain: a chain of its length with a candidate that is *)
(* there is not blocked.                                                   *)
OnlyExhaustedBlocks ==
    LET override == toAgentModelOverrides(setting.input)
        chain == <<route.role>> \o setting.fallbacks
        candidates == IF override # {} THEN patterns(CHOOSE o \in override : TRUE) ELSE chain
    IN  /\ at = "resolve" /\ Len(chain) <= MAX_CHAIN_LENGTH
        /\ \E i \in DOMAIN candidates : Outcome(candidates[i], setting.roleModels) = "resolved"
        => resolveWorkerModelChain(chain, override, setting.roleModels).status = "PASS"
=============================================================================

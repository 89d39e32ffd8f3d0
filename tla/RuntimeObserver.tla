--------------------------- MODULE RuntimeObserver ---------------------------
(***************************************************************************)
(* What the extension keeps in memory of one session while its agent       *)
(* works: the packet in force, the retrieval budget that meters its tool   *)
(* calls, the records of its model calls, and the context it hands to the  *)
(* model (observers/product-runtime-observer.ts,                           *)
(* gates/retrieval-budget-guard.ts, contracts/retrieval-budget.ts,         *)
(* observers/model-call-observer.ts).                                      *)
(*                                                                         *)
(* The host calls the handlers one at a time, but a turn may issue several *)
(* tool calls before the first result, a result may come turns after its   *)
(* call, a call the later tool_call handler refuses never has one, and the *)
(* response to a model call may be lost or come twice.                     *)
(***************************************************************************)
EXTENDS TaskPackets, ContextAssembly

CONSTANTS
    Prompts,      \* what a turn may start with
    Runs,         \* the runs a session may be in when its turn starts
    Results,      \* tool results: the tool, what its details decode as, the size
    Injections,   \* sizes of the rules and the catalog; 0 is null
    MaxResultBytes,  \* the longest content a result may have, 160 KiB
    Scopes,       \* trial scopes of the proxy
    MaxToolCalls, MaxModelCalls, MaxTurns, MaxFaults  \* bounds

NoScope == "none"  \* a model that is not behind the proxy

ASSUME ObserverAssumption ==
    /\ NoScope \notin Scopes
    /\ \A result \in Results : result.size \in Nat
    /\ \A prompt \in Prompts : \A input \in prompt.input : {"tier", "budgets"} \subseteq DOMAIN input
    /\ MaxToolCalls \in Nat /\ MaxModelCalls \in Nat /\ MaxTurns \in Nat /\ MaxFaults \in Nat

VARIABLES
    active,        \* the packet in force: a set of at most one
    injection,     \* the sizes set for injection: a set of at most one
    guard,         \* the budget's state: a set of at most one
    model,         \* the model calls' state: a set of at most one
    start,         \* where before_agent_start is
    conversation,  \* the host's messages
    running,       \* tool calls let through that have no result yet
    inflight,      \* the model call the host has out: a set of at most one
    issued,        \* tool calls issued
    proxied,       \* proxied[scope]: call ids the proxy has given out
    turns, begun, faults,  \* how many there were
    spent,         \* history: what was let through since the packet came into force
    truth          \* history: truth[scope][id]: the packet the call was made under

session == <<active, injection, guard, model, start>>
tools == <<running, issued, spent>>
models == <<inflight, proxied, begun, truth>>
vars == <<session, conversation, tools, models, turns, faults>>

Idle == [at |-> "idle"]
Nothing == [calls |-> 0, results |-> 0, bytes |-> 0, mine |-> {}]

Init ==
    /\ active = {} /\ injection = {} /\ guard = {} /\ model = {} /\ start = Idle
    /\ conversation = <<>> /\ running = {} /\ inflight = {} /\ issued = 0
    /\ proxied = [scope \in Scopes |-> 0] /\ turns = 0 /\ begun = 0 /\ faults = 0
    /\ spent = Nothing /\ truth = [scope \in Scopes |-> <<>>]

-----------------------------------------------------------------------------
(* The retrieval budget                                                    *)

createRetrievalBudget == [general |-> 0, retrieval |-> 0, bytes |-> 0]

(* A packet that is in force already keeps its budget. *)
activateGuard(packet) ==
    IF \E g \in guard : g.packet = packet THEN guard
    ELSE {[packet |-> packet, budget |-> createRetrievalBudget, terminal |-> FALSE,
           pending |-> {}, seen |-> {}]}

(* Slip: calls without a result are not counted. *)
RefusedSettled(g, id) ==
    g.terminal \/ id \in g.seen \/ g.budget.general + 1 > g.packet.budgets.maxCalls

Refused(g, id) ==
    \/ g.terminal
    \/ id \in g.seen
    \/ g.budget.general + Cardinality(g.pending) + 1 > g.packet.budgets.maxCalls

(* The guard after a call: a refused one ends the packet's calls, unless   *)
(* it only repeats an id.                                                  *)
authorize(g, id) ==
    IF ~Refused(g, id)
    THEN [g EXCEPT !.seen = @ \cup {id}, !.pending = @ \cup {id}]
    ELSE IF id \in g.seen THEN g
    ELSE [g EXCEPT !.terminal = TRUE]

(* isStatusOnlyResult: what a wait or a message brings is not metered. *)
StatusOnly ==
    {<<"job", "jobs">>, <<"irc", "irc">>}
      \cup {<<"hub", details>> : details \in {"wait", "jobs", "irc"}}

ResultKind(result) ==
    IF <<result.tool, result.details>> \in StatusOnly THEN "status"
    ELSE IF result.size = 0 THEN "empty"
    ELSE "delivered"

(* The budget after a result: a set, empty if the result is refused. *)
meterRetrievalResult(tier, budget, result) ==
    LET limits == TierBudgets[tier]
        counted == [budget EXCEPT !.general = @ + 1]
        metered == [counted EXCEPT !.retrieval = @ + 1, !.bytes = @ + result.size]
    IN  {b \in {IF ResultKind(result) = "delivered" THEN metered ELSE counted} :
            /\ ResultKind(result) = "delivered" => result.size <= MaxResultBytes
            /\ b.general <= limits.maxCalls
            /\ b.retrieval <= limits.maxRetrievalCalls
            /\ b.bytes <= limits.maxRetrievalBytes}

(* The guard after a result, and whether the model gets to see it. *)
observe(g, id, result) ==
    LET after == meterRetrievalResult(g.packet.tier, g.budget, result)
        settled == [g EXCEPT !.pending = @ \ {id}]
    IN  IF g.terminal THEN [guard |-> g, shown |-> FALSE]
        ELSE IF id \notin g.pending THEN [guard |-> g, shown |-> TRUE]
        ELSE IF after = {} THEN [guard |-> [settled EXCEPT !.terminal = TRUE], shown |-> FALSE]
        ELSE [guard |-> [settled EXCEPT !.budget = CHOOSE b \in after : TRUE], shown |-> TRUE]

-----------------------------------------------------------------------------
(* The model calls                                                         *)

NoCalls == [calls |-> <<>>, pending |-> <<>>, nextRetry |-> 0]

stateFor == IF model = {} THEN NoCalls ELSE CHOOSE m \in model : TRUE

lastCallId(m, scope) ==
    LET ids == {m.calls[i].id : i \in {j \in DOMAIN m.calls : m.calls[j].scope = scope}}
    IN  IF ids = {} THEN 0 ELSE CHOOSE id \in ids : \A other \in ids : other <= id

begin(packet, scope) ==
    IF scope = NoScope THEN model
    ELSE {[stateFor EXCEPT !.nextRetry = 0,
               !.pending = Append(@, [scope |-> scope, packet |-> packet,
                                      retry |-> stateFor.nextRetry])]}

(* The call id has to be greater than all the scope's calls had. *)
Record(m, pending, id, terminal) ==
    IF id <= lastCallId(m, pending.scope) THEN m
    ELSE [m EXCEPT !.calls = Append(@, [scope |-> pending.scope, packet |-> pending.packet,
                                        retry |-> pending.retry, id |-> id,
                                        terminal |-> terminal])]

(* Slip: a refused response leaves its call pending. *)
observeResponseLate(m, response) ==
    IF m.pending = <<>> \/ response.id = 0 \/ response.terminal = "invalid" THEN m
    ELSE Record([m EXCEPT !.pending = Tail(@)], Head(m.pending), response.id, response.terminal)

(* The response is taken for that of the oldest pending call.  Id 0 is a   *)
(* missing one; a response whose status and terminal header disagree, or   *)
(* that only a proxy may report, is "invalid".                             *)
observeResponse(m, response) ==
    IF m.pending = <<>> THEN m
    ELSE LET shifted == [m EXCEPT !.pending = Tail(@)]
         IN  IF response.id = 0 \/ response.terminal = "invalid" THEN shifted
             ELSE Record(shifted, Head(m.pending), response.id, response.terminal)

(* What the proxy says of a call goes to the oldest pending one of its scope. *)
observeProxyTerminal(m, scope, id, terminal) ==
    LET ofScope == {i \in DOMAIN m.pending : m.pending[i].scope = scope}
    IN  IF ofScope = {} THEN m
        ELSE LET at == CHOOSE i \in ofScope : \A j \in ofScope : i <= j
                 rest == [i \in 1..(Len(m.pending) - 1) |->
                             IF i < at THEN m.pending[i] ELSE m.pending[i + 1]]
             IN  Record([m EXCEPT !.pending = rest], m.pending[at], id, terminal)

-----------------------------------------------------------------------------
(* The context                                                             *)

Without(messages, kinds) == Chosen(messages, {m \in Elements(messages) : m.kind \notin kinds})

PacketMessages(current) ==
    IF current = {} THEN <<>>
    ELSE <<[kind |-> "packet", body |-> CHOOSE packet \in current : TRUE]>>

(* Slip: earlier packets stay. *)
compactStepContextKeep(messages, current) == messages \o PacketMessages(current)

compactStepContext(messages, current) ==
    Without(messages, {"packet"}) \o PacketMessages(current)

(* A section that is null or over its budget is left out whole. *)
Section(kind, size, budget) ==
    IF size = 0 \/ size > budget THEN <<>> ELSE <<[kind |-> kind, body |-> size]>>

(* Before the packet, if that is the last message. *)
injectRulesAndCatalog(messages, sections) ==
    LET n == Len(messages)
        insertAt == IF n > 0 /\ messages[n].kind = "packet" THEN n ELSE n + 1
    IN  SubSeq(messages, 1, insertAt - 1) \o sections \o SubSeq(messages, insertAt, n)

(* The sections of what setInjectionContent was given, if anything. *)
Sections ==
    IF injection = {} THEN <<>>
    ELSE LET content == CHOOSE i \in injection : TRUE
         IN  Section("catalog", content.catalog, CATALOG_BUDGET_BYTES)
               \o Section("rules", content.rules, RULES_BUDGET_BYTES)

ContextOf(messages) ==
    injectRulesAndCatalog(Without(compactStepContext(messages, active), {"rules", "catalog"}),
                          Sections)

-----------------------------------------------------------------------------
(* Starting a turn                                                         *)

Deactivate == active' = {} /\ guard' = {} /\ spent' = Nothing

(* activate: a refused packet takes the one in force away. *)
Activate(result) ==
    IF result.kind = "none" \/ result.packet = {} THEN Deactivate
    ELSE LET packet == CHOOSE p \in result.packet : TRUE
         IN  /\ active' = {packet} /\ guard' = activateGuard(packet)
             /\ spent' = IF active = {packet} THEN spent ELSE Nothing

(* before_agent_start, up to its first await: the prompt's own packet. *)
StartPrompt ==
    /\ start = Idle /\ turns < MaxTurns /\ inflight = {}
    /\ \E prompt \in Prompts :
        LET result == compilePromptStepContext(prompt)
        IN  /\ IF result = NoResult THEN UNCHANGED <<active, guard, spent>> ELSE Activate(result)
            /\ start' = [at |-> "scope", prompt |-> result]
    /\ turns' = turns + 1
    /\ conversation' = Append(conversation, [kind |-> "turn", body |-> turns + 1])
    /\ UNCHANGED <<injection, model, running, issued, models, faults>>

(* The rest of it: a current run's packet replaces the prompt's. *)
StartRun ==
    /\ start # Idle /\ start' = Idle
    /\ \/ \E run \in Runs : Activate(compileRunStepContext(run))
       \/ /\ start.prompt = NoResult /\ Deactivate
       \/ /\ start.prompt # NoResult /\ UNCHANGED <<active, guard, spent>>
    /\ UNCHANGED <<injection, model, conversation, running, issued, models, turns, faults>>

SetInjectionContent ==
    /\ \E content \in Injections : injection' = {content}
    /\ UNCHANGED <<active, guard, model, start, conversation, tools, models, turns, faults>>

(* session_shutdown.  The session may be opened again. *)
Shutdown ==
    /\ start = Idle /\ faults < MaxFaults /\ faults' = faults + 1
    /\ Deactivate /\ injection' = {} /\ model' = {}
    /\ inflight' = {} /\ running' = {} /\ truth' = [scope \in Scopes |-> <<>>]
    /\ UNCHANGED <<start, conversation, issued, proxied, turns, begun>>

-----------------------------------------------------------------------------
(* Tool calls                                                              *)

(* tool_call: a new id, or one that was issued before.  "goes" is what the *)
(* dispatcher, whose handler comes later, makes of a call let through.     *)
ToolCall ==
    /\ start = Idle /\ turns > 0
    /\ \E id \in 1..(issued + 1), goes \in BOOLEAN :
        /\ id <= MaxToolCalls
        /\ issued' = IF id > issued THEN id ELSE issued
        /\ guard' = {authorize(g, id) : g \in guard}
        /\ IF \E g \in guard : Refused(g, id)
           THEN UNCHANGED <<running, spent>>
           ELSE /\ running' = IF goes THEN running \cup {id} ELSE running
                /\ spent' = IF active = {} THEN spent
                            ELSE [spent EXCEPT !.calls = @ + 1, !.mine = @ \cup {id}]
    /\ UNCHANGED <<active, injection, model, start, conversation, models, turns, faults>>

(* tool_result, at any time after the call. *)
ToolResult ==
    /\ \E id \in running, result \in Results :
        LET seen == {observe(g, id, result) : g \in guard}
            shown == \A o \in seen : o.shown
        IN  /\ running' = running \ {id}
            /\ guard' = {o.guard : o \in seen}
            /\ spent' = IF shown /\ id \in spent.mine /\ ResultKind(result) = "delivered"
                        THEN [spent EXCEPT !.results = @ + 1, !.bytes = @ + result.size]
                        ELSE spent
    /\ UNCHANGED <<active, injection, model, start, conversation, issued, models, turns, faults>>

-----------------------------------------------------------------------------
(* Model calls                                                             *)

(* context: the model is called with what the handler makes of the         *)
(* conversation, and the host may keep it.  The proxy numbers the calls it *)
(* sees.                                                                   *)
Context ==
    /\ start = Idle /\ turns > 0 /\ inflight = {} /\ begun < MaxModelCalls
    /\ begun' = begun + 1
    /\ \E scope \in Scopes \cup {NoScope} :
        /\ model' = IF active = {} THEN model
                    ELSE begin(CHOOSE packet \in active : TRUE, scope)
        /\ inflight' = {[scope |-> scope,
                         id |-> IF scope = NoScope THEN 0 ELSE proxied[scope] + 1]}
        /\ IF scope = NoScope THEN UNCHANGED <<proxied, truth>>
           ELSE /\ proxied' = [proxied EXCEPT ![scope] = @ + 1]
                /\ truth' = [truth EXCEPT ![scope] =
                                Append(@, [id |-> proxied[scope] + 1, packet |-> active])]
    /\ \E kept \in {conversation, ContextOf(conversation)} : conversation' = kept
    /\ UNCHANGED <<active, injection, guard, start, tools, turns, faults>>

(* after_provider_response, with the terminal the headers and the status   *)
(* make; or the response comes a second time.                              *)
Response ==
    /\ \E call \in inflight, terminal \in {"responded", "errored", "invalid"} :
        /\ model' = {observeResponse(m, [id |-> call.id, terminal |-> terminal]) : m \in model}
        /\ inflight' = {}
    /\ UNCHANGED <<active, injection, guard, start, conversation, tools, proxied, begun, truth,
                   turns, faults>>

Repeated ==
    /\ faults < MaxFaults /\ faults' = faults + 1
    /\ \E scope \in Scopes :
        /\ proxied[scope] > 0
        /\ model' = {observeResponse(m, [id |-> proxied[scope], terminal |-> "responded"]) :
                        m \in model}
    /\ UNCHANGED <<active, injection, guard, start, conversation, tools, models, turns>>

(* The connection breaks and there is no response; the proxy may report it. *)
Lost ==
    /\ faults < MaxFaults /\ faults' = faults + 1
    /\ inflight # {} /\ inflight' = {}
    /\ UNCHANGED <<session, conversation, tools, proxied, begun, truth, turns>>

Disconnected ==
    /\ \E call \in inflight :
        /\ call.scope # NoScope
        /\ model' = {observeProxyTerminal(m, call.scope, call.id,
                                          "transport_client_disconnected") : m \in model}
        /\ inflight' = {}
    /\ UNCHANGED <<active, injection, guard, start, conversation, tools, proxied, begun, truth,
                   turns, faults>>

(* auto_retry_start, with an attempt within its maximum. *)
RetryStarted ==
    /\ inflight = {} /\ begun > 0 /\ begun < MaxModelCalls
    /\ model' = {[stateFor EXCEPT !.nextRetry = 1]}
    /\ UNCHANGED <<active, injection, guard, start, conversation, tools, models, turns, faults>>

Turns == StartPrompt \/ StartRun \/ Shutdown
ToolCalls == ToolCall \/ ToolResult
ModelCalls ==
    \/ SetInjectionContent
    \/ Context \/ Response \/ Repeated \/ Lost \/ Disconnected \/ RetryStarted

Next == Turns \/ ToolCalls \/ ModelCalls

ObserverSpec == Init /\ [][Next]_vars

-----------------------------------------------------------------------------
(* Properties                                                              *)

(* However the turn's calls overlap, whatever turns pass and whichever     *)
(* results never come, the calls let through since the packet came into    *)
(* force, and the results of those calls that the model was shown, are     *)
(* within the packet's budgets.                                            *)
CallsWithinBudget ==
    \A packet \in active :
        /\ spent.calls <= packet.budgets.maxCalls
        /\ spent.results <= packet.budgets.maxRetrievalCalls
        /\ spent.bytes <= packet.budgets.maxRetrievalBytes

(* Whatever the host kept of earlier contexts, the model is called with    *)
(* the conversation in its order, the catalog and the rules that fit, then *)
(* the packet in force and no other; and the handler changes nothing in    *)
(* what it made itself.                                                    *)
ContextIsCurrent ==
    LET context == ContextOf(conversation)
        own == {"packet", "rules", "catalog"}
    IN  /\ context = Without(conversation, own) \o Sections \o PacketMessages(active)
        /\ ContextOf(context) = context

(* No call of a scope is recorded twice, even when responses are lost or   *)
(* repeated; and while they are not, each record names the packet its call *)
(* was made under.                                                         *)
CallsAttributed ==
    \A m \in model : \A i \in DOMAIN m.calls :
        /\ \A j \in 1..(i - 1) : m.calls[j].scope = m.calls[i].scope => m.calls[j].id < m.calls[i].id
        /\ faults = 0 =>
            \E call \in Elements(truth[m.calls[i].scope]) :
                call.id = m.calls[i].id /\ call.packet = {m.calls[i].packet}
=============================================================================

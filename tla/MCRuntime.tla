----------------------------- MODULE MCRuntime -----------------------------
EXTENDS RuntimeObserver, WorkerRouting, PlanApproval

VARIABLE part

MCTierBudgets ==
    [FAST     |-> [maxCalls |-> 2, maxPacketBytes |-> 4, maxRetrievalCalls |-> 3, maxRetrievalBytes |-> 3],
     STANDARD |-> [maxCalls |-> 3, maxPacketBytes |-> 6, maxRetrievalCalls |-> 2, maxRetrievalBytes |-> 4],
     DEEP     |-> [maxCalls |-> 4, maxPacketBytes |-> 8, maxRetrievalCalls |-> 3, maxRetrievalBytes |-> 5]]

MCNormal ==
    [raw \in {"none", "unknown", "security", "Security", "typo"} |->
        CASE raw = "typo" -> {} [] raw = "Security" -> {"security"} [] OTHER -> {raw}]

PromptPacket ==
    [run |-> "p", task |-> "t", generation |-> 1, paths |-> <<"a">>,
     tags |-> <<"Security", "unknown">>, public |-> FALSE,
     criteria |-> <<[id |-> "c", evidence |-> "e"]>>,
     tier |-> "DEEP", budgets |-> MCTierBudgets["DEEP"], typed |-> TRUE, bytes |-> 7,
     evidence |-> <<[id |-> "e", required |-> TRUE]>>]

(* Plain text; JSON that is no packet; a packet. *)
MCPrompts ==
    {[bytes |-> 9, json |-> FALSE, input |-> {}],
     [bytes |-> 1, json |-> TRUE, input |-> {}],
     [bytes |-> 7, json |-> TRUE, input |-> {PromptPacket}]}

Block(paths, bytes) == [paths |-> paths, typed |-> TRUE, bytes |-> bytes]

Plan == [remaining |-> <<"x", "t1">>, open |-> <<>>,
         blocks |-> [t1 |-> Block(<<>>, 3)]]
WidePlan == [remaining |-> <<>>, open |-> <<"t2">>,
             blocks |-> [t2 |-> Block(<<"a", "b", "c">>, 5)]]

StartWork(revision, status, plan) ==
    [id |-> "r", workflow |-> "start_work", status |-> status, revision |-> revision,
     tasks |-> {"t1", "t2"}, plan |-> plan, goal |-> {}]

Goal(criteria) ==
    [id |-> "l", workflow |-> "ulw_loop", status |-> "active", revision |-> 2,
     tasks |-> {}, plan |-> {},
     goal |-> {[id |-> "g", criteria |-> criteria, typed |-> TRUE, bytes |-> 3]}]

(* Two steps of a plan, a plan that is gone, a paused run, a goal, and one *)
(* two of whose criteria name the same evidence.                           *)
MCRuns ==
    {StartWork(1, "active", {Plan}), StartWork(2, "active", {WidePlan}),
     StartWork(1, "active", {}), 
     Goal(<<[id |-> "c1", evidence |-> "e"], [id |-> "c2", evidence |-> "e"]>>)}

MCResults ==
    {[tool |-> "read", details |-> "other", size |-> 2],
     [tool |-> "irc", details |-> "irc", size |-> 2],
     [tool |-> "read", details |-> "other", size |-> 6],
     [tool |-> "job", details |-> "other", size |-> 0]}

MCInjections == {[rules |-> 5, catalog |-> 1], [rules |-> 7, catalog |-> 1]}

(* Directory entries.  A glob is a sequence of segments, spelt out. *)
A == <<"a">>
B == <<"b">>
Globs ==
    {<<Globstar>>, <<A, Globstar, B>>, <<<<"*", "b">>>>, <<Globstar, <<"a", "?", "*">>>>,
     <<<<"*", "a", "*", "b">>, <<"*">>>>}

RuleFile(size, order, globs) ==
    [kind |-> "file", size |-> size, rule |-> {[order |-> order, globs |-> globs]}]

MCFiles ==
    {RuleFile(1, 0, <<glob>>) : glob \in Globs}
      \cup {RuleFile(3, 1, <<<<Globstar>>, <<A, B>>>>), RuleFile(5, 0, <<<<Globstar>>>>),
            RuleFile(7, 0, <<<<A, Globstar, B>>>>),
            [kind |-> "file", size |-> 3, rule |-> {}],
            [kind |-> "link", to |-> 1], [kind |-> "link", to |-> Outside]}

Entry(name, bytes) == [name |-> name, located |-> name # 2, bytes |-> bytes]

MCRequests ==
    {[paths |-> paths, directive |-> 3, entries |-> <<Entry(3, 1), Entry(1, 2), Entry(2, 1)>>] :
        paths \in {{}, {<<A, B>>}, {<<<<"b", "a", "b", "b">>, A>>}, {<<B, <<"a", "b">>>>}}}
      \cup {[paths |-> {<<<<"a", "b">>>>, <<A, A, B>>}, directive |-> 9, entries |-> <<Entry(0, 1)>>]}

(* A file whose name begins with a star. *)
MCStarRequests == {[paths |-> {<<<<"*", "a", "b">>>>}, directive |-> 3, entries |-> <<>>]}

(* Work: no file, a wide change, two modules, a bad tag list, a boundary. *)
Work(paths, roots, tags, review, public) ==
    [paths |-> paths, roots |-> roots, tags |-> tags, review |-> review, public |-> public,
     mutating |-> TRUE]

MCWorks ==
    {Work(<<>>, <<>>, <<"none">>, FALSE, FALSE), Work(<<"a">>, <<"m">>, <<"none">>, FALSE, FALSE),
     Work(<<"a", "b">>, <<"m", "n">>, <<"none">>, FALSE, FALSE),
     Work(<<"a">>, <<"m">>, <<"none", "unknown">>, FALSE, TRUE),
     Work(<<"a">>, <<>>, <<"security", "unknown">>, FALSE, FALSE)}

MCParts ==
    [s \in {"p/m", "q/m", "q/old", "noslash"} |->
        CASE s = "p/m" -> {<<"p", "m">>} [] s = "q/m" -> {<<"q", "m">>}
          [] s = "q/old" -> {<<"q", "old">>} [] OTHER -> {}]
MCCatalog == {<<"p", "m">>, <<"q", "m">>}

MCRoleModels == [alias \in Aliases |-> IF alias = "@slow" THEN {"q/old"} ELSE {"p/m"}]
NoSlow == [MCRoleModels EXCEPT !["@task"] = {}]

NoFile == [contained |-> TRUE, intact |-> TRUE, file |-> "absent", override |-> {}]
Override(entries) == [NoFile EXCEPT !.file = "valid", !.override = {entries}]

Setting(input, fallbacks, roleModels) ==
    [input |-> input, fallbacks |-> fallbacks, roleModels |-> roleModels]

MCSettings ==
    {Setting(NoFile, <<"q/m">>, MCRoleModels), Setting(NoFile, <<"noslash", "q/m">>, MCRoleModels),
     Setting(NoFile, <<>>, NoSlow),
     Setting(NoFile, <<"@x", "q/m">>, MCRoleModels),
     Setting(NoFile, [i \in 1..MAX_CHAIN_LENGTH |-> "q/m"], MCRoleModels),
     Setting(Override(<<<<"p/m">>, <<"q/old">>, <<"@task">>>>), <<>>, MCRoleModels),
     Setting(Override(<<<<"@slow">>, <<"@task">>>>), <<>>, NoSlow),
     Setting([Override(<<<<"@slow">>>>) EXCEPT !.intact = FALSE], <<"q/m">>, MCRoleModels),
     Setting([Override(<<<<"@slow">>>>) EXCEPT !.contained = FALSE], <<"q/m">>, MCRoleModels),
     Setting([Override(<<<<"@x">>>>) EXCEPT !.file = "unreadable"], <<"q/m">>, MCRoleModels)}

(* Plans: one of each version, the same ticked, with a task more, with the *)
(* tasks the other way round, and what is no plan.                         *)
Line(section, label, explicit, checked) ==
    [section |-> section, label |-> label, explicit |-> explicit, checked |-> checked]
Version1(lines) == [v1 |-> 1, v2 |-> 0, ordered |-> FALSE, lines |-> lines]
Version2(lines) == [v1 |-> 0, v2 |-> 1, ordered |-> TRUE, lines |-> lines]
Document(kind, text) == [kind |-> kind, text |-> text]

TaskA(checked) == Line("todos", "A", TRUE, checked)
TaskF == Line("final", "F", TRUE, FALSE)
Legacy == Line("todos", "A", FALSE, FALSE)
Remark == Line("notes", "A", FALSE, FALSE)

MCDocuments ==
    {Missing, Document("long", Version2(<<TaskA(FALSE), TaskF>>)),
     Document("outside", Version2(<<TaskA(FALSE), TaskF>>))}
      \cup {Document("text", text) : text \in
              {Version2(<<TaskA(FALSE), TaskF>>), Version2(<<Remark, TaskA(TRUE), TaskF>>),
               Version2(<<TaskF, TaskA(FALSE)>>), Version1(<<Legacy, TaskF>>),
               Version2(<<Legacy, TaskF>>), Version1(<<TaskA(FALSE), TaskA(TRUE)>>),
               [Version2(<<TaskA(FALSE), TaskF>>) EXCEPT !.ordered = FALSE],
               [Version2(<<TaskA(FALSE), TaskF>>) EXCEPT !.v1 = 1]}}

-----------------------------------------------------------------------------
(* The components share no variable, and the observer's tool calls none    *)
(* with its model calls but the packet in force: each part is checked by   *)
(* itself, the others standing still.                                      *)

Dormant ==
    /\ directory = [name \in FileNames |-> Absent] /\ rulesRoot = "absent"
    /\ request = CHOOSE r \in Requests : TRUE
    /\ discovery = NoDiscovery /\ edits = 0

Unrouted ==
    /\ at = "done"
    /\ work = CHOOSE w \in Works : TRUE
    /\ setting = CHOOSE s \in Settings : TRUE
    /\ up = {} /\ route = NoRoute /\ receipt = NoRoute /\ provenance = <<>>
    /\ changes = 0 /\ sends = <<>>

Unplanned ==
    /\ file = [path \in PlanPaths \cup OtherPaths |-> Missing] /\ approvals = {} /\ runs = <<>>
    /\ indexRevision = 0 /\ cmd = [s \in Sessions |-> Waiting] /\ planEdits = 0 /\ continued = {}

(* Elsewhere there is a good plan. *)
Elsewhere ==
    \A path \in OtherPaths : file[path] = Document("text", Version2(<<TaskA(FALSE), TaskF>>))

(* Where the directory does not matter it is empty, and the name that is   *)
(* not flat is at first the same rule.                                     *)
Directories ==
    /\ rulesRoot # "contained" => directory = [name \in FileNames |-> Absent]
    /\ \A name \in NotFlat : directory[name] \in {Absent, RuleFile(5, 0, <<<<Globstar>>>>)}

MCInit ==
    /\ Init
    /\ \/ part \in {"tools", "models"} /\ Dormant /\ Unrouted /\ Unplanned
       \/ part = "rules" /\ AssemblyInit /\ Directories /\ Unrouted /\ Unplanned
       \/ part = "routing" /\ Dormant /\ RoutingInit /\ Unplanned
       \/ part = "plans" /\ Dormant /\ Unrouted /\ PlanInit /\ Elsewhere

MCNext ==
    /\ UNCHANGED part
    /\ \/ /\ part = "tools" /\ (Turns \/ ToolCalls)
          /\ UNCHANGED <<assemblyVars, routingVars, planVars>>
       \/ /\ part = "models" /\ (Turns \/ ModelCalls)
          /\ UNCHANGED <<assemblyVars, routingVars, planVars>>
       \/ part = "rules" /\ AssemblyNext /\ UNCHANGED <<vars, routingVars, planVars>>
       \/ part = "routing" /\ RoutingNext /\ UNCHANGED <<vars, assemblyVars, planVars>>
       \/ part = "plans" /\ PlanNext /\ UNCHANGED <<vars, assemblyVars, routingVars>>

Spec == MCInit /\ [][MCNext]_<<vars, assemblyVars, routingVars, planVars, part>>
=============================================================================

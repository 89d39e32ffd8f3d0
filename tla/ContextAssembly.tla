--------------------------- MODULE ContextAssembly ---------------------------
(***************************************************************************)
(* The repository's rules: how they are discovered on disk, matched with   *)
(* the paths a session touches and assembled under a byte budget           *)
(* (context/rules-discovery.ts, context/rules-assembly.ts), and how a      *)
(* catalog is compacted (context/catalog-compaction.ts).                   *)
(*                                                                         *)
(* Discovery reads one file after the other, and each file in several      *)
(* awaited steps (lstat, realpath, open and stat, read), while an editor   *)
(* may change the directory.  File names are numbers, in their order.      *)
(***************************************************************************)
EXTENDS Lists, FiniteSets

CONSTANTS
    FileNames,       \* names that end in .md
    NotFlat,         \* those that rejectedName refuses
    Files,           \* what an entry of the directory may be
    Requests,        \* the paths touched, the directive's size, the catalog's entries
    MAX_RULE_BYTES, INJECTION_BUDGET_BYTES, DIRECTIVE_BUDGET_BYTES,
    CATALOG_BUDGET_BYTES, RULES_BUDGET_BYTES,
    MaxEdits         \* bound: changes while discovery runs

Absent == [kind |-> "absent"]
Outside == 0  \* the target of a link that leads out of the rules directory

(* A glob, and a path: its segments, which are characters. *)
Segmented == Seq(Seq(STRING))

ASSUME AssemblyAssumption ==
    /\ FileNames \subseteq Nat \ {Outside} /\ IsFiniteSet(FileNames) /\ NotFlat \subseteq FileNames
    /\ \A file \in Files :
        /\ file.kind = "link" => file.to \in FileNames \cup {Outside}
        /\ file.kind = "file" =>
            /\ file.size \in Nat
            /\ \A rule \in file.rule : rule.order \in Int /\ rule.globs \in Seq(Segmented)
    /\ \A req \in Requests :
        /\ req.directive \in Nat /\ req.paths \subseteq Segmented
        /\ req.entries \in Seq([name : Nat, located : BOOLEAN, bytes : Nat])
    /\ MAX_RULE_BYTES \in Nat /\ DIRECTIVE_BUDGET_BYTES \in Nat
    /\ CATALOG_BUDGET_BYTES \in Nat /\ RULES_BUDGET_BYTES \in Nat
    /\ INJECTION_BUDGET_BYTES
         = DIRECTIVE_BUDGET_BYTES + CATALOG_BUDGET_BYTES + RULES_BUDGET_BYTES
    /\ MaxEdits \in Nat

VARIABLES
    directory,   \* directory[name]: Absent or one of Files
    rulesRoot,   \* how the rules directory resolves
    request,     \* what is to be assembled
    discovery,   \* where discoverRepositoryRules is, and what it has found
    edits        \* changes so far

assemblyVars == <<directory, rulesRoot, request, discovery, edits>>

(* discovery: the names to read, the size lstat gave for the first, the    *)
(* file it resolves to, what open found; the rules and the rejections.     *)
NoDiscovery ==
    [at |-> "idle", listed |-> {}, left |-> {}, size |-> 0, real |-> 0, opened |-> {},
     rules |-> <<>>, rejections |-> {}, ok |-> TRUE]

AssemblyInit ==
    /\ directory \in [FileNames -> Files \cup {Absent}]
    /\ rulesRoot \in {"contained", "absent", "escaped", "unreadable"}
    /\ request \in Requests
    /\ discovery = NoDiscovery /\ edits = 0

-----------------------------------------------------------------------------
(* Discovery                                                               *)

(* An editor: a file appears, goes, or is another one. *)
Edit ==
    /\ edits < MaxEdits /\ edits' = edits + 1
    /\ discovery.at \notin {"idle", "done"}
    /\ \E name \in FileNames, file \in Files \cup {Absent} :
        /\ file # directory[name]
        /\ directory' = [directory EXCEPT ![name] = file]
    /\ UNCHANGED <<rulesRoot, request, discovery>>

(* A rules directory that is not there is an empty one; one that leads out *)
(* of the repository, or cannot be resolved, is an error.                  *)
resolveRulesRoot ==
    CASE rulesRoot = "contained" -> "ok" [] rulesRoot = "absent" -> "absent" [] OTHER -> "error"

(* The directory is listed once, at the start. *)
discoverRepositoryRules ==
    /\ discovery.at = "idle"
    /\ LET names == {name \in FileNames : directory[name] # Absent}
       IN  discovery' =
            IF resolveRulesRoot = "ok"
            THEN [discovery EXCEPT !.at = "name", !.listed = names, !.left = names]
            ELSE [discovery EXCEPT !.at = "done", !.ok = resolveRulesRoot = "absent"]
    /\ UNCHANGED <<directory, rulesRoot, request, edits>>

(* Names are read in their order. *)
Current == CHOOSE name \in discovery.left : \A other \in discovery.left : name <= other

(* A rule that cannot be read is reported, and the next one is read. *)
Rejected ==
    [discovery EXCEPT !.at = "name", !.left = @ \ {Current}, !.opened = {},
                      !.rejections = @ \cup {Current}]

(* What a path opens: links are followed to the end, which may lie outside *)
(* and is a link only if they go round in a circle.                        *)
Resolved(name) ==
    LET step(n) == IF n \in FileNames /\ directory[n].kind = "link" THEN directory[n].to ELSE n
        path[k \in 0..Cardinality(FileNames)] == IF k = 0 THEN name ELSE step(path[k - 1])
    IN  path[Cardinality(FileNames)]

(* The file there; outside it may be any. *)
FilesAt(target) ==
    {f \in IF target = Outside THEN Files ELSE {directory[target]} : f.kind = "file"}

rejectedName(name) == name \in NotFlat

(* The name and lstat: a flat name, a file that is no link, not too large. *)
LstatRule ==
    /\ discovery.at = "name" /\ discovery.left # {}
    /\ LET entry == directory[Current]
       IN  discovery' =
            IF ~rejectedName(Current) /\ entry.kind = "file" /\ entry.size <= MAX_RULE_BYTES
            THEN [discovery EXCEPT !.at = "realpath", !.size = entry.size]
            ELSE Rejected
    /\ UNCHANGED <<directory, rulesRoot, request, edits>>

(* realpath, which must still lie in the rules directory. *)
ResolveRule ==
    /\ discovery.at = "realpath"
    /\ LET real == Resolved(Current)
       IN  discovery' =
            IF real # Outside /\ directory[real].kind \notin {"absent", "link"}
            THEN [discovery EXCEPT !.at = "open", !.real = real]
            ELSE Rejected
    /\ UNCHANGED <<directory, rulesRoot, request, edits>>

(* open and stat: a file of the size that lstat saw.  Where it lies is not *)
(* looked at again: what has become a link by now is followed.             *)
OpenRule ==
    /\ discovery.at = "open"
    /\ LET target == Resolved(discovery.real)
           same == {f \in FilesAt(target) : f.size = discovery.size}
       IN  \/ \E file \in same :
                discovery' = [discovery EXCEPT !.at = "read", !.real = target, !.opened = {file}]
           \/ (target = Outside \/ same = {}) /\ discovery' = Rejected
    /\ UNCHANGED <<directory, rulesRoot, request, edits>>

(* readFile and parseRule.  The handle reads what was opened or, if that   *)
(* was written in place, what the file is now; the size is not looked at   *)
(* again.                                                                  *)
ReadRule ==
    /\ discovery.at = "read"
    /\ \E file \in discovery.opened \cup FilesAt(discovery.real) :
        discovery' =
            IF file.rule = {} THEN Rejected
            ELSE [discovery EXCEPT
                    !.at = "name", !.left = @ \ {Current}, !.opened = {},
                    !.rules = Append(@, [name |-> Current, bytes |-> file.size,
                                         rule |-> CHOOSE rule \in file.rule : TRUE])]
    /\ UNCHANGED <<directory, rulesRoot, request, edits>>

DiscoveryDone ==
    /\ discovery.at = "name" /\ discovery.left = {}
    /\ discovery' = [discovery EXCEPT !.at = "done"]
    /\ UNCHANGED <<directory, rulesRoot, request, edits>>

AssemblyNext ==
    \/ Edit \/ discoverRepositoryRules
    \/ LstatRule \/ ResolveRule \/ OpenRule \/ ReadRule \/ DiscoveryDone

AssemblySpec == AssemblyInit /\ [][AssemblyNext]_assemblyVars

-----------------------------------------------------------------------------
(* Globs: sequences of segments, which are sequences of characters         *)

Globstar == <<"*", "*">>

(* The scan has one position to come back to, after the last star (none is *)
(* at 0), from where that star ends at present: of the source's pi and si, *)
(* both are run further on.                                                *)
segmentMatch(pattern, segment) ==
    LET n == Len(pattern)
        m == Len(segment)
        scan[s \in [star : 0..n, from : 1..(m + 1), run : 0..n]] ==
            LET pi == s.star + 1 + s.run
                si == s.from + s.run
            IN  IF si > m THEN \A i \in pi..n : pattern[i] = "*"
                ELSE IF pi <= n /\ pattern[pi] \in {"?", segment[si]}
                THEN scan[[star |-> s.star, from |-> s.from, run |-> s.run + 1]]
                ELSE IF pi <= n /\ pattern[pi] = "*"
                THEN scan[[star |-> pi, from |-> si, run |-> 0]]
                ELSE s.star > 0 /\ scan[[star |-> s.star, from |-> s.from + 1, run |-> 0]]
    IN  scan[[star |-> 0, from |-> 1, run |-> 0]]

(* A globstar stands for no segment or takes one and stays. *)
matchGlob(glob, path) ==
    LET n == Len(glob)
        m == Len(path)
        scan[s \in [gi : 1..(n + 1), pi : 1..(m + 1)]] ==
            IF s.gi > n \/ s.pi > m THEN s.pi > m /\ \A i \in s.gi..n : glob[i] = Globstar
            ELSE IF glob[s.gi] = Globstar
            THEN scan[[gi |-> s.gi + 1, pi |-> s.pi]] \/ scan[[gi |-> s.gi, pi |-> s.pi + 1]]
            ELSE segmentMatch(glob[s.gi], path[s.pi]) /\ scan[[gi |-> s.gi + 1, pi |-> s.pi + 1]]
    IN  scan[[gi |-> 1, pi |-> 1]]

-----------------------------------------------------------------------------
(* Assembly                                                                *)

filterMatchingRules(rules) ==
    Chosen(rules, {r \in Elements(rules) :
        \E i \in DOMAIN r.rule.globs, path \in request.paths : matchGlob(r.rule.globs[i], path)})

(* Characters of a glob that are no wildcard. *)
Literals(glob) ==
    LET score[n \in 0..Len(glob)] ==
            IF n = 0 THEN 0
            ELSE score[n - 1] + Cardinality({i \in DOMAIN glob[n] : glob[n][i] \notin {"*", "?"}})
    IN  score[Len(glob)]

globSpecificity(globs) ==
    LET max[n \in 0..Len(globs)] ==
            IF n = 0 THEN 0
            ELSE IF Literals(globs[n]) > max[n - 1] THEN Literals(globs[n])
            ELSE max[n - 1]
    IN  max[Len(globs)]

compareRules(a, b) ==
    LET sa == globSpecificity(a.rule.globs)
        sb == globSpecificity(b.rule.globs)
    IN  \/ a.rule.order < b.rule.order
        \/ a.rule.order = b.rule.order /\ sa > sb
        \/ a.rule.order = b.rule.order /\ sa = sb /\ a.name < b.name

(* A stable sort, by the pairs of positions whose first goes before the    *)
(* second: of two that compare equal, that is the one that was before.     *)
Arranged(s, first) ==
    [k \in 1..Len(s) |->
        s[CHOOSE i \in DOMAIN s : Cardinality({j \in DOMAIN s : <<j, i>> \in first}) = k - 1]]

sortRules(rules) ==
    Arranged(rules, {p \in (DOMAIN rules) \X (DOMAIN rules) :
        \/ compareRules(rules[p[1]], rules[p[2]])
        \/ ~compareRules(rules[p[2]], rules[p[1]]) /\ p[1] < p[2]})

Empty == [units |-> <<>>, bytes |-> 0]

Fits(kept, unit, separator, budget) ==
    kept.bytes + unit.bytes + (IF kept.units = <<>> THEN 0 ELSE separator) <= budget

(* A unit is kept whole if it fits beside those kept before it; a smaller  *)
(* one of lower priority may still fit after it.                           *)
Greedy(units, separator, budget) ==
    LET kept[n \in 0..Len(units)] ==
            IF n = 0 THEN Empty
            ELSE IF Fits(kept[n - 1], units[n], separator, budget)
            THEN [units |-> Append(kept[n - 1].units, units[n]),
                  bytes |-> kept[n - 1].bytes + units[n].bytes
                              + (IF kept[n - 1].units = <<>> THEN 0 ELSE separator)]
            ELSE kept[n - 1]
    IN  kept[Len(units)]

(* Slip: the separator is not counted. *)
keepRulesTight(rules) == Greedy(sortRules(filterMatchingRules(rules)), 0, RULES_BUDGET_BYTES)

(* The rules section, joined by an empty line. *)
keepRules(rules) == Greedy(sortRules(filterMatchingRules(rules)), 2, RULES_BUDGET_BYTES)

(* Entries without a name or a location are rejected, the others sorted by *)
(* name and joined by a newline.                                           *)
compactCatalog(entries) ==
    LET valid == Chosen(entries, {e \in Elements(entries) : e.name # 0 /\ e.located})
        first == {p \in (DOMAIN valid) \X (DOMAIN valid) :
                    \/ valid[p[1]].name < valid[p[2]].name
                    \/ valid[p[1]].name = valid[p[2]].name /\ p[1] < p[2]}
    IN  Greedy(Arranged(valid, first), 1, CATALOG_BUDGET_BYTES)

(* A section that is over its cap is dropped; over the whole budget, the   *)
(* rules are.                                                              *)
assembleRules(rules, directive, catalog) ==
    LET capped(bytes, cap) == IF bytes <= cap THEN bytes ELSE 0
        kept == keepRules(rules)
        others == capped(directive, DIRECTIVE_BUDGET_BYTES)
                    + capped(catalog, CATALOG_BUDGET_BYTES)
        section == IF others + kept.bytes > INJECTION_BUDGET_BYTES THEN Empty ELSE kept
    IN  [rules |-> section.units, catalog |-> capped(catalog, CATALOG_BUDGET_BYTES),
         total |-> others + section.bytes]

-----------------------------------------------------------------------------
(* Properties                                                              *)

(* What a pattern of n items means, without a scan: cuts divide the m      *)
(* things it is matched with, an item that is not wild takes one.          *)
Spans(n, m, wild, takes) ==
    \E cut \in [0..n -> 0..m] :
        /\ cut[0] = 0 /\ cut[n] = m
        /\ \A i \in 1..n :
            /\ cut[i] >= cut[i - 1]
            /\ i \notin wild => cut[i] = cut[i - 1] + 1 /\ <<i, cut[i]>> \in takes

SegmentFits(pattern, segment) ==
    Spans(Len(pattern), Len(segment),
          {i \in DOMAIN pattern : pattern[i] = "*"},
          {p \in (DOMAIN pattern) \X (DOMAIN segment) : pattern[p[1]] \in {"?", segment[p[2]]}})

GlobFits(glob, path) ==
    Spans(Len(glob), Len(path),
          {i \in DOMAIN glob : glob[i] = Globstar},
          {p \in (DOMAIN glob) \X (DOMAIN path) : SegmentFits(glob[p[1]], path[p[2]])})

Applies(r, paths) == \E i \in DOMAIN r.rule.globs, path \in paths : GlobFits(r.rule.globs[i], path)

(* The paths that have no star in them. *)
Plain(paths) == {path \in paths : \A i \in DOMAIN path : "*" \notin Elements(path[i])}

(* The size of units when they are joined. *)
Joined(units, separator) ==
    LET size[n \in 0..Len(units)] ==
            IF n = 0 THEN 0
            ELSE size[n - 1] + units[n].bytes + (IF n > 1 THEN separator ELSE 0)
    IN  size[Len(units)]

(* When discovery is done, whatever changed on disk while it read: every   *)
(* file listed is a rule or is reported, once, so that a bad one hides no  *)
(* other; the assembled rules are those that apply, by what their globs    *)
(* mean, in priority order and within the budgets; one that applies (to a  *)
(* path without a star) is left out only if it does not fit beside those   *)
(* before it; and a compacted catalog is never dropped.                    *)
RulesAreWhole ==
    LET read == discovery.rules
        catalog == compactCatalog(request.entries)
        assembled == assembleRules(read, request.directive, catalog.bytes)
        kept == assembled.rules
        before(r) == Chosen(kept, {k \in Elements(kept) : compareRules(k, r)})
    IN  discovery.at = "done" /\ discovery.ok =>
            /\ {r.name : r \in Elements(read)} \cup discovery.rejections = discovery.listed
            /\ Len(read) + Cardinality(discovery.rejections) = Cardinality(discovery.listed)
            /\ \A i, j \in DOMAIN kept : i < j => compareRules(kept[i], kept[j])
            /\ \A r \in Elements(kept) : r \in Elements(read) /\ Applies(r, request.paths)
            /\ \A r \in Elements(read) \ Elements(kept) :
                Applies(r, Plain(request.paths)) =>
                    Joined(Append(before(r), r), 2) > RULES_BUDGET_BYTES
            /\ Joined(kept, 2) <= RULES_BUDGET_BYTES
            /\ assembled.total <= INJECTION_BUDGET_BYTES
            /\ assembled.catalog = catalog.bytes
            /\ Joined(catalog.units, 1) <= CATALOG_BUDGET_BYTES

(* A glob matches the paths it means, by the description of matchGlob: a   *)
(* star is any characters of a segment, a globstar any segments.           *)
GlobsAreAsDocumented ==
    discovery.at = "done" =>
        \A r \in Elements(discovery.rules), path \in request.paths :
            \A i \in DOMAIN r.rule.globs :
                matchGlob(r.rule.globs[i], path) <=> GlobFits(r.rule.globs[i], path)
=============================================================================

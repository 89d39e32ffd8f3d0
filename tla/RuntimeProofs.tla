--------------------------- MODULE RuntimeProofs ---------------------------
(***************************************************************************)
(* Proofs about PlanApproval: whatever an editor does to the plans while   *)
(* the commands read them, a run's tasks are those its creator approved,   *)
(* they never change, and a continuation names one of them.                *)
(*                                                                         *)
(* Proofs about RuntimeObserver: the calls of a packet stay within its     *)
(* budgets, the model is called with the current context, and the records  *)
(* of the model calls are of different calls and name the right packet.    *)
(*                                                                         *)
(* Both rest on what a filter makes of a list, which comes first.          *)
(*                                                                         *)
(* Proofs about WorkerRouting: a packet goes through the roles of its tier *)
(* in order and at most twice to each, and goes to the first model that is *)
(* there.  They rest on recursion: a function whose value at an argument   *)
(* depends on smaller ones satisfies its own definition.                   *)
(*                                                                         *)
(* Proofs about ContextAssembly: what the glob scans compute, that sorting *)
(* arranges and that the greedy choice leaves out only what does not fit;  *)
(* with them, that discovery loses no file and assembly no rule.           *)
(***************************************************************************)
EXTENDS RuntimeObserver, PlanApproval, WorkerRouting, ContextAssembly,
        FiniteSetTheorems, SequenceTheorems, WellFoundedInduction, TLAPS

(* Induction: a set of numbers that is not empty has a least. *)
LEMMA LeastExists ==
    ASSUME NEW I \in SUBSET Nat, I # {}
    PROVE  \E least \in I : \A i \in I : least <= i
<1> DEFINE R == {ss \in Nat \X Nat : ss[1] < ss[2]}
<1>1. IsWellFoundedOn(R, Nat)
    <2>1. R = OpToRel(<, Nat) BY Zenon DEF OpToRel
    <2> QED BY <2>1, NatLessThanWellFounded
<1> HIDE DEF R
<1>2. PICK least \in I : \A i \in I : ~(<<i, least>> \in R)
    BY <1>1, WFMin
<1>3. \A i \in I : least <= i
    <2> TAKE i \in I
    <2>1. ~(<<i, least>> \in R) BY <1>2
    <2> QED BY <2>1 DEF R
<1> QED BY <1>3

IsSeq(s) == \E S : s \in Seq(S)

(* What a sequence is to the provers. *)
LEMMA SeqFacts ==
    ASSUME NEW s, IsSeq(s)
    PROVE  Len(s) \in Nat /\ DOMAIN s = 1 .. Len(s)
BY DEF IsSeq

-----------------------------------------------------------------------------
(* Filters                                                                 *)

(* The filter of a list is what its recursion computes: the function the   *)
(* definition chooses exists.                                              *)
LEMMA ChosenUnfolds ==
    ASSUME NEW lines, IsSeq(lines), NEW chosen
    PROVE  \E kept : /\ Chosen(lines, chosen) = kept[Len(lines)]
                     /\ \A n \in 0 .. Len(lines) :
                           kept[n] = IF n = 0 THEN <<>>
                                     ELSE IF lines[n] \in chosen THEN Append(kept[n - 1], lines[n])
                                     ELSE kept[n - 1]
<1>1. PICK T : lines \in Seq(T)
    BY DEF IsSeq
<1> DEFINE body(f, n) == IF n = 0 THEN <<>>
                         ELSE IF lines[n] \in chosen THEN Append(f[n - 1], lines[n]) ELSE f[n - 1]
           upTo(n, f) == f = [m \in 0 .. n |-> body(f, m)]
           kept == CHOOSE f : upTo(Len(lines), f)
<1>2. Chosen(lines, chosen) = kept[Len(lines)]
    BY DEF Chosen
<1>3. \E f : upTo(Len(lines), f)
    <2> DEFINE wrong == {n \in 0 .. Len(lines) : ~\E f : upTo(n, f)}
    <2>1. SUFFICES ASSUME wrong # {} PROVE FALSE
        <3>1. Len(lines) \in 0 .. Len(lines)
            BY <1>1
        <3> HIDE DEF upTo
        <3> QED BY <3>1
    <2>2. PICK n \in wrong : \A m \in wrong : n <= m
        <3>1. wrong \in SUBSET Nat
            BY <1>1
        <3> HIDE DEF wrong
        <3> QED BY <2>1, <3>1, LeastExists
    <2>3. n # 0
        <3> DEFINE f == [m \in 0 .. 0 |-> <<>>]
        <3>1. upTo(0, f)
            OBVIOUS
        <3> HIDE DEF f, upTo
        <3> QED BY <3>1
    <2>4. PICK f : upTo(n - 1, f)
        <3>1. n - 1 \notin wrong /\ n - 1 \in 0 .. Len(lines)
            <4> HIDE DEF upTo
            <4> QED BY <1>1, <2>2, <2>3
        <3> HIDE DEF upTo
        <3> QED BY <3>1
    <2> DEFINE g == [m \in 0 .. n |-> IF m = n THEN body(f, n) ELSE f[m]]
    <2>5. n \in Nat /\ n > 0
        BY <1>1, <2>3
    <2>6. \A m \in 0 .. (n - 1) : f[m] = body(f, m)
        BY <2>4, <2>5
    <2>7. \A m \in 0 .. n : g[m] = body(g, m)
        <3> SUFFICES ASSUME NEW m \in 0 .. n PROVE g[m] = body(g, m)
            OBVIOUS
        <3>1. CASE m = n
            <4>1. g[n] = body(f, n) /\ g[n - 1] = f[n - 1] /\ n # 0
                BY <2>5
            <4> HIDE DEF g
            <4> QED BY <3>1, <4>1
        <3>2. CASE m # n
            <4>1. g[m] = f[m] /\ (m # 0 => g[m - 1] = f[m - 1])
                BY <2>5, <3>2
            <4>2. f[m] = body(f, m)
                <5>1. m \in 0 .. (n - 1)
                    BY <2>5, <3>2
                <5> HIDE DEF body
                <5> QED BY <2>6, <5>1
            <4> HIDE DEF g
            <4> QED BY <4>1, <4>2
        <3> QED BY <3>1, <3>2
    <2>8. upTo(n, g)
        <3> HIDE DEF body
        <3> QED BY <2>7
    <2> HIDE DEF upTo, g
    <2> QED BY <2>8
<1>4. \A n \in 0 .. Len(lines) : kept[n] = body(kept, n)
    <2>1. upTo(Len(lines), kept)
        <3> HIDE DEF upTo
        <3> QED BY <1>3
    <2> HIDE DEF kept, body
    <2> QED BY <2>1
<1> HIDE DEF kept
<1> QED BY <1>2, <1>4

(* A filter keeps chosen elements that were there. *)
LEMMA ChosenFacts ==
    ASSUME NEW lines, IsSeq(lines), NEW chosen
    PROVE  /\ IsSeq(Chosen(lines, chosen))
           /\ \A i \in 1 .. Len(Chosen(lines, chosen)) :
                /\ Chosen(lines, chosen)[i] \in chosen
                /\ \E k \in 1 .. Len(lines) : Chosen(lines, chosen)[i] = lines[k]
<1>1. PICK T : lines \in Seq(T)
    BY DEF IsSeq
<1>2. PICK kept : /\ Chosen(lines, chosen) = kept[Len(lines)]
                  /\ \A n \in 0 .. Len(lines) :
                        kept[n] = IF n = 0 THEN <<>>
                                  ELSE IF lines[n] \in chosen THEN Append(kept[n - 1], lines[n])
                                  ELSE kept[n - 1]
    BY ChosenUnfolds
<1> DEFINE right(s) == /\ s \in Seq(T)
                       /\ \A i \in 1 .. Len(s) :
                             s[i] \in chosen /\ \E k \in 1 .. Len(lines) : s[i] = lines[k]
<1>5. \A n \in 0 .. Len(lines) : right(kept[n])
    <2> DEFINE wrong == {n \in 0 .. Len(lines) : ~right(kept[n])}
    <2>1. SUFFICES ASSUME wrong # {} PROVE FALSE
        OBVIOUS
    <2>2. PICK n \in wrong : \A m \in wrong : n <= m
        <3>1. wrong \in SUBSET Nat
            BY <1>1
        <3> HIDE DEF wrong
        <3> QED BY <2>1, <3>1, LeastExists
    <2>3. n \in 0 .. Len(lines) /\ ~right(kept[n])
        OBVIOUS
    <2>4. n # 0
        <3>1. right(<<>>)
            OBVIOUS
        <3> HIDE DEF right
        <3> QED BY <1>2, <2>3, <3>1
    <2>5. right(kept[n - 1])
        <3>1. n - 1 \notin wrong /\ n - 1 \in 0 .. Len(lines)
            <4> HIDE DEF right
            <4> QED BY <1>1, <2>2, <2>3, <2>4
        <3> HIDE DEF right
        <3> QED BY <3>1
    <2>6. lines[n] \in T
        BY <1>1, <2>3, <2>4
    <2>7. lines[n] \in chosen => right(Append(kept[n - 1], lines[n]))
        BY <1>1, <2>3, <2>4, <2>5, <2>6
    <2> HIDE DEF right, wrong
    <2> QED BY <1>2, <2>3, <2>4, <2>5, <2>7
<1>6. Len(lines) \in 0 .. Len(lines)
    BY <1>1
<1>7. right(kept[Len(lines)])
    <2> HIDE DEF right
    <2> QED BY <1>5, <1>6
<1> QED BY <1>2, <1>7 DEF IsSeq

(* A filter goes element by element. *)
LEMMA ChosenAppend ==
    ASSUME NEW s, IsSeq(s), NEW x, NEW A, NEW B, \A e \in Elements(s) : e \in A <=> e \in B
    PROVE  Chosen(Append(s, x), B) = IF x \in B THEN Append(Chosen(s, A), x) ELSE Chosen(s, A)
<1>1. PICK T : s \in Seq(T)
    BY DEF IsSeq
<1> DEFINE t == Append(s, x)
<1>2. /\ IsSeq(t) /\ Len(t) = Len(s) + 1 /\ t[Len(s) + 1] = x
      /\ \A i \in 1 .. Len(s) : t[i] = s[i]
    <2>1. s \in Seq(T \cup {x}) /\ x \in T \cup {x}
        BY <1>1
    <2> QED BY <2>1 DEF IsSeq
<1> HIDE DEF t
<1>3. PICK f : /\ Chosen(s, A) = f[Len(s)]
               /\ \A n \in 0 .. Len(s) : f[n] = IF n = 0 THEN <<>>
                                              ELSE IF s[n] \in A THEN Append(f[n - 1], s[n])
                                              ELSE f[n - 1]
    BY ChosenUnfolds
<1>4. PICK g : /\ Chosen(t, B) = g[Len(t)]
               /\ \A n \in 0 .. Len(t) : g[n] = IF n = 0 THEN <<>>
                                              ELSE IF t[n] \in B THEN Append(g[n - 1], t[n])
                                              ELSE g[n - 1]
    BY <1>2, ChosenUnfolds
<1>5. \A n \in 0 .. Len(s) : f[n] = g[n]
    <2> DEFINE wrong == {n \in 0 .. Len(s) : f[n] # g[n]}
    <2>1. SUFFICES ASSUME wrong # {} PROVE FALSE
        OBVIOUS
    <2>2. PICK n \in wrong : \A m \in wrong : n <= m
        <3>1. wrong \in SUBSET Nat
            BY <1>1
        <3> HIDE DEF wrong
        <3> QED BY <2>1, <3>1, LeastExists
    <2>3. n \in 0 .. Len(s) /\ n \in 0 .. Len(t) /\ f[n] # g[n]
        BY <1>1, <1>2
    <2>4. n # 0
        BY <1>3, <1>4, <2>3
    <2>5. f[n - 1] = g[n - 1]
        BY <1>1, <2>2, <2>3, <2>4
    <2>6. s[n] = t[n] /\ (s[n] \in A <=> t[n] \in B)
        BY <1>1, <1>2, <2>3, <2>4 DEF Elements
    <2> HIDE DEF wrong
    <2> QED BY <1>3, <1>4, <2>3, <2>4, <2>5, <2>6
<1>6. Len(s) \in Nat /\ Len(t) \in 0 .. Len(t) /\ Len(s) \in 0 .. Len(s) /\ Len(t) # 0
    BY <1>1, <1>2
<1>7. g[Len(t)] = IF x \in B THEN Append(g[Len(s)], x) ELSE g[Len(s)]
    BY <1>2, <1>4, <1>6
<1>8. Chosen(t, B) = IF x \in B THEN Append(Chosen(s, A), x) ELSE Chosen(s, A)
    BY <1>3, <1>4, <1>5, <1>6, <1>7
<1> QED BY <1>8 DEF t

(* Nothing is left of nothing. *)
LEMMA ChosenEmpty ==
    ASSUME NEW A
    PROVE  Chosen(<<>>, A) = <<>>
<1>1. IsSeq(<<>>) /\ Len(<<>>) = 0 /\ 0 \in 0 .. Len(<<>>)
    BY DEF IsSeq
<1> QED BY <1>1, ChosenUnfolds

-----------------------------------------------------------------------------
(* The texts of plans                                                      *)

(* The check list of a text is a sequence. *)
LEMMA ChecklistIsSeq ==
    ASSUME NEW text, IsSeq(text.lines)
    PROVE  IsSeq(parseChecklist(text))
<1> DEFINE counts == {line \in Elements(text.lines) : line.section \in {"todos", "final"}}
<1>1. parseChecklist(text) = Chosen(text.lines, counts)
    BY DEF parseChecklist
<1> HIDE DEF counts
<1>2. IsSeq(Chosen(text.lines, counts))
    BY ChosenFacts
<1> QED BY <1>1, <1>2

(* The first task that is not ticked is one of the plan's. *)
LEMMA HeadIsTask ==
    ASSUME NEW text, IsSeq(text.lines), NEW plan \in normalizeStartWorkPlan(text), plan.remaining # <<>>
    PROVE  Head(plan.remaining) \in Elements(plan.taskIds)
<1> DEFINE lines == parseChecklist(text)
           unticked == {line \in Elements(lines) : ~line.checked}
           open == Chosen(lines, unticked)
<1>1. /\ plan.taskIds = [i \in DOMAIN lines |-> TaskId(lines[i])]
      /\ plan.remaining = [i \in DOMAIN open |-> TaskId(open[i])]
    <2> DEFINE whole == [taskIds |-> [i \in DOMAIN lines |-> TaskId(lines[i])],
                         remaining |-> [i \in DOMAIN open |-> TaskId(open[i])],
                         fingerprint |-> [i \in DOMAIN lines |-> <<lines[i].section, TaskId(lines[i])>>]]
    <2>1. normalizeStartWorkPlan(text) = {} \/ normalizeStartWorkPlan(text) = {whole}
        BY Zenon DEF normalizeStartWorkPlan
    <2>2. plan = whole
        <3> HIDE DEF whole
        <3> QED BY <2>1
    <2> HIDE DEF lines, open
    <2> QED BY <2>2
<1>2. IsSeq(lines)
    BY ChecklistIsSeq
<1> HIDE DEF lines, unticked
<1>3. IsSeq(open) /\ \A i \in 1 .. Len(open) : \E k \in 1 .. Len(lines) : open[i] = lines[k]
    BY <1>2, ChosenFacts
<1> HIDE DEF open
<1>4. Len(open) \in Nat /\ DOMAIN open = 1 .. Len(open) /\ DOMAIN lines = 1 .. Len(lines)
    BY <1>2, <1>3, SeqFacts
<1>5. Len(open) # 0
    <2> SUFFICES ASSUME Len(open) = 0 PROVE FALSE
        OBVIOUS
    <2>1. DOMAIN open = {}
        BY <1>4
    <2>2. plan.remaining = <<>>
        BY <1>1, <2>1
    <2> QED BY <2>2
<1>6. 1 \in DOMAIN open /\ Head(plan.remaining) = TaskId(open[1])
    <2>1. 1 \in DOMAIN open
        BY <1>4, <1>5
    <2>2. plan.remaining \in Seq({TaskId(open[i]) : i \in DOMAIN open})
        BY <1>1, <1>4
    <2> QED BY <1>1, <2>1, <2>2
<1>7. PICK k \in 1 .. Len(lines) : open[1] = lines[k]
    BY <1>3, <1>4, <1>6
<1>8. k \in DOMAIN plan.taskIds /\ plan.taskIds[k] = Head(plan.remaining)
    BY <1>1, <1>4, <1>6, <1>7
<1> QED BY <1>8 DEF Elements

-----------------------------------------------------------------------------
(* The invariant                                                           *)

Plans == UNION {normalizeStartWorkPlan(text) : text \in Claims}

Run == [owner : Sessions, creator : Sessions, live : BOOLEAN, path : PlanPaths,
        taskIds : {plan.taskIds : plan \in Plans},
        fingerprint : {plan.fingerprint : plan \in Plans}]

(* ApprovedFor, of these approvals. *)
Approved(given, run) ==
    \E a \in given : /\ a.session = run.creator
                     /\ \E plan \in normalizeStartWorkPlan(a.text) : plan.taskIds = run.taskIds

(* A continuation's task is the first of the run's tasks that is not       *)
(* ticked in the text it was read from.                                    *)
Continues(rs, c) ==
    /\ c.run \in DOMAIN rs /\ c.text \in Claims
    /\ \E plan \in normalizeStartWorkPlan(c.text) :
          /\ plan.taskIds = rs[c.run].taskIds
          /\ plan.remaining # <<>> /\ c.task = Head(plan.remaining)

(* What a command of session s has read is still as it read it, or was     *)
(* then and that is all it needs.                                          *)
Sound(rs, given, s, c) ==
    /\ c.at \in {"planned", "approved", "creating"} =>
          /\ c.read.path \in PlanPaths /\ c.read.text \in Claims
          /\ c.read.plan \in normalizeStartWorkPlan(c.read.text)
    /\ c.at \in {"approved", "creating"} => [text |-> c.read.text, session |-> s] \in given
    /\ c.at = "reconciling" =>
          c.run \in DOMAIN rs /\ c.plan \in Plans /\ Matches(rs[c.run], c.plan)
    /\ c.at = "stopping" =>
          c.run \in DOMAIN rs /\ c.copy.path \in PlanPaths /\ c.copy.taskIds = rs[c.run].taskIds
    /\ c.at = "continuing" => Continues(rs, c)

PlanInv ==
    /\ file \in [PlanPaths \cup OtherPaths -> Documents]
    /\ runs \in Seq(Run)
    /\ cmd = [s \in Sessions |-> cmd[s]]
    /\ \A r \in DOMAIN runs : Approved(approvals, runs[r])
    /\ \A s \in Sessions : Sound(runs, approvals, s, cmd[s])
    /\ \A c \in continued : Continues(runs, c)

(* Runs are only added, and keep their plan, their creator and their tasks. *)
Kept(rs, later) ==
    \A r \in DOMAIN rs :
        /\ r \in DOMAIN later
        /\ later[r].path = rs[r].path /\ later[r].creator = rs[r].creator
        /\ later[r].taskIds = rs[r].taskIds /\ later[r].fingerprint = rs[r].fingerprint

RunsKeepTheirTasks == Kept(runs, runs')

(* What is read from a path is a plan of a text that was there. *)
LEMMA ReadIsPlan ==
    ASSUME file \in [PlanPaths \cup OtherPaths -> Documents],
           NEW path, NEW read \in readContainedPlan(path)
    PROVE  /\ read.path \in PlanPaths /\ read.text \in Claims
           /\ read.plan \in normalizeStartWorkPlan(read.text) /\ read.plan \in Plans
<1>1. PICK text \in containedFile(path) :
          \E plan \in normalizeStartWorkPlan(text) : read = [path |-> path, text |-> text, plan |-> plan]
    BY DEF readContainedPlan
<1>2. path \in PlanPaths /\ file[path].kind = "text" /\ text = file[path].text
    BY <1>1 DEF containedFile
<1>3. file[path] \in Documents \ {Missing}
    BY <1>2 DEF Missing
<1>4. text \in Claims
    BY <1>2, <1>3 DEF Claims
<1> QED BY <1>1, <1>2, <1>4 DEF Plans

(* The lines of a text are a sequence. *)
LEMMA ClaimsHaveLines ==
    ASSUME NEW text \in Claims
    PROVE  IsSeq(text.lines)
BY PlanAssumption DEF Claims, IsSeq

(* What runs and approvals that only grow do not disturb. *)
LEMMA SoundStays ==
    ASSUME NEW rs, NEW later, Kept(rs, later), NEW given, NEW more, given \subseteq more
    PROVE  /\ \A s, c : Sound(rs, given, s, c) => Sound(later, more, s, c)
           /\ \A c : Continues(rs, c) => Continues(later, c)
           /\ \A r \in DOMAIN rs : Approved(given, rs[r]) => Approved(more, later[r])
<1>1. \A c : Continues(rs, c) => Continues(later, c)
    BY DEF Continues, Kept
<1>2. \A s, c : Sound(rs, given, s, c) => Sound(later, more, s, c)
    BY <1>1 DEF Sound, Kept, Matches
<1>3. \A r \in DOMAIN rs : Approved(given, rs[r]) => Approved(more, later[r])
    BY DEF Approved, Kept
<1> QED BY <1>1, <1>2, <1>3

(* The initial state satisfies the invariant. *)
LEMMA InitPlanInv == PlanInit => PlanInv
<1> SUFFICES ASSUME PlanInit PROVE PlanInv
    OBVIOUS
<1>1. \A s \in Sessions : Sound(runs, approvals, s, cmd[s])
    BY DEF PlanInit, Sound, Waiting
<1> QED BY <1>1 DEF PlanInit, PlanInv

(* A step that leaves the runs, the approvals and what was continued alone *)
(* and puts a command in a sound state.                                    *)
LEMMA QuietStep ==
    ASSUME PlanInv, UNCHANGED shared, NEW s \in Sessions, NEW c, Goes(s, c),
           Sound(runs, approvals, s, c)
    PROVE  PlanInv' /\ Kept(runs, runs')
<1>1. /\ cmd' = [o \in Sessions |-> cmd'[o]] /\ cmd'[s] = c
      /\ \A o \in Sessions \ {s} : cmd'[o] = cmd[o]
    BY DEF PlanInv, Goes
<1>2. \A o \in Sessions : Sound(runs, approvals, o, cmd'[o])
    BY <1>1 DEF PlanInv
<1> QED BY <1>1, <1>2 DEF PlanInv, shared, Kept

(* A step that adds runs or approvals and ends its command, or leaves it. *)
LEMMA SharedStep ==
    ASSUME PlanInv, runs' \in Seq(Run), Kept(runs, runs'), approvals \subseteq approvals',
           UNCHANGED <<file, continued>>,
           UNCHANGED cmd \/ \E s \in Sessions : Goes(s, Waiting),
           \A r \in DOMAIN runs' \ DOMAIN runs : Approved(approvals', runs'[r])
    PROVE  PlanInv'
<1>1. \A s, c : Sound(runs, approvals, s, c) => Sound(runs', approvals', s, c)
    BY SoundStays
<1>2. /\ \A c : Continues(runs, c) => Continues(runs', c)
      /\ \A r \in DOMAIN runs : Approved(approvals, runs[r]) => Approved(approvals', runs'[r])
    BY SoundStays
<1>3. \A o \in Sessions : Sound(runs', approvals', o, Waiting)
    BY DEF Sound, Waiting
<1>4. /\ cmd' = [o \in Sessions |-> cmd'[o]]
      /\ \A o \in Sessions : cmd'[o] = cmd[o] \/ cmd'[o] = Waiting
    BY DEF PlanInv, Goes
<1>5. \A o \in Sessions : Sound(runs', approvals', o, cmd'[o])
    BY <1>1, <1>3, <1>4 DEF PlanInv
<1>6. \A r \in DOMAIN runs' : Approved(approvals', runs'[r])
    BY <1>2 DEF PlanInv
<1>7. \A c \in continued' : Continues(runs', c)
    BY <1>2 DEF PlanInv
<1> QED BY <1>4, <1>5, <1>6, <1>7 DEF PlanInv

-----------------------------------------------------------------------------
(* The steps                                                               *)

(* The editor changes only what is read later. *)
LEMMA EditStep ==
    ASSUME PlanInv, EditPlan
    PROVE  PlanInv' /\ Kept(runs, runs')
<1>1. file' \in [PlanPaths \cup OtherPaths -> Documents]
    BY DEF PlanInv, EditPlan
<1> QED BY <1>1 DEF PlanInv, EditPlan, Kept

(* Approving. *)
LEMMA ApproveStep ==
    ASSUME PlanInv, NEW s \in Sessions,
           \/ \E path \in PlanPaths \cup OtherPaths : \E text \in Claims : ApproveRead(s, path, text)
           \/ ApproveWrite(s) \/ ApproveTimeout(s)
    PROVE  PlanInv' /\ Kept(runs, runs')
<1>1. ASSUME NEW path, NEW text, ApproveRead(s, path, text)
      PROVE  PlanInv' /\ Kept(runs, runs')
    <2>1. PICK read : Goes(s, [at |-> "approving", text |-> read.text])
        BY <1>1 DEF ApproveRead
    <2>2. Sound(runs, approvals, s, [at |-> "approving", text |-> read.text])
        BY DEF Sound
    <2> QED BY <1>1, <2>1, <2>2, QuietStep DEF ApproveRead
<1>2. ASSUME ApproveWrite(s)
      PROVE  PlanInv' /\ Kept(runs, runs')
    <2>1. approvals \subseteq approvals' /\ UNCHANGED <<file, continued, runs>> /\ Goes(s, Waiting)
        BY <1>2 DEF ApproveWrite
    <2>2. runs' \in Seq(Run) /\ Kept(runs, runs') /\ DOMAIN runs' \ DOMAIN runs = {}
        BY <2>1 DEF PlanInv, Kept
    <2> QED BY <2>1, <2>2, SharedStep
<1>3. ASSUME ApproveTimeout(s)
      PROVE  PlanInv' /\ Kept(runs, runs')
    <2>1. Sound(runs, approvals, s, Waiting)
        BY DEF Sound, Waiting
    <2> QED BY <1>3, <2>1, QuietStep DEF ApproveTimeout
<1> QED BY <1>1, <1>2, <1>3

(* createStartWork up to its commit: what was read stays read, and an      *)
(* approval is never withdrawn.                                            *)
LEMMA CreateStep ==
    ASSUME PlanInv, NEW s \in Sessions,
           \/ \E path \in PlanPaths \cup OtherPaths : CreateRead(s, path)
           \/ CreateCheck(s) \/ CreateLookup(s) \/ CommitRefused(s)
    PROVE  PlanInv' /\ Kept(runs, runs')
<1>0. Sound(runs, approvals, s, Waiting)
    BY DEF Sound, Waiting
<1>1. ASSUME NEW path, CreateRead(s, path)
      PROVE  PlanInv' /\ Kept(runs, runs')
    <2>1. PICK read \in readContainedPlan(path) : Goes(s, [at |-> "planned", read |-> read])
        BY <1>1 DEF CreateRead
    <2>2. Sound(runs, approvals, s, [at |-> "planned", read |-> read])
        BY ReadIsPlan DEF Sound, PlanInv
    <2> QED BY <1>1, <2>1, <2>2, QuietStep DEF CreateRead
<1>2. ASSUME CreateCheck(s)
      PROVE  PlanInv' /\ Kept(runs, runs')
    <2> DEFINE next == [at |-> "approved", read |-> cmd[s].read]
    <2>1. UNCHANGED shared /\ (Goes(s, next) \/ Goes(s, Waiting))
        BY <1>2 DEF CreateCheck
    <2>2. planIsApproved(s, cmd[s].read.text) => Sound(runs, approvals, s, next)
        BY <1>2 DEF CreateCheck, Sound, PlanInv, planIsApproved
    <2>3. CASE planIsApproved(s, cmd[s].read.text)
        <3>1. Goes(s, next)
            BY <1>2, <2>3 DEF CreateCheck
        <3> HIDE DEF next
        <3> QED BY <2>1, <2>2, <2>3, <3>1, QuietStep
    <2>4. CASE ~planIsApproved(s, cmd[s].read.text)
        <3>1. Goes(s, Waiting)
            BY <1>2, <2>4 DEF CreateCheck
        <3> QED BY <1>0, <2>1, <3>1, QuietStep
    <2> QED BY <2>3, <2>4
<1>3. ASSUME CreateLookup(s)
      PROVE  PlanInv' /\ Kept(runs, runs')
    <2> DEFINE next == [at |-> "creating", read |-> cmd[s].read, revision |-> indexRevision]
    <2>1. UNCHANGED shared /\ (Goes(s, next) \/ Goes(s, Waiting))
        BY <1>3 DEF CreateLookup
    <2>2. Sound(runs, approvals, s, next)
        BY <1>3 DEF CreateLookup, Sound, PlanInv
    <2> HIDE DEF next
    <2> QED BY <1>0, <2>1, <2>2, QuietStep
<1>4. ASSUME CommitRefused(s)
      PROVE  PlanInv' /\ Kept(runs, runs')
    BY <1>0, <1>4, QuietStep DEF CommitRefused
<1> QED BY <1>1, <1>2, <1>3, <1>4

(* The commit of createStartWork: the new run's tasks were approved by the *)
(* session that creates it, in the bytes they were read from.              *)
LEMMA CreateCommitStep ==
    ASSUME PlanInv, NEW s \in Sessions, CreateCommit(s)
    PROVE  PlanInv' /\ Kept(runs, runs')
<1> DEFINE read == cmd[s].read
           new == [owner |-> s, creator |-> s, live |-> TRUE, path |-> read.path,
                   taskIds |-> read.plan.taskIds, fingerprint |-> read.plan.fingerprint]
<1>1. runs' = Append(runs, new) /\ UNCHANGED <<file, approvals, continued>> /\ Goes(s, Waiting)
    BY DEF CreateCommit
<1>2. /\ read.path \in PlanPaths /\ read.text \in Claims
      /\ read.plan \in normalizeStartWorkPlan(read.text)
      /\ [text |-> read.text, session |-> s] \in approvals
    BY DEF CreateCommit, Sound, PlanInv
<1>3. read.plan \in Plans
    BY <1>2 DEF Plans
<1>4. new \in Run
    BY <1>2, <1>3 DEF Run
<1>5. Approved(approvals, new)
    <2>1. PICK a \in approvals : a.text = read.text /\ a.session = s
        BY <1>2
    <2> QED BY <1>2, <2>1 DEF Approved
<1> HIDE DEF new
<1>6. runs \in Seq(Run)
    BY DEF PlanInv
<1>7. /\ runs' \in Seq(Run) /\ \A r \in DOMAIN runs : r \in DOMAIN runs' /\ runs'[r] = runs[r]
      /\ \A r \in DOMAIN runs' \ DOMAIN runs : runs'[r] = new
    BY <1>1, <1>4, <1>6
<1>8. Kept(runs, runs')
    BY <1>7 DEF Kept
<1>9. \A r \in DOMAIN runs' \ DOMAIN runs : Approved(approvals', runs'[r])
    BY <1>1, <1>5, <1>7
<1> QED BY <1>1, <1>7, <1>8, <1>9, SharedStep

(* Reconciling reads a plan with the run's tasks, and so writes the tasks  *)
(* the run has.                                                            *)
LEMMA ReconcileStep ==
    ASSUME PlanInv, NEW s \in Sessions,
           (\E path \in PlanPaths \cup OtherPaths : Reconcile(s, path)) \/ ReconcileCommit(s)
    PROVE  PlanInv' /\ Kept(runs, runs')
<1>1. ASSUME NEW path, Reconcile(s, path)
      PROVE  PlanInv' /\ Kept(runs, runs')
    <2>1. PICK r \in Owned(s), read \in readContainedPlan(path) :
              /\ Matches(runs[r], read.plan)
              /\ Goes(s, [at |-> "reconciling", run |-> r, plan |-> read.plan, revision |-> indexRevision])
        BY <1>1 DEF Reconcile
    <2>2. r \in DOMAIN runs /\ read.plan \in Plans
        BY ReadIsPlan DEF Owned, PlanInv
    <2> DEFINE next == [at |-> "reconciling", run |-> r, plan |-> read.plan, revision |-> indexRevision]
    <2>3. Sound(runs, approvals, s, next)
        BY <2>1, <2>2 DEF Sound
    <2>4. Goes(s, next) /\ UNCHANGED shared
        BY <1>1, <2>1 DEF Reconcile
    <2> HIDE DEF next
    <2> QED BY <2>3, <2>4, QuietStep
<1>2. ASSUME ReconcileCommit(s)
      PROVE  PlanInv' /\ Kept(runs, runs')
    <2> DEFINE r == cmd[s].run
               plan == cmd[s].plan
               again == [runs[r] EXCEPT !.taskIds = plan.taskIds, !.fingerprint = plan.fingerprint]
    <2>1. r \in DOMAIN runs /\ plan \in Plans /\ Matches(runs[r], plan)
        BY <1>2 DEF ReconcileCommit, Sound, PlanInv
    <2>2. runs \in Seq(Run) /\ runs[r] \in Run
        BY <2>1 DEF PlanInv
    <2>3. runs' = [runs EXCEPT ![r] = again]
        BY <1>2, <2>1, <2>2 DEF ReconcileCommit, Run
    <2>4. again \in Run /\ again.path = runs[r].path /\ again.creator = runs[r].creator
          /\ again.taskIds = runs[r].taskIds /\ again.fingerprint = runs[r].fingerprint
        BY <2>1, <2>2 DEF Run, Matches
    <2> HIDE DEF again, r
    <2>5. runs' \in Seq(Run) /\ DOMAIN runs' = DOMAIN runs
          /\ runs'[r] = again /\ \A k \in DOMAIN runs \ {r} : runs'[k] = runs[k]
        BY <2>1, <2>2, <2>3, <2>4
    <2>6. Kept(runs, runs')
        BY <2>4, <2>5 DEF Kept
    <2>7. UNCHANGED <<file, continued, approvals>> /\ Goes(s, Waiting)
        BY <1>2 DEF ReconcileCommit
    <2> QED BY <2>5, <2>6, <2>7, SharedStep
<1> QED BY <1>1, <1>2

(* Adoption and the end of a run change who has it and whether it goes on. *)
LEMMA OwnerStep ==
    ASSUME PlanInv, NEW r \in DOMAIN runs,
           (\E s \in Sessions : AdoptPlan(s, r)) \/ EndPlan(r)
    PROVE  PlanInv' /\ Kept(runs, runs')
<1>1. runs \in Seq(Run) /\ runs[r] \in Run
    BY DEF PlanInv
<1>2. PICK again \in Run : /\ runs' = [runs EXCEPT ![r] = again]
                           /\ again.path = runs[r].path /\ again.creator = runs[r].creator
                           /\ again.taskIds = runs[r].taskIds /\ again.fingerprint = runs[r].fingerprint
    <2>1. ASSUME NEW s \in Sessions, AdoptPlan(s, r)
          PROVE  runs' = [runs EXCEPT ![r] = [runs[r] EXCEPT !.owner = s]]
        BY <1>1, <2>1 DEF AdoptPlan
    <2>2. ASSUME EndPlan(r)
          PROVE  runs' = [runs EXCEPT ![r] = [runs[r] EXCEPT !.live = FALSE]]
        BY <1>1, <2>2 DEF EndPlan
    <2>3. \A s \in Sessions : LET again == [runs[r] EXCEPT !.owner = s] IN
              /\ again \in Run /\ again.path = runs[r].path /\ again.creator = runs[r].creator
              /\ again.taskIds = runs[r].taskIds /\ again.fingerprint = runs[r].fingerprint
        BY <1>1 DEF Run
    <2>4. LET again == [runs[r] EXCEPT !.live = FALSE] IN
              /\ again \in Run /\ again.path = runs[r].path /\ again.creator = runs[r].creator
              /\ again.taskIds = runs[r].taskIds /\ again.fingerprint = runs[r].fingerprint
        BY <1>1 DEF Run
    <2> QED BY <2>1, <2>2, <2>3, <2>4
<1>3. runs' \in Seq(Run) /\ DOMAIN runs' = DOMAIN runs
      /\ runs'[r] = again /\ \A k \in DOMAIN runs \ {r} : runs'[k] = runs[k]
    BY <1>1, <1>2
<1>4. Kept(runs, runs')
    BY <1>2, <1>3 DEF Kept
<1>5. UNCHANGED <<file, continued, approvals, cmd>>
    BY DEF AdoptPlan, EndPlan
<1> QED BY <1>3, <1>4, <1>5, SharedStep

(* A natural stop: the run is copied, the plan read after it, and the task *)
(* of that text committed.                                                 *)
LEMMA StopStep ==
    ASSUME PlanInv, NEW s \in Sessions, StopRead(s) \/ StopPlan(s) \/ StopCommit(s)
    PROVE  PlanInv' /\ Kept(runs, runs')
<1>0. Sound(runs, approvals, s, Waiting)
    BY DEF Sound, Waiting
<1>1. ASSUME StopRead(s)
      PROVE  PlanInv' /\ Kept(runs, runs')
    <2>1. PICK r \in Owned(s) :
              Goes(s, [at |-> "stopping", run |-> r, copy |-> runs[r], revision |-> indexRevision])
        BY <1>1 DEF StopRead
    <2> DEFINE next == [at |-> "stopping", run |-> r, copy |-> runs[r], revision |-> indexRevision]
    <2>2. r \in DOMAIN runs /\ runs[r] \in Run
        BY DEF Owned, PlanInv
    <2>3. Sound(runs, approvals, s, next)
        BY <2>2 DEF Sound, Run
    <2>4. Goes(s, next) /\ UNCHANGED shared
        BY <1>1, <2>1 DEF StopRead
    <2> HIDE DEF next
    <2> QED BY <2>3, <2>4, QuietStep
<1>2. ASSUME StopPlan(s)
      PROVE  PlanInv' /\ Kept(runs, runs')
    <2> DEFINE copy == cmd[s].copy
               texts == {document.text : document \in {file[copy.path]} \ {Missing}}
               due == UNION {evaluateStartWorkContinuation(copy, plan) :
                               plan \in UNION {normalizeStartWorkPlan(text) : text \in texts}}
               next == [at |-> "continuing", run |-> cmd[s].run, revision |-> cmd[s].revision,
                        task |-> CHOOSE t \in due : TRUE, text |-> CHOOSE t \in texts : TRUE]
    <2>1. UNCHANGED shared /\ Goes(s, IF due = {} THEN Waiting ELSE next)
        BY <1>2 DEF StopPlan
    <2>2. /\ cmd[s].run \in DOMAIN runs /\ copy.path \in PlanPaths
          /\ copy.taskIds = runs[cmd[s].run].taskIds
        BY <1>2 DEF StopPlan, Sound, PlanInv
    <2>3. ASSUME due # {} PROVE Sound(runs, approvals, s, next)
        <3>1. PICK text \in texts : \E plan \in normalizeStartWorkPlan(text) :
                  (CHOOSE t \in due : TRUE) \in evaluateStartWorkContinuation(copy, plan)
            <4>1. (CHOOSE t \in due : TRUE) \in due
                BY <2>3
            <4> DEFINE task == CHOOSE t \in due : TRUE
            <4>2. \A t \in due : \E text \in texts : \E plan \in normalizeStartWorkPlan(text) :
                      t \in evaluateStartWorkContinuation(copy, plan)
                OBVIOUS
            <4> HIDE DEF task, due
            <4> QED BY <4>1, <4>2
        <3>2. texts = {text} /\ (CHOOSE t \in texts : TRUE) = text
            BY <3>1
        <3>3. text \in Claims
            BY <2>2, <3>1 DEF Claims, PlanInv
        <3>4. PICK plan \in normalizeStartWorkPlan(text) :
                  (CHOOSE t \in due : TRUE) \in evaluateStartWorkContinuation(copy, plan)
            BY <3>1
        <3>5. /\ plan.taskIds = copy.taskIds /\ plan.remaining # <<>>
              /\ (CHOOSE t \in due : TRUE) = Head(plan.remaining)
            <4> HIDE DEF due
            <4> QED BY <3>4 DEF evaluateStartWorkContinuation, Matches
        <3> HIDE DEF due, texts
        <3>6. Continues(runs, next)
            BY <2>2, <3>2, <3>3, <3>5 DEF Continues
        <3> QED BY <3>6 DEF Sound
    <2> HIDE DEF next, due
    <2>4. CASE due = {}
        BY <1>0, <2>1, <2>4, QuietStep
    <2>5. CASE due # {}
        BY <2>1, <2>3, <2>5, QuietStep
    <2> QED BY <2>4, <2>5
<1>3. ASSUME StopCommit(s)
      PROVE  PlanInv' /\ Kept(runs, runs')
    <2> DEFINE c == [run |-> cmd[s].run, task |-> cmd[s].task, text |-> cmd[s].text]
    <2>1. continued' = {c} /\ UNCHANGED <<file, approvals, runs>> /\ Goes(s, Waiting)
        BY <1>3 DEF StopCommit
    <2>2. Continues(runs, c)
        BY <1>3 DEF StopCommit, Sound, Continues, PlanInv
    <2>3. cmd' = [o \in Sessions |-> cmd'[o]] /\ \A o \in Sessions : cmd'[o] = cmd[o] \/ cmd'[o] = Waiting
        BY <2>1 DEF PlanInv, Goes
    <2>4. \A o \in Sessions : Sound(runs, approvals, o, Waiting)
        BY DEF Sound, Waiting
    <2>5. \A o \in Sessions : Sound(runs, approvals, o, cmd'[o])
        BY <2>3, <2>4 DEF PlanInv
    <2> HIDE DEF c
    <2> QED BY <2>1, <2>2, <2>3, <2>5 DEF PlanInv, Kept
<1> QED BY <1>1, <1>2, <1>3

(* Every step. *)
LEMMA PlanStep ==
    ASSUME PlanInv, [PlanNext]_planVars
    PROVE  PlanInv' /\ Kept(runs, runs')
<1>1. CASE UNCHANGED planVars
    BY <1>1 DEF planVars, shared, PlanInv, Kept
<1>2. CASE PlanNext
    BY <1>2, EditStep, ApproveStep, CreateStep, CreateCommitStep, ReconcileStep, OwnerStep, StopStep
       DEF PlanNext
<1> QED BY <1>1, <1>2

-----------------------------------------------------------------------------
(* The theorems                                                            *)

(* The inductive invariant holds. *)
THEOREM PlanInvariant == PlanSpec => []PlanInv
<1>1. PlanInv /\ [PlanNext]_planVars => PlanInv'
    BY PlanStep
<1> QED BY <1>1, InitPlanInv, PTL DEF PlanSpec

(* A run's tasks are those of a text its creator approved, and a           *)
(* continuation names the first of them that is not ticked in the plan it  *)
(* was read from (createStartWork, reconcileStartWork,                     *)
(* evaluateStartWorkContinuation).                                         *)
THEOREM WorkIsApprovedHolds == PlanSpec => []WorkIsApproved
<1>1. ASSUME PlanInv PROVE WorkIsApproved
    <2>1. \A r \in DOMAIN runs : ApprovedFor(runs[r], runs[r].taskIds)
        BY <1>1 DEF PlanInv, Approved, ApprovedFor
    <2>2. ASSUME NEW c \in continued
          PROVE  /\ c.task \in Elements(runs[c.run].taskIds)
                 /\ \E plan \in normalizeStartWorkPlan(c.text) :
                       plan.taskIds = runs[c.run].taskIds /\ c.task = Head(plan.remaining)
        <3>1. PICK plan \in normalizeStartWorkPlan(c.text) :
                  /\ plan.taskIds = runs[c.run].taskIds
                  /\ plan.remaining # <<>> /\ c.task = Head(plan.remaining)
            BY <1>1 DEF PlanInv, Continues
        <3>2. IsSeq(c.text.lines)
            BY <1>1, ClaimsHaveLines DEF PlanInv, Continues
        <3>3. Head(plan.remaining) \in Elements(plan.taskIds)
            BY <3>1, <3>2, HeadIsTask
        <3> QED BY <3>1, <3>3
    <2> QED BY <2>1, <2>2 DEF WorkIsApproved
<1> QED BY <1>1, PlanInvariant, PTL

(* No command changes the tasks of a run, its creator or the plan it       *)
(* follows: reconcileStartWork, which writes them, writes what they were.  *)
THEOREM RunsKeepTheirTasksHolds == PlanSpec => [][RunsKeepTheirTasks]_planVars
<1>1. PlanInv /\ [PlanNext]_planVars => [RunsKeepTheirTasks]_planVars
    BY PlanStep DEF RunsKeepTheirTasks
<1> QED BY <1>1, PlanInvariant, PTL DEF PlanSpec

-----------------------------------------------------------------------------
(* Budgets                                                                 *)

(* A packet in force has the limits of its tier. *)
Budgeted(p) == p.tier \in Tiers /\ p.budgets = TierBudgets[p.tier]

(* What the guard of packet p has counted, seen from what was let through: *)
(* until the packet's calls are ended every call let through is settled    *)
(* and counted, or pending, and no result of such a call is on its way     *)
(* that the guard does not expect.                                         *)
Metered(p, g, sp, out) ==
    /\ g \in [packet : {p}, budget : [general : Nat, retrieval : Nat, bytes : Nat],
              terminal : BOOLEAN, pending : SUBSET sp.mine, seen : {sp.mine}]
    /\ IsFiniteSet(g.pending)
    /\ sp.calls <= p.budgets.maxCalls
    /\ ~g.terminal => /\ sp.calls = g.budget.general + Cardinality(g.pending)
                      /\ out \cap sp.mine \subseteq g.pending
    /\ sp.results = g.budget.retrieval /\ g.budget.retrieval <= p.budgets.maxRetrievalCalls
    /\ sp.bytes = g.budget.bytes /\ g.budget.bytes <= p.budgets.maxRetrievalBytes

SpentOK(sp) == sp \in [calls : Nat, results : Nat, bytes : Nat, mine : SUBSET Nat]

BudgetInv ==
    /\ SpentOK(spent) /\ issued \in Nat
    /\ \/ active = {} /\ guard = {}
       \/ \E p, g : active = {p} /\ guard = {g} /\ Budgeted(p) /\ Metered(p, g, spent, running)

(* The limits of a packet are numbers. *)
LEMMA LimitsAreNumbers ==
    ASSUME NEW p, Budgeted(p)
    PROVE  /\ p.budgets.maxCalls \in Nat /\ p.budgets.maxRetrievalCalls \in Nat
           /\ p.budgets.maxRetrievalBytes \in Nat
BY BudgetsAssumption DEF Budgeted, Limits

(* compileTaskPacket lets only a packet through that has the budgets of    *)
(* its tier, and the tier its content calls for.                           *)
LEMMA CompiledIsBudgeted ==
    ASSUME NEW input, {"tier", "budgets"} \subseteq DOMAIN input, NEW p \in compileTaskPacket(input)
    PROVE  Budgeted(p)
<1>1. p \in canonicalPacket(input)
    BY DEF compileTaskPacket
<1>2. PICK tags : LET packet == [input EXCEPT !.tags = tags]
                  IN  p = Sorted(packet) /\ TaskPacketSchema(packet)
    BY <1>1, Zenon DEF canonicalPacket
<1> DEFINE packet == [input EXCEPT !.tags = tags]
<1>3. p = Sorted(packet) /\ TaskPacketSchema(packet)
    BY <1>2
<1>4. {"tier", "budgets"} \subseteq DOMAIN packet
    OBVIOUS
<1> HIDE DEF packet
<1>5. packet.budgets = TierBudgets[packet.tier] /\ packet.tier \in Tiers
    BY <1>3 DEF TaskPacketSchema, classifyTaskTier, Tiers
<1>6. p.budgets = packet.budgets /\ p.tier = packet.tier
    BY <1>3, <1>4 DEF Sorted
<1> QED BY <1>5, <1>6 DEF Budgeted

(* So has every packet a turn may bring into force. *)
LEMMA PromptIsBudgeted ==
    ASSUME NEW prompt \in Prompts, NEW p \in compilePromptStepContext(prompt).packet,
           compilePromptStepContext(prompt) # NoResult
    PROVE  Budgeted(p)
<1>1. CASE prompt.input = {}
    BY <1>1 DEF compilePromptStepContext, NoResult
<1>2. CASE prompt.input # {}
    <2> DEFINE input == CHOOSE i \in prompt.input : TRUE
    <2>1. input \in prompt.input
        BY <1>2
    <2>2. {"tier", "budgets"} \subseteq DOMAIN input
        BY <2>1, ObserverAssumption
    <2>3. p \in compileTaskPacket(input)
        BY <1>2 DEF compilePromptStepContext, Compiled
    <2> HIDE DEF input
    <2> QED BY <2>2, <2>3, CompiledIsBudgeted
<1> QED BY <1>1, <1>2

(* And every step of a run. *)
LEMMA RunIsBudgeted ==
    ASSUME NEW run, NEW p \in compileRunStepContext(run).packet,
           compileRunStepContext(run).kind # "none"
    PROVE  Budgeted(p)
<1>1. ASSUME NEW r, NEW task, NEW paths, NEW criteria, NEW typed, NEW bytes, NEW tier,
             p \in Compiled(Step(r, task, paths, criteria, typed, bytes, tier)).packet
      PROVE  Budgeted(p)
    <2> DEFINE input == Step(r, task, paths, criteria, typed, bytes, tier)
    <2>1. p \in compileTaskPacket(input)
        BY <1>1 DEF Compiled
    <2>2. {"tier", "budgets"} \subseteq DOMAIN input
        BY DEF Step
    <2> HIDE DEF input
    <2> QED BY <2>1, <2>2, CompiledIsBudgeted
<1>2. ASSUME NEW plan, NEW task, p \in compilePlanStep(run, plan, task).packet
      PROVE  Budgeted(p)
    BY <1>1, <1>2 DEF compilePlanStep
<1>3. ASSUME NEW goal, p \in compileGoalStep(run, goal).packet
      PROVE  Budgeted(p)
    BY <1>1, <1>3 DEF compileGoalStep
<1>4. \/ \E plan, task : compileRunStepContext(run) = compilePlanStep(run, plan, task)
      \/ \E goal : compileRunStepContext(run) = compileGoalStep(run, goal)
    <2>1. NoResult.kind = "none"
        BY DEF NoResult
    <2>2. compileRunStepContext(run) # NoResult
        BY <2>1
    <2> QED BY <2>2, Zenon DEF compileRunStepContext
<1> QED BY <1>2, <1>3, <1>4

(* A packet that comes into force starts with nothing spent, and one that  *)
(* is in force goes on with what it has spent.                             *)
LEMMA ActivateBudget ==
    ASSUME BudgetInv, NEW result, Activate(result), UNCHANGED <<running, issued>>,
           result.kind # "none" => \A p \in result.packet : Budgeted(p)
    PROVE  BudgetInv'
<1>1. CASE result.kind = "none" \/ result.packet = {}
    BY <1>1 DEF Activate, Deactivate, BudgetInv, SpentOK, Nothing
<1>2. CASE ~(result.kind = "none" \/ result.packet = {})
    <2> DEFINE packet == CHOOSE p \in result.packet : TRUE
    <2>1. packet \in result.packet
        BY <1>2
    <2>2. Budgeted(packet)
        BY <1>2, <2>1
    <2>3. /\ active' = {packet} /\ guard' = activateGuard(packet)
          /\ spent' = IF active = {packet} THEN spent ELSE Nothing
        BY <1>2 DEF Activate
    <2> HIDE DEF packet
    <2>4. CASE \E g \in guard : g.packet = packet
        <3>1. PICK p, g : active = {p} /\ guard = {g} /\ Budgeted(p) /\ Metered(p, g, spent, running)
            BY <2>4 DEF BudgetInv
        <3>2. p = packet
            BY <2>4, <3>1 DEF Metered
        <3>3. active' = {p} /\ guard' = {g} /\ spent' = spent
            BY <2>3, <2>4, <3>1, <3>2 DEF activateGuard
        <3>4. Metered(p, g, spent', running')
            BY <3>1, <3>3 DEF Metered
        <3> QED BY <3>1, <3>3, <3>4 DEF BudgetInv
    <2>5. CASE ~\E g \in guard : g.packet = packet
        <3>1. active # {packet}
            BY <2>5 DEF BudgetInv, Metered
        <3> DEFINE g == [packet |-> packet, budget |-> createRetrievalBudget, terminal |-> FALSE,
                         pending |-> {}, seen |-> {}]
        <3>2. guard' = {g} /\ spent' = Nothing
            BY <2>3, <2>5, <3>1 DEF activateGuard
        <3>3. IsFiniteSet({}) /\ Cardinality({}) = 0
            BY FS_EmptySet
        <3>4. Metered(packet, g, Nothing, running')
            BY <2>2, <3>3, LimitsAreNumbers DEF Metered, Nothing, createRetrievalBudget
        <3> HIDE DEF g
        <3>5. SpentOK(Nothing)
            BY DEF SpentOK, Nothing
        <3> QED BY <2>2, <2>3, <3>2, <3>4, <3>5 DEF BudgetInv
    <2> QED BY <2>4, <2>5
<1> QED BY <1>1, <1>2

(* A call: the pending ones are counted with the settled ones, so however  *)
(* many overlap, no more are let through than the packet may make.         *)
LEMMA ToolCallBudget ==
    ASSUME BudgetInv, ToolCall
    PROVE  BudgetInv'
<1>1. PICK id \in 1 .. (issued + 1), goes \in BOOLEAN :
          /\ guard' = {authorize(g, id) : g \in guard}
          /\ IF \E g \in guard : Refused(g, id)
             THEN UNCHANGED <<running, spent>>
             ELSE /\ running' = IF goes THEN running \cup {id} ELSE running
                  /\ spent' = IF active = {} THEN spent
                              ELSE [spent EXCEPT !.calls = @ + 1, !.mine = @ \cup {id}]
    BY DEF ToolCall
<1>2. active' = active /\ id \in Nat /\ issued' \in Nat
    BY DEF ToolCall, BudgetInv
<1>3. CASE active = {}
    <2>1. guard = {} /\ guard' = {}
        BY <1>1, <1>3 DEF BudgetInv
    <2>2. spent' = spent
        BY <1>1, <1>3, <2>1
    <2> QED BY <1>2, <1>3, <2>1, <2>2 DEF BudgetInv
<1>4. CASE active # {}
    <2>1. PICK p, g : active = {p} /\ guard = {g} /\ Budgeted(p) /\ Metered(p, g, spent, running)
        BY <1>4 DEF BudgetInv
    <2>2. guard' = {authorize(g, id)} /\ active' = {p}
        BY <1>1, <1>2, <2>1
    <2>3. SpentOK(spent)
        BY DEF BudgetInv
    <2>4. CASE Refused(g, id)
        <3>1. UNCHANGED <<running, spent>>
            BY <1>1, <2>1, <2>4
        <3>2. Metered(p, authorize(g, id), spent, running)
            <4>1. CASE id \in g.seen
                BY <2>1, <2>4, <4>1 DEF authorize
            <4>2. CASE id \notin g.seen
                <5>1. authorize(g, id) = [g EXCEPT !.terminal = TRUE]
                    BY <2>4, <4>2 DEF authorize
                <5> QED BY <2>1, <5>1 DEF Metered
            <4> QED BY <4>1, <4>2
        <3> QED BY <1>2, <2>1, <2>2, <2>3, <3>1, <3>2 DEF BudgetInv
    <2>5. CASE ~Refused(g, id)
        <3> DEFINE after == [g EXCEPT !.seen = @ \cup {id}, !.pending = @ \cup {id}]
                   sp == [spent EXCEPT !.calls = @ + 1, !.mine = @ \cup {id}]
        <3>1. authorize(g, id) = after /\ spent' = sp
            BY <1>1, <1>4, <2>1, <2>5 DEF authorize
        <3>2. running' \subseteq running \cup {id}
            BY <1>1, <2>1, <2>5
        <3>3. /\ sp.calls = spent.calls + 1 /\ sp.mine = spent.mine \cup {id}
              /\ sp.results = spent.results /\ sp.bytes = spent.bytes /\ SpentOK(sp)
            <4>1. spent.calls + 1 \in Nat /\ spent.mine \cup {id} \in SUBSET Nat
                BY <1>2, <2>3 DEF SpentOK
            <4> QED BY <2>3, <4>1 DEF SpentOK
        <3> DEFINE Guards == [packet : {p}, budget : [general : Nat, retrieval : Nat, bytes : Nat],
                              terminal : BOOLEAN, pending : SUBSET sp.mine, seen : {sp.mine}]
        <3>4. /\ after \in Guards
              /\ after.budget = g.budget /\ after.terminal = g.terminal
              /\ after.pending = g.pending \cup {id}
            <4> HIDE DEF sp
            <4>1. g.pending \cup {id} \in SUBSET sp.mine /\ g.seen \cup {id} \in {sp.mine}
                  /\ g \in [packet : {p}, budget : [general : Nat, retrieval : Nat, bytes : Nat],
                            terminal : BOOLEAN, pending : SUBSET spent.mine, seen : {spent.mine}]
                BY <2>1, <3>3 DEF Metered
            <4> QED BY <4>1
        <3>5. ~g.terminal /\ id \notin g.pending
              /\ g.budget.general + Cardinality(g.pending) + 1 <= p.budgets.maxCalls
            <4>1. p.budgets.maxCalls \in Nat /\ Cardinality(g.pending) \in Nat /\ g.budget.general \in Nat
                BY <2>1, LimitsAreNumbers, FS_CardinalityType DEF Metered
            <4>2. g.packet = p /\ g.seen = spent.mine /\ g.pending \subseteq spent.mine
                BY <2>1 DEF Metered
            <4> QED BY <2>5, <4>1, <4>2 DEF Refused
        <3>6. IsFiniteSet(g.pending \cup {id}) /\ Cardinality(g.pending \cup {id}) = Cardinality(g.pending) + 1
              /\ Cardinality(g.pending) \in Nat
            BY <2>1, <3>5, FS_AddElement, FS_CardinalityType DEF Metered
        <3> HIDE DEF after, sp
        <3>7. Metered(p, after, sp, running')
            BY <2>1, <3>2, <3>3, <3>4, <3>5, <3>6 DEF Metered
        <3> QED BY <1>2, <2>1, <2>2, <3>1, <3>3, <3>7 DEF BudgetInv
    <2> QED BY <2>4, <2>5
<1> QED BY <1>3, <1>4

(* What meterRetrievalResult makes of a budget. *)
LEMMA MeterFacts ==
    ASSUME NEW p, Budgeted(p), NEW budget \in [general : Nat, retrieval : Nat, bytes : Nat],
           NEW result \in Results, NEW b \in meterRetrievalResult(p.tier, budget, result)
    PROVE  /\ b \in [general : Nat, retrieval : Nat, bytes : Nat]
           /\ b.general = budget.general + 1
           /\ b.retrieval <= p.budgets.maxRetrievalCalls /\ b.bytes <= p.budgets.maxRetrievalBytes
           /\ IF ResultKind(result) = "delivered"
              THEN b.retrieval = budget.retrieval + 1 /\ b.bytes = budget.bytes + result.size
              ELSE b.retrieval = budget.retrieval /\ b.bytes = budget.bytes
<1>1. result.size \in Nat
    BY ObserverAssumption
<1>2. TierBudgets[p.tier] = p.budgets
    BY DEF Budgeted
<1>3. /\ budget.general + 1 \in Nat /\ budget.retrieval + 1 \in Nat
      /\ budget.bytes + result.size \in Nat
    BY <1>1
<1> DEFINE counted == [budget EXCEPT !.general = @ + 1]
           metered == [counted EXCEPT !.retrieval = @ + 1, !.bytes = @ + result.size]
<1>4. /\ counted \in [general : Nat, retrieval : Nat, bytes : Nat]
      /\ counted.general = budget.general + 1
      /\ counted.retrieval = budget.retrieval /\ counted.bytes = budget.bytes
    BY <1>3
<1>5. /\ metered \in [general : Nat, retrieval : Nat, bytes : Nat]
      /\ metered.general = budget.general + 1
      /\ metered.retrieval = budget.retrieval + 1 /\ metered.bytes = budget.bytes + result.size
    <2> HIDE DEF counted
    <2>1. counted.retrieval + 1 \in Nat /\ counted.bytes + result.size \in Nat
        BY <1>3, <1>4
    <2> QED BY <1>4, <2>1
<1>6. /\ b = IF ResultKind(result) = "delivered" THEN metered ELSE counted
      /\ b.retrieval <= p.budgets.maxRetrievalCalls /\ b.bytes <= p.budgets.maxRetrievalBytes
    BY <1>2 DEF meterRetrievalResult
<1> HIDE DEF counted, metered
<1> QED BY <1>4, <1>5, <1>6

(* A result: what the model is shown has been metered. *)
LEMMA ToolResultBudget ==
    ASSUME BudgetInv, ToolResult
    PROVE  BudgetInv'
<1>1. PICK id \in running, result \in Results :
          LET seen == {observe(g, id, result) : g \in guard}
              shown == \A o \in seen : o.shown
          IN  /\ running' = running \ {id}
              /\ guard' = {o.guard : o \in seen}
              /\ spent' = IF shown /\ id \in spent.mine /\ ResultKind(result) = "delivered"
                          THEN [spent EXCEPT !.results = @ + 1, !.bytes = @ + result.size]
                          ELSE spent
    BY DEF ToolResult
<1>2. active' = active /\ issued' \in Nat /\ result.size \in Nat
    BY ObserverAssumption DEF ToolResult, BudgetInv
<1>3. CASE active = {}
    <2>1. guard = {} /\ guard' = {}
        BY <1>1, <1>3 DEF BudgetInv
    <2>2. SpentOK(spent')
        <3>1. SpentOK(spent)
            BY DEF BudgetInv
        <3>2. spent.results + 1 \in Nat /\ spent.bytes + result.size \in Nat
            BY <1>2, <3>1 DEF SpentOK
        <3> QED BY <1>1, <3>1, <3>2 DEF SpentOK
    <2> QED BY <1>2, <1>3, <2>1, <2>2 DEF BudgetInv
<1>4. CASE active # {}
    <2>1. PICK p, g : active = {p} /\ guard = {g} /\ Budgeted(p) /\ Metered(p, g, spent, running)
        BY <1>4 DEF BudgetInv
    <2> DEFINE o == observe(g, id, result)
               sp == [spent EXCEPT !.results = @ + 1, !.bytes = @ + result.size]
               delivered == ResultKind(result) = "delivered"
    <2>2. /\ guard' = {o.guard} /\ active' = {p} /\ running' = running \ {id}
          /\ spent' = IF o.shown /\ id \in spent.mine /\ delivered THEN sp ELSE spent
        BY <1>1, <1>2, <2>1
    <2>3. SpentOK(spent)
        BY DEF BudgetInv
    <2>4. /\ SpentOK(sp) /\ sp.calls = spent.calls /\ sp.mine = spent.mine
          /\ sp.results = spent.results + 1 /\ sp.bytes = spent.bytes + result.size
        <3>1. spent.results + 1 \in Nat /\ spent.bytes + result.size \in Nat
            BY <1>2, <2>3 DEF SpentOK
        <3> QED BY <2>3, <3>1 DEF SpentOK
    <2>5. Metered(p, o.guard, spent', running')
        <3>1. CASE g.terminal
            <4>1. o.guard = g /\ spent' = spent
                BY <2>2, <3>1 DEF observe
            <4> HIDE DEF o
            <4> QED BY <2>1, <2>2, <4>1 DEF Metered
        <3>2. CASE ~g.terminal /\ id \notin g.pending
            <4>1. o.guard = g
                BY <3>2 DEF observe
            <4>2. id \notin spent.mine
                BY <2>1, <3>2 DEF Metered
            <4> HIDE DEF o
            <4> QED BY <2>1, <2>2, <4>1, <4>2 DEF Metered
        <3>3. CASE ~g.terminal /\ id \in g.pending
            <4> DEFINE after == meterRetrievalResult(g.packet.tier, g.budget, result)
                       settled == [g EXCEPT !.pending = @ \ {id}]
                       Guards == [packet : {p}, budget : [general : Nat, retrieval : Nat, bytes : Nat],
                                  terminal : BOOLEAN, pending : SUBSET spent.mine, seen : {spent.mine}]
            <4>1. /\ settled \in Guards /\ settled.budget = g.budget /\ settled.terminal = g.terminal
                  /\ settled.pending = g.pending \ {id} /\ g.packet = p
                <5>1. g \in Guards /\ g.pending \ {id} \in SUBSET spent.mine
                    BY <2>1 DEF Metered
                <5> QED BY <5>1
            <4>2. /\ IsFiniteSet(g.pending \ {id}) /\ Cardinality(g.pending \ {id}) = Cardinality(g.pending) - 1
                  /\ Cardinality(g.pending) \in Nat
                BY <2>1, <3>3, FS_RemoveElement, FS_CardinalityType DEF Metered
            <4>3. CASE after = {}
                <5>1. o.guard = [settled EXCEPT !.terminal = TRUE] /\ ~o.shown
                    BY <3>3, <4>3 DEF observe
                <5> HIDE DEF o, settled
                <5>2. /\ o.guard \in Guards /\ o.guard.terminal /\ o.guard.budget = g.budget
                      /\ o.guard.pending = g.pending \ {id}
                    BY <4>1, <5>1
                <5>3. spent' = spent
                    BY <2>2, <5>1
                <5> QED BY <2>1, <2>2, <4>2, <5>2, <5>3 DEF Metered
            <4>4. CASE after # {}
                <5> DEFINE b == CHOOSE c \in after : TRUE
                <5>1. b \in after
                    BY <4>4
                <5>2. o.guard = [settled EXCEPT !.budget = b] /\ o.shown
                    BY <3>3, <4>4 DEF observe
                <5> HIDE DEF b, o, settled
                <5>3. g.budget \in [general : Nat, retrieval : Nat, bytes : Nat]
                    BY <2>1 DEF Metered
                <5>4. /\ b \in [general : Nat, retrieval : Nat, bytes : Nat]
                      /\ b.general = g.budget.general + 1
                      /\ b.retrieval <= p.budgets.maxRetrievalCalls /\ b.bytes <= p.budgets.maxRetrievalBytes
                      /\ IF delivered
                         THEN b.retrieval = g.budget.retrieval + 1 /\ b.bytes = g.budget.bytes + result.size
                         ELSE b.retrieval = g.budget.retrieval /\ b.bytes = g.budget.bytes
                    BY <2>1, <4>1, <5>1, <5>3, MeterFacts
                <5>5. /\ o.guard \in Guards /\ o.guard.terminal = g.terminal /\ o.guard.budget = b
                      /\ o.guard.pending = g.pending \ {id}
                    BY <4>1, <5>2, <5>4
                <5>6. id \in spent.mine
                    BY <2>1, <3>3 DEF Metered
                <5> HIDE DEF delivered, sp, after
                <5>7. spent' = IF delivered THEN sp ELSE spent
                    BY <2>2, <5>2, <5>6
                <5>8. spent'.calls = spent.calls /\ spent'.mine = spent.mine
                      /\ spent'.results = b.retrieval /\ spent'.bytes = b.bytes
                    BY <2>1, <2>4, <5>4, <5>7 DEF Metered
                <5>9. ~g.terminal => /\ spent'.calls = b.general + Cardinality(g.pending \ {id})
                                     /\ running' \cap spent'.mine \subseteq g.pending \ {id}
                    BY <2>1, <2>2, <4>2, <5>3, <5>4, <5>8 DEF Metered
                <5> QED BY <2>1, <4>2, <5>5, <5>4, <5>8, <5>9 DEF Metered
            <4> QED BY <4>3, <4>4
        <3> QED BY <2>1, <3>1, <3>2, <3>3 DEF Metered
    <2>6. SpentOK(spent')
        BY <2>2, <2>3, <2>4
    <2> HIDE DEF o
    <2> QED BY <1>2, <2>1, <2>2, <2>5, <2>6 DEF BudgetInv
<1> QED BY <1>3, <1>4

(* Every step. *)
LEMMA BudgetStep ==
    ASSUME BudgetInv, [Next]_vars
    PROVE  BudgetInv'
<1>1. ASSUME UNCHANGED <<active, guard, spent, running, issued>> PROVE BudgetInv'
    BY <1>1 DEF BudgetInv
<1>2. CASE StartPrompt
    <2>1. PICK prompt \in Prompts :
              IF compilePromptStepContext(prompt) = NoResult THEN UNCHANGED <<active, guard, spent>>
              ELSE Activate(compilePromptStepContext(prompt))
        BY <1>2 DEF StartPrompt
    <2>2. UNCHANGED <<running, issued>>
        BY <1>2 DEF StartPrompt
    <2>3. CASE compilePromptStepContext(prompt) = NoResult
        BY <1>1, <2>1, <2>2, <2>3
    <2>4. CASE compilePromptStepContext(prompt) # NoResult
        <3>1. \A p \in compilePromptStepContext(prompt).packet : Budgeted(p)
            BY <2>4, PromptIsBudgeted
        <3> QED BY <2>1, <2>2, <2>4, <3>1, ActivateBudget
    <2> QED BY <2>3, <2>4
<1>3. CASE StartRun
    <2>1. UNCHANGED <<running, issued>>
        BY <1>3 DEF StartRun
    <2>2. ASSUME NEW run \in Runs, Activate(compileRunStepContext(run)) PROVE BudgetInv'
        <3>1. compileRunStepContext(run).kind # "none" =>
                  \A p \in compileRunStepContext(run).packet : Budgeted(p)
            BY RunIsBudgeted
        <3> QED BY <2>1, <2>2, <3>1, ActivateBudget
    <2>3. ASSUME Deactivate PROVE BudgetInv'
        BY <2>1, <2>3 DEF Deactivate, BudgetInv, SpentOK, Nothing
    <2> QED BY <1>1, <1>3, <2>1, <2>2, <2>3 DEF StartRun
<1>4. CASE Shutdown
    BY <1>4 DEF Shutdown, Deactivate, BudgetInv, SpentOK, Nothing
<1>5. CASE ToolCalls
    BY <1>5, ToolCallBudget, ToolResultBudget DEF ToolCalls
<1>6. CASE ModelCalls
    BY <1>1, <1>6 DEF ModelCalls, SetInjectionContent, Context, Response, Repeated, Lost, Disconnected,
                      RetryStarted, tools, session
<1>7. CASE UNCHANGED vars
    BY <1>1, <1>7 DEF vars, session, tools
<1> QED BY <1>2, <1>3, <1>4, <1>5, <1>6, <1>7 DEF Next, Turns

(* However the calls of a turn overlap and whichever results never come,   *)
(* what was let through since the packet came into force is within its     *)
(* budgets (RetrievalBudgetGuard.authorize and observe).                   *)
THEOREM CallsWithinBudgetHolds == ObserverSpec => []CallsWithinBudget
<1>1. Init => BudgetInv
    BY DEF Init, BudgetInv, SpentOK, Nothing
<1>2. BudgetInv /\ [Next]_vars => BudgetInv'
    BY BudgetStep
<1>3. BudgetInv => CallsWithinBudget
    BY DEF BudgetInv, Metered, CallsWithinBudget
<1> QED BY <1>1, <1>2, <1>3, PTL DEF ObserverSpec

-----------------------------------------------------------------------------
(* The context                                                             *)

(* The messages without some kinds, element by element. *)
LEMMA WithoutAppend ==
    ASSUME NEW s, IsSeq(s), NEW x, NEW kinds
    PROVE  Without(Append(s, x), kinds) =
             IF x.kind \in kinds THEN Without(s, kinds) ELSE Append(Without(s, kinds), x)
<1> DEFINE t == Append(s, x)
           A == {m \in Elements(s) : m.kind \notin kinds}
           B == {m \in Elements(t) : m.kind \notin kinds}
<1>1. PICK T : s \in Seq(T)
    BY DEF IsSeq
<1>2. x \in Elements(t) /\ \A e \in Elements(s) : e \in Elements(t)
    <2>1. /\ DOMAIN t = 1 .. (Len(s) + 1) /\ t[Len(s) + 1] = x /\ Len(s) \in Nat
          /\ DOMAIN s = 1 .. Len(s) /\ \A i \in 1 .. Len(s) : t[i] = s[i]
        BY <1>1
    <2> HIDE DEF t
    <2> QED BY <2>1 DEF Elements
<1>3. \A e \in Elements(s) : e \in A <=> e \in B
    <2> HIDE DEF t
    <2> QED BY <1>2
<1>4. x \in B <=> x.kind \notin kinds
    <2> HIDE DEF t
    <2> QED BY <1>2
<1>5. Without(s, kinds) = Chosen(s, A) /\ Without(t, kinds) = Chosen(t, B)
    BY DEF Without
<1> HIDE DEF A, B
<1>6. Chosen(Append(s, x), B) = IF x \in B THEN Append(Chosen(s, A), x) ELSE Chosen(s, A)
    BY <1>3, ChosenAppend
<1> QED BY <1>4, <1>5, <1>6

(* Of nothing, nothing is left. *)
LEMMA WithoutEmpty ==
    ASSUME NEW kinds
    PROVE  Without(<<>>, kinds) = <<>>
BY ChosenEmpty DEF Without

(* What is left is a sequence of messages of the other kinds. *)
LEMMA WithoutFacts ==
    ASSUME NEW s, IsSeq(s), NEW kinds
    PROVE  /\ IsSeq(Without(s, kinds))
           /\ \A i \in 1 .. Len(Without(s, kinds)) :
                Without(s, kinds)[i].kind \notin kinds
<1> DEFINE A == {m \in Elements(s) : m.kind \notin kinds}
<1>1. Without(s, kinds) = Chosen(s, A)
    BY DEF Without
<1>2. \A e \in A : e.kind \notin kinds
    OBVIOUS
<1> HIDE DEF A
<1>3. /\ IsSeq(Chosen(s, A))
      /\ \A i \in 1 .. Len(Chosen(s, A)) : Chosen(s, A)[i] \in A
    BY ChosenFacts
<1> QED BY <1>1, <1>2, <1>3

(* The first n messages. *)
Prefix(s, n) == [i \in 1 .. n |-> s[i]]

(* A sequence grows from nothing, prefix by prefix. *)
LEMMA PrefixFacts ==
    ASSUME NEW s, IsSeq(s)
    PROVE  /\ Prefix(s, 0) = <<>> /\ Prefix(s, Len(s)) = s
           /\ \A n \in 0 .. Len(s) : IsSeq(Prefix(s, n)) /\ Len(Prefix(s, n)) = n
           /\ \A n \in 1 .. Len(s) : Prefix(s, n) = Append(Prefix(s, n - 1), s[n])
<1>1. PICK T : s \in Seq(T)
    BY DEF IsSeq
<1>2. Prefix(s, 0) = <<>>
    BY DEF Prefix
<1>3. Prefix(s, Len(s)) = s
    BY <1>1 DEF Prefix
<1>4. ASSUME NEW n \in 0 .. Len(s)
      PROVE  Prefix(s, n) \in Seq(T) /\ Len(Prefix(s, n)) = n
    BY <1>1 DEF Prefix
<1>5. ASSUME NEW n \in 1 .. Len(s)
      PROVE  Prefix(s, n) = Append(Prefix(s, n - 1), s[n])
    <2>1. n - 1 \in 0 .. Len(s) /\ n \in 0 .. Len(s) /\ s[n] \in T
        BY <1>1
    <2>2. Prefix(s, n - 1) \in Seq(T) /\ Len(Prefix(s, n - 1)) = n - 1
        BY <1>4, <2>1
    <2>3. Append(Prefix(s, n - 1), s[n]) \in Seq(T) /\ Len(Append(Prefix(s, n - 1), s[n])) = n
        BY <1>1, <2>1, <2>2
    <2>4. \A i \in 1 .. n : Append(Prefix(s, n - 1), s[n])[i] = Prefix(s, n)[i]
        BY <1>1, <2>1, <2>2 DEF Prefix
    <2>5. Prefix(s, n) \in Seq(T) /\ Len(Prefix(s, n)) = n
        BY <1>4, <2>1
    <2> QED BY <2>3, <2>4, <2>5, SeqEqual
<1>6. \A n \in 0 .. Len(s) : IsSeq(Prefix(s, n)) /\ Len(Prefix(s, n)) = n
    BY <1>4 DEF IsSeq
<1> QED BY <1>2, <1>3, <1>5, <1>6

(* Two sequences in one. *)
LEMMA ConcatFacts ==
    ASSUME NEW s, IsSeq(s), NEW t, IsSeq(t)
    PROVE  /\ IsSeq(s \o t) /\ s \o <<>> = s /\ <<>> \o s = s
           /\ \A x : IsSeq(Append(s, x)) /\ s \o Append(t, x) = Append(s \o t, x)
<1>1. PICK S, T : s \in Seq(S) /\ t \in Seq(T)
    BY DEF IsSeq
<1> DEFINE U == S \cup T
<1>2. s \in Seq(U) /\ t \in Seq(U) /\ s \o t \in Seq(U)
    BY <1>1
<1> HIDE DEF U
<1>3. s \o <<>> = s /\ <<>> \o s = s
    BY <1>2
<1>4. ASSUME NEW x PROVE IsSeq(Append(s, x)) /\ s \o Append(t, x) = Append(s \o t, x)
    <2> DEFINE V == U \cup {x}
    <2>1. s \in Seq(V) /\ t \in Seq(V) /\ s \o t \in Seq(V) /\ x \in V
        BY <1>2
    <2> HIDE DEF V
    <2>2. Append(s, x) \in Seq(V) /\ Append(t, x) \in Seq(V) /\ Append(s \o t, x) \in Seq(V)
          /\ s \o Append(t, x) \in Seq(V)
        BY <2>1
    <2>3. /\ Len(s \o Append(t, x)) = Len(Append(s \o t, x))
          /\ \A i \in 1 .. Len(Append(s \o t, x)) : (s \o Append(t, x))[i] = Append(s \o t, x)[i]
        BY <2>1
    <2>4. s \o Append(t, x) = Append(s \o t, x)
        BY <2>2, <2>3, SeqEqual
    <2> QED BY <2>2, <2>4 DEF IsSeq
<1> QED BY <1>2, <1>3, <1>4 DEF IsSeq

(* Induction along a sequence: Good are the lengths of the prefixes for    *)
(* which something holds.                                                  *)
LEMMA AlongPrefixes ==
    ASSUME NEW n \in Nat, NEW Good, 0 \in Good, \A i \in 1 .. n : i - 1 \in Good => i \in Good
    PROVE  n \in Good
<1> DEFINE wrong == {i \in 0 .. n : i \notin Good}
<1>1. SUFFICES ASSUME wrong # {} PROVE FALSE
    OBVIOUS
<1>2. PICK i \in wrong : \A j \in wrong : i <= j
    <2>1. wrong \in SUBSET Nat
        OBVIOUS
    <2> HIDE DEF wrong
    <2> QED BY <1>1, <2>1, LeastExists
<1>3. i \in 1 .. n
    OBVIOUS
<1>4. i - 1 \in Good
    BY <1>2, <1>3
<1> QED BY <1>3, <1>4

(* Two filters are one. *)
LEMMA WithoutTwice ==
    ASSUME NEW s, IsSeq(s), NEW K, NEW L
    PROVE  Without(Without(s, K), L) = Without(s, K \cup L)
<1> DEFINE Same(r) == Without(Without(r, K), L) = Without(r, K \cup L)
           Good == {n \in 0 .. Len(s) : Same(Prefix(s, n))}
<1>1. Len(s) \in Nat
    BY SeqFacts
<1>2. Same(<<>>)
    BY WithoutEmpty
<1>3. ASSUME NEW r, IsSeq(r), NEW x, Same(r) PROVE Same(Append(r, x))
    <2>1. IsSeq(Without(r, K))
        BY <1>3, WithoutFacts
    <2>2. Without(Append(Without(r, K), x), L) =
            IF x.kind \in L THEN Without(Without(r, K), L) ELSE Append(Without(Without(r, K), L), x)
        BY <2>1, WithoutAppend
    <2>3. Without(Append(r, x), K) = IF x.kind \in K THEN Without(r, K) ELSE Append(Without(r, K), x)
        BY <1>3, WithoutAppend
    <2>4. Without(Append(r, x), K \cup L) =
            IF x.kind \in K \cup L THEN Without(r, K \cup L) ELSE Append(Without(r, K \cup L), x)
        BY <1>3, WithoutAppend
    <2> QED BY <1>3, <2>2, <2>3, <2>4
<1> HIDE DEF Same
<1>4. 0 \in Good
    BY <1>1, <1>2, PrefixFacts
<1>5. \A i \in 1 .. Len(s) : i - 1 \in Good => i \in Good
    <2> TAKE i \in 1 .. Len(s)
    <2>1. i - 1 \in 0 .. Len(s) /\ i \in 0 .. Len(s)
        BY <1>1
    <2>2. IsSeq(Prefix(s, i - 1)) /\ Prefix(s, i) = Append(Prefix(s, i - 1), s[i])
        BY <2>1, PrefixFacts
    <2> QED BY <1>3, <2>1, <2>2
<1> HIDE DEF Good
<1>6. Len(s) \in Good
    BY <1>1, <1>4, <1>5, AlongPrefixes
<1> QED BY <1>6, PrefixFacts DEF Good, Same

(* The filter of two sequences in one. *)
LEMMA WithoutConcat ==
    ASSUME NEW s, IsSeq(s), NEW t, IsSeq(t), NEW K
    PROVE  Without(s \o t, K) = Without(s, K) \o Without(t, K)
<1> DEFINE Same(r) == Without(s \o r, K) = Without(s, K) \o Without(r, K)
           Good == {n \in 0 .. Len(t) : Same(Prefix(t, n))}
<1>0. IsSeq(Without(s, K))
    BY WithoutFacts
<1>1. Len(t) \in Nat
    BY SeqFacts
<1>2. Same(<<>>)
    BY <1>0, WithoutEmpty, ConcatFacts
<1>3. ASSUME NEW r, IsSeq(r), NEW x, Same(r) PROVE Same(Append(r, x))
    <2>1. IsSeq(s \o r) /\ s \o Append(r, x) = Append(s \o r, x)
        BY <1>3, ConcatFacts
    <2>2. Without(Append(s \o r, x), K) =
            IF x.kind \in K THEN Without(s \o r, K) ELSE Append(Without(s \o r, K), x)
        BY <2>1, WithoutAppend
    <2>3. Without(Append(r, x), K) = IF x.kind \in K THEN Without(r, K) ELSE Append(Without(r, K), x)
        BY <1>3, WithoutAppend
    <2>4. Without(s, K) \o Append(Without(r, K), x) = Append(Without(s, K) \o Without(r, K), x)
        <3>1. IsSeq(Without(r, K))
            BY <1>3, WithoutFacts
        <3> QED BY <1>0, <3>1, ConcatFacts
    <2> QED BY <1>3, <2>1, <2>2, <2>3, <2>4
<1> HIDE DEF Same
<1>4. 0 \in Good
    BY <1>1, <1>2, PrefixFacts
<1>5. \A i \in 1 .. Len(t) : i - 1 \in Good => i \in Good
    <2> TAKE i \in 1 .. Len(t)
    <2>1. i - 1 \in 0 .. Len(t) /\ i \in 0 .. Len(t)
        BY <1>1
    <2>2. IsSeq(Prefix(t, i - 1)) /\ Prefix(t, i) = Append(Prefix(t, i - 1), t[i])
        BY <2>1, PrefixFacts
    <2> QED BY <1>3, <2>1, <2>2
<1> HIDE DEF Good
<1>6. Len(t) \in Good
    BY <1>1, <1>4, <1>5, AlongPrefixes
<1> QED BY <1>6, PrefixFacts DEF Good, Same

(* Nothing of the kinds, nothing goes; nothing else, all does. *)
LEMMA WithoutUniform ==
    ASSUME NEW s, IsSeq(s), NEW K
    PROVE  /\ (\A i \in 1 .. Len(s) : s[i].kind \notin K) => Without(s, K) = s
           /\ (\A i \in 1 .. Len(s) : s[i].kind \in K) => Without(s, K) = <<>>
<1> DEFINE kept == \A i \in 1 .. Len(s) : s[i].kind \notin K
           lost == \A i \in 1 .. Len(s) : s[i].kind \in K
           Same(r) == (kept => Without(r, K) = r) /\ (lost => Without(r, K) = <<>>)
           Good == {n \in 0 .. Len(s) : Same(Prefix(s, n))}
<1>1. Len(s) \in Nat
    BY SeqFacts
<1>2. Same(<<>>)
    BY WithoutEmpty
<1>3. ASSUME NEW r, IsSeq(r), NEW i \in 1 .. Len(s), Same(r) PROVE Same(Append(r, s[i]))
    <2>1. Without(Append(r, s[i]), K) =
            IF s[i].kind \in K THEN Without(r, K) ELSE Append(Without(r, K), s[i])
        BY <1>3, WithoutAppend
    <2>2. (kept => s[i].kind \notin K) /\ (lost => s[i].kind \in K)
        OBVIOUS
    <2> HIDE DEF kept, lost
    <2> QED BY <1>3, <2>1, <2>2
<1> HIDE DEF Same
<1>4. 0 \in Good
    BY <1>1, <1>2, PrefixFacts
<1>5. \A i \in 1 .. Len(s) : i - 1 \in Good => i \in Good
    <2> TAKE i \in 1 .. Len(s)
    <2>1. i - 1 \in 0 .. Len(s) /\ i \in 0 .. Len(s)
        BY <1>1
    <2>2. IsSeq(Prefix(s, i - 1)) /\ Prefix(s, i) = Append(Prefix(s, i - 1), s[i])
        BY <2>1, PrefixFacts
    <2> QED BY <1>3, <2>1, <2>2
<1> HIDE DEF Good
<1>6. Len(s) \in Good
    BY <1>1, <1>4, <1>5, AlongPrefixes
<1> QED BY <1>6, PrefixFacts DEF Good, Same

(* Sections go before the packet, if there is one. *)
LEMMA InjectFacts ==
    ASSUME NEW w, IsSeq(w), \A i \in 1 .. Len(w) : w[i].kind # "packet",
           NEW sections, IsSeq(sections), NEW pm, pm = <<>> \/ \E x : pm = <<x>> /\ x.kind = "packet"
    PROVE  injectRulesAndCatalog(w \o pm, sections) = (w \o sections) \o pm
<1>1. PICK S, T : w \in Seq(S) /\ sections \in Seq(T)
    BY DEF IsSeq
<1>2. CASE pm = <<>>
    <2>1. w \o pm = w /\ (w \o sections) \o pm = w \o sections
        <3>1. IsSeq(w \o sections)
            BY ConcatFacts
        <3> QED BY <1>2, <3>1, ConcatFacts
    <2>2. injectRulesAndCatalog(w, sections) =
            SubSeq(w, 1, Len(w)) \o sections \o SubSeq(w, Len(w) + 1, Len(w))
        <3> DEFINE n == Len(w)
                   insertAt == IF n > 0 /\ w[n].kind = "packet" THEN n ELSE n + 1
        <3>1. n \in Nat /\ (n > 0 => w[n].kind # "packet")
            BY <1>1
        <3>2. injectRulesAndCatalog(w, sections) =
                SubSeq(w, 1, insertAt - 1) \o sections \o SubSeq(w, insertAt, n)
            BY Zenon DEF injectRulesAndCatalog
        <3>3. insertAt = n + 1 /\ insertAt - 1 = n
            <4> HIDE DEF n
            <4> QED BY <3>1
        <3> HIDE DEF insertAt
        <3> QED BY <3>2, <3>3
    <2>3. SubSeq(w, 1, Len(w)) = w /\ SubSeq(w, Len(w) + 1, Len(w)) = <<>>
        BY <1>1
    <2> QED BY <1>2, <2>1, <2>2, <2>3
<1>3. CASE pm # <<>>
    <2>1. PICK x : pm = <<x>> /\ x.kind = "packet"
        BY <1>3
    <2> DEFINE all == w \o pm
    <2>2. w \in Seq(S \cup {x}) /\ pm \in Seq(S \cup {x}) /\ all \in Seq(S \cup {x})
        BY <1>1, <2>1
    <2>3. Len(w) \in Nat /\ Len(all) = Len(w) + 1 /\ all[Len(w) + 1] = x
          /\ \A i \in 1 .. Len(w) : all[i] = w[i]
        BY <1>1, <2>1, <2>2
    <2> HIDE DEF all
    <2>4. injectRulesAndCatalog(all, sections) =
            SubSeq(all, 1, Len(w)) \o sections \o SubSeq(all, Len(w) + 1, Len(w) + 1)
        <3> DEFINE n == Len(all)
                   insertAt == IF n > 0 /\ all[n].kind = "packet" THEN n ELSE n + 1
        <3>1. injectRulesAndCatalog(all, sections) =
                SubSeq(all, 1, insertAt - 1) \o sections \o SubSeq(all, insertAt, n)
            BY Zenon DEF injectRulesAndCatalog
        <3>2. n = Len(w) + 1 /\ n > 0 /\ all[n].kind = "packet"
            BY <2>1, <2>3
        <3>3. insertAt = Len(w) + 1 /\ insertAt - 1 = Len(w)
            <4> HIDE DEF n
            <4> QED BY <2>3, <3>2
        <3> HIDE DEF insertAt
        <3> QED BY <3>1, <3>2, <3>3
    <2>5. SubSeq(all, 1, Len(w)) = w
        <3>1. /\ SubSeq(all, 1, Len(w)) \in Seq(S \cup {x}) /\ Len(SubSeq(all, 1, Len(w))) = Len(w)
              /\ \A i \in 1 .. Len(w) : SubSeq(all, 1, Len(w))[i] = all[i]
            BY <2>2, <2>3
        <3> QED BY <2>2, <2>3, <3>1, SeqEqual
    <2>6. SubSeq(all, Len(w) + 1, Len(w) + 1) = <<x>>
        <3> DEFINE slice == SubSeq(all, Len(w) + 1, Len(w) + 1)
        <3>1. slice \in Seq(S \cup {x}) /\ Len(slice) = 1 /\ slice[1] = all[Len(w) + 1]
            BY <2>2, <2>3
        <3> HIDE DEF slice
        <3>2. slice = <<slice[1]>>
            BY <3>1
        <3>3. slice = <<x>>
            BY <2>3, <3>1, <3>2
        <3> QED BY <3>3 DEF slice
    <2> QED BY <2>1, <2>4, <2>5, <2>6 DEF all
<1> QED BY <1>2, <1>3

(* A message of some kind, or none. *)
LEMMA OneMessage ==
    ASSUME NEW s, NEW kind, s = <<>> \/ \E x : s = <<x>> /\ x.kind = kind
    PROVE  /\ IsSeq(s)
           /\ \A K : Without(s, K) = IF kind \in K THEN <<>> ELSE s
<1>1. IsSeq(s) /\ \A i \in 1 .. Len(s) : s[i].kind = kind
    <2>1. CASE s = <<>>
        BY <2>1 DEF IsSeq
    <2>2. CASE \E x : s = <<x>> /\ x.kind = kind
        <3>1. PICK x : s = <<x>> /\ x.kind = kind
            BY <2>2
        <3>2. s \in Seq({x}) /\ Len(s) = 1 /\ s[1] = x
            BY <3>1
        <3>3. IsSeq(s)
            BY <3>2 DEF IsSeq
        <3>4. \A i \in 1 .. Len(s) : s[i].kind = kind
            BY <3>1, <3>2
        <3> QED BY <3>3, <3>4
    <2> QED BY <2>1, <2>2
<1>2. ASSUME NEW K PROVE Without(s, K) = IF kind \in K THEN <<>> ELSE s
    <2>1. CASE kind \in K
        BY <1>1, <2>1, WithoutUniform
    <2>2. CASE kind \notin K
        BY <1>1, <2>2, WithoutUniform
    <2> QED BY <2>1, <2>2
<1> QED BY <1>1, <1>2

own == {"packet", "rules", "catalog"}

(* The packet in force, and the catalog and the rules: the handler's own.  *)
LEMMA OwnMessages ==
    LET pm == PacketMessages(active)
    IN  /\ pm = <<>> \/ \E x : pm = <<x>> /\ x.kind = "packet"
        /\ IsSeq(pm) /\ Without(pm, {"rules", "catalog"}) = pm /\ Without(pm, own) = <<>>
        /\ IsSeq(Sections) /\ Without(Sections, own) = <<>>
<1> DEFINE pm == PacketMessages(active)
<1>1. pm = <<>> \/ \E x : pm = <<x>> /\ x.kind = "packet"
    <2> DEFINE message == [kind |-> "packet", body |-> CHOOSE packet \in active : TRUE]
    <2>1. pm = <<>> \/ pm = <<message>>
        BY DEF PacketMessages
    <2>2. message.kind = "packet"
        OBVIOUS
    <2> HIDE DEF message, pm
    <2> QED BY <2>1, <2>2
<1>2. IsSeq(pm) /\ Without(pm, {"rules", "catalog"}) = pm /\ Without(pm, own) = <<>>
    <2>1. "packet" \notin {"rules", "catalog"} /\ "packet" \in own
        BY DEF own
    <2> HIDE DEF pm
    <2> QED BY <1>1, <2>1, OneMessage
<1>3. ASSUME NEW kind \in {"rules", "catalog"}, NEW size, NEW budget
      PROVE  IsSeq(Section(kind, size, budget)) /\ Without(Section(kind, size, budget), own) = <<>>
    <2> DEFINE message == [kind |-> kind, body |-> size]
               section == Section(kind, size, budget)
    <2>1. section = <<>> \/ section = <<message>>
        BY DEF Section
    <2>2. message.kind = kind /\ kind \in own
        BY DEF own
    <2> HIDE DEF message, section
    <2>3. IsSeq(section) /\ Without(section, own) = <<>>
        BY <2>1, <2>2, OneMessage
    <2> QED BY <2>3 DEF section
<1>4. IsSeq(Sections) /\ Without(Sections, own) = <<>>
    <2>1. CASE injection = {}
        <3>1. Sections = <<>> /\ IsSeq(<<>>)
            BY <2>1 DEF Sections, IsSeq
        <3> QED BY <3>1, WithoutEmpty
    <2>2. CASE injection # {}
        <3> DEFINE content == CHOOSE i \in injection : TRUE
                   c == Section("catalog", content.catalog, CATALOG_BUDGET_BYTES)
                   r == Section("rules", content.rules, RULES_BUDGET_BYTES)
        <3>1. Sections = c \o r
            BY <2>2 DEF Sections
        <3>2. IsSeq(c) /\ Without(c, own) = <<>>
            BY <1>3
        <3>3. IsSeq(r) /\ Without(r, own) = <<>>
            BY <1>3
        <3> HIDE DEF c, r
        <3>4. Without(c \o r, own) = <<>> \o <<>>
            BY <3>2, <3>3, WithoutConcat
        <3>5. IsSeq(c \o r)
            BY <3>2, <3>3, ConcatFacts
        <3> QED BY <3>1, <3>4, <3>5
    <2> QED BY <2>1, <2>2
<1> QED BY <1>1, <1>2, <1>4

(* What the handler makes of a conversation. *)
LEMMA ContextOfIs ==
    ASSUME NEW messages, IsSeq(messages)
    PROVE  ContextOf(messages) = (Without(messages, own) \o Sections) \o PacketMessages(active)
<1> DEFINE sections == {"rules", "catalog"}
           pm == PacketMessages(active)
           w == Without(messages, own)
           notPacket == Without(messages, {"packet"})
<1>1. /\ pm = <<>> \/ \E x : pm = <<x>> /\ x.kind = "packet"
      /\ IsSeq(pm) /\ Without(pm, sections) = pm
    BY OwnMessages
<1>2. IsSeq(Sections)
    BY OwnMessages
<1> HIDE DEF pm
<1>3. IsSeq(pm)
    BY <1>1
<1>4. /\ IsSeq(notPacket) /\ IsSeq(w)
      /\ Without(notPacket, sections) = w
    <2> DEFINE one == {"packet"}
    <2>1. one \cup sections = own
        BY DEF own
    <2> HIDE DEF one, sections
    <2>2. Without(Without(messages, one), sections) = Without(messages, one \cup sections)
        BY WithoutTwice
    <2>3. IsSeq(Without(messages, one)) /\ IsSeq(w)
        BY WithoutFacts
    <2> QED BY <2>1, <2>2, <2>3 DEF one
<1>5. Without(notPacket \o pm, sections) = w \o pm
    <2>1. Without(notPacket \o pm, sections) = Without(notPacket, sections) \o Without(pm, sections)
        <3>1. IsSeq(notPacket)
            BY <1>4
        <3> HIDE DEF notPacket, sections
        <3> QED BY <1>3, <3>1, WithoutConcat
    <2> HIDE DEF notPacket, sections, w
    <2> QED BY <1>1, <1>4, <2>1
<1>6. \A i \in 1 .. Len(w) : w[i].kind # "packet"
    <2>1. \A i \in 1 .. Len(w) : w[i].kind \notin own
        BY WithoutFacts
    <2> HIDE DEF w
    <2> QED BY <2>1 DEF own
<1>7. injectRulesAndCatalog(w \o pm, Sections) = (w \o Sections) \o pm
    <2> HIDE DEF w
    <2> QED BY <1>1, <1>2, <1>4, <1>6, InjectFacts
<1>8. ContextOf(messages) = injectRulesAndCatalog(Without(notPacket \o pm, sections), Sections)
    BY DEF ContextOf, compactStepContext, pm
<1> HIDE DEF w, notPacket, sections
<1>9. ContextOf(messages) = (w \o Sections) \o pm
    BY <1>5, <1>7, <1>8
<1> QED BY <1>9 DEF w, pm

(* What it makes is what it makes of that again. *)
LEMMA ContextIsFixed ==
    ASSUME NEW messages, IsSeq(messages)
    PROVE  IsSeq(ContextOf(messages)) /\ ContextOf(ContextOf(messages)) = ContextOf(messages)
<1> DEFINE pm == PacketMessages(active)
           w == Without(messages, own)
           context == ContextOf(messages)
<1>1. context = (w \o Sections) \o pm
    BY ContextOfIs
<1>2. IsSeq(pm) /\ Without(pm, own) = <<>> /\ IsSeq(Sections) /\ Without(Sections, own) = <<>>
    BY OwnMessages
<1>3. IsSeq(w) /\ IsSeq(Sections) /\ IsSeq(pm)
    BY <1>2, WithoutFacts
<1>4. Without(w, own) = w
    <2>1. Without(w, own) = Without(messages, own \cup own)
        BY WithoutTwice
    <2> QED BY <2>1
<1> HIDE DEF pm, w
<1>5. IsSeq(w \o Sections) /\ IsSeq((w \o Sections) \o pm)
    BY <1>2, <1>3, ConcatFacts
<1>6. Without(w \o Sections, own) = w
    <2>1. Without(w \o Sections, own) = Without(w, own) \o Without(Sections, own)
        BY <1>3, WithoutConcat
    <2> QED BY <1>2, <1>3, <1>4, <2>1, ConcatFacts
<1>7. Without((w \o Sections) \o pm, own) = w
    <2> DEFINE v == w \o Sections
    <2>1. IsSeq(v) /\ IsSeq(pm)
        BY <1>3, <1>5
    <2>2. Without(v, own) = w
        BY <1>6
    <2> HIDE DEF v
    <2>3. Without(v \o pm, own) = Without(v, own) \o Without(pm, own)
        BY <2>1, WithoutConcat
    <2>4. Without(v \o pm, own) = w
        BY <1>2, <1>3, <2>2, <2>3, ConcatFacts
    <2> QED BY <2>4 DEF v
<1>8. ContextOf(context) = (Without(context, own) \o Sections) \o pm
    <2>1. IsSeq(context)
        BY <1>1, <1>5
    <2> HIDE DEF context
    <2> QED BY <2>1, ContextOfIs DEF pm
<1> QED BY <1>1, <1>5, <1>7, <1>8

(* Every step leaves the conversation a sequence. *)
LEMMA ConversationStep ==
    ASSUME IsSeq(conversation), [Next]_vars
    PROVE  IsSeq(conversation)'
<1>1. \A x : IsSeq(Append(conversation, x))
    BY ConcatFacts
<1>2. IsSeq(ContextOf(conversation))
    BY ContextIsFixed
<1>3. \/ conversation' = conversation \/ conversation' = ContextOf(conversation)
      \/ \E x : conversation' = Append(conversation, x)
    BY DEF Next, Turns, StartPrompt, StartRun, Shutdown, ToolCalls, ToolCall, ToolResult, ModelCalls,
           SetInjectionContent, Context, Response, Repeated, Lost, Disconnected, RetryStarted, vars
<1> QED BY <1>1, <1>2, <1>3

(* Whatever the host kept of earlier contexts, the model is called with    *)
(* the conversation, the catalog and the rules that fit, and the packet in *)
(* force and no other; done twice, nothing changes (compactStepContext,    *)
(* injectRulesAndCatalog).                                                 *)
THEOREM ContextIsCurrentHolds == ObserverSpec => []ContextIsCurrent
<1> DEFINE Inv == IsSeq(conversation)
<1>1. Init => Inv
    BY DEF Init, IsSeq
<1>2. Inv /\ [Next]_vars => Inv'
    BY ConversationStep
<1>3. Inv => ContextIsCurrent
    <2> SUFFICES ASSUME IsSeq(conversation) PROVE ContextIsCurrent
        OBVIOUS
    <2>1. ContextOf(conversation) = (Without(conversation, own) \o Sections) \o PacketMessages(active)
        BY ContextOfIs
    <2>2. ContextOf(ContextOf(conversation)) = ContextOf(conversation)
        BY ContextIsFixed
    <2> QED BY <2>1, <2>2 DEF ContextIsCurrent, own
<1> HIDE DEF Inv
<1> QED BY <1>1, <1>2, <1>3, PTL DEF ObserverSpec

-----------------------------------------------------------------------------
(* The records of the model calls                                          *)

Increasing(calls) ==
    \A i \in DOMAIN calls : \A j \in 1 .. (i - 1) :
        calls[j].scope = calls[i].scope => calls[j].id < calls[i].id

(* The ids recorded for a scope have a greatest, which is lastCallId. *)
Topped(calls) ==
    \A scope \in Scopes :
        \/ \A i \in DOMAIN calls : calls[i].scope # scope
        \/ \E i \in DOMAIN calls :
              /\ calls[i].scope = scope
              /\ \A j \in DOMAIN calls : calls[j].scope = scope => calls[j].id <= calls[i].id

Recorded(m) ==
    /\ {"calls", "pending", "nextRetry"} \subseteq DOMAIN m
    /\ IsSeq(m.calls) /\ IsSeq(m.pending)
    /\ \A i \in DOMAIN m.calls : m.calls[i].scope \in Scopes /\ m.calls[i].id \in Nat
    /\ \A i \in DOMAIN m.pending : m.pending[i].scope \in Scopes
    /\ Increasing(m.calls) /\ Topped(m.calls)

(* A call of the scope was made under the packet. *)
MadeUnder(tr, scope, id, packet) == \E call \in Elements(tr[scope]) : call.id = id /\ call.packet = {packet}

TruthOK(m, tr) ==
    \A i \in DOMAIN m.calls : MadeUnder(tr, m.calls[i].scope, m.calls[i].id, m.calls[i].packet)

(* While nothing is lost or repeated, only the call that is out may be     *)
(* pending, under the packet it was made under.                            *)
PendingOK(m, out, tr) ==
    \/ m.pending = <<>>
    \/ \E e, c : /\ m.pending = <<e>> /\ out = {c} /\ c.scope = e.scope
                 /\ MadeUnder(tr, c.scope, c.id, e.packet)

CallInv ==
    /\ proxied \in [Scopes -> Nat] /\ faults \in Nat
    /\ truth = [scope \in Scopes |-> truth[scope]] /\ \A scope \in Scopes : IsSeq(truth[scope])
    /\ \A c \in inflight : c.id \in Nat /\ c.scope \in Scopes \cup {NoScope}
    /\ inflight = {} \/ \E c : inflight = {c}
    /\ model = {} \/ \E m : model = {m} /\ Recorded(m)
    /\ faults = 0 => \A m \in model : TruthOK(m, truth) /\ PendingOK(m, inflight, truth)

(* What an appended sequence is. *)
LEMMA AppendFacts ==
    ASSUME NEW s, IsSeq(s), NEW x
    PROVE  /\ IsSeq(Append(s, x)) /\ Len(s) \in Nat /\ DOMAIN s = 1 .. Len(s)
           /\ DOMAIN Append(s, x) = 1 .. (Len(s) + 1) /\ Append(s, x)[Len(s) + 1] = x
           /\ \A i \in 1 .. Len(s) : Append(s, x)[i] = s[i]
<1>1. PICK T : s \in Seq(T)
    BY DEF IsSeq
<1>2. s \in Seq(T \cup {x}) /\ x \in T \cup {x}
    BY <1>1
<1>3. Append(s, x) \in Seq(T \cup {x})
    BY <1>2
<1> QED BY <1>2, <1>3 DEF IsSeq

(* lastCallId is at least every id of its scope. *)
LEMMA LastCallFacts ==
    ASSUME NEW m, Recorded(m), NEW scope \in Scopes
    PROVE  /\ lastCallId(m, scope) \in Nat
           /\ \A i \in DOMAIN m.calls : m.calls[i].scope = scope => m.calls[i].id <= lastCallId(m, scope)
<1> DEFINE ids == {m.calls[i].id : i \in {j \in DOMAIN m.calls : m.calls[j].scope = scope}}
<1>1. lastCallId(m, scope) = IF ids = {} THEN 0 ELSE CHOOSE id \in ids : \A other \in ids : other <= id
    BY DEF lastCallId
<1>2. ids \subseteq Nat /\ \A i \in DOMAIN m.calls : m.calls[i].scope = scope => m.calls[i].id \in ids
    BY DEF Recorded
<1>3. ids = {} \/ \E id \in ids : \A other \in ids : other <= id
    <2>1. CASE \A i \in DOMAIN m.calls : m.calls[i].scope # scope
        BY <2>1
    <2>2. CASE \E i \in DOMAIN m.calls :
                  /\ m.calls[i].scope = scope
                  /\ \A j \in DOMAIN m.calls : m.calls[j].scope = scope => m.calls[j].id <= m.calls[i].id
        BY <2>2
    <2> QED BY <2>1, <2>2 DEF Recorded, Topped
<1> HIDE DEF ids
<1>4. CASE ids = {}
    BY <1>1, <1>2, <1>4
<1>5. CASE ids # {}
    <2> DEFINE top == CHOOSE id \in ids : \A other \in ids : other <= id
    <2>1. top \in ids /\ \A other \in ids : other <= top
        BY <1>3, <1>5
    <2>2. lastCallId(m, scope) = top
        BY <1>1, <1>5
    <2> HIDE DEF top
    <2> QED BY <1>2, <2>1, <2>2
<1> QED BY <1>4, <1>5

(* Recording a call: its id is greater than every other of its scope, or   *)
(* nothing is recorded.                                                    *)
LEMMA RecordFacts ==
    ASSUME NEW m, Recorded(m), NEW e, e.scope \in Scopes, NEW id \in Nat, NEW terminal
    PROVE  /\ Recorded(Record(m, e, id, terminal))
           /\ Record(m, e, id, terminal).pending = m.pending
           /\ \A tr : TruthOK(m, tr) /\ MadeUnder(tr, e.scope, id, e.packet)
                        => TruthOK(Record(m, e, id, terminal), tr)
<1> DEFINE last == lastCallId(m, e.scope)
           new == [scope |-> e.scope, packet |-> e.packet, retry |-> e.retry, id |-> id, terminal |-> terminal]
           r == [m EXCEPT !.calls = Append(@, new)]
<1>1. /\ last \in Nat
      /\ \A i \in DOMAIN m.calls : m.calls[i].scope = e.scope => m.calls[i].id <= last
    BY LastCallFacts
<1>2. CASE id <= last
    BY <1>2 DEF Record
<1>3. CASE ~(id <= last)
    <2>1. Record(m, e, id, terminal) = r
        BY <1>3 DEF Record
    <2>2. new.scope = e.scope /\ new.id = id /\ new.packet = e.packet
        OBVIOUS
    <2> HIDE DEF new, last
    <2> DEFINE calls == Append(m.calls, new)
               n == Len(m.calls)
    <2>3. r.calls = calls /\ r.pending = m.pending /\ DOMAIN r = DOMAIN m
        BY DEF Recorded
    <2>4. /\ IsSeq(calls) /\ n \in Nat /\ DOMAIN m.calls = 1 .. n /\ DOMAIN calls = 1 .. (n + 1)
          /\ calls[n + 1] = new /\ \A i \in 1 .. n : calls[i] = m.calls[i]
        BY AppendFacts DEF Recorded
    <2> HIDE DEF calls, n, r
    <2>5. \A i \in DOMAIN m.calls : m.calls[i].scope = e.scope => m.calls[i].id < id
        BY <1>1, <1>3 DEF Recorded
    <2>6. \A i \in DOMAIN calls : calls[i].scope \in Scopes /\ calls[i].id \in Nat
        BY <2>2, <2>4 DEF Recorded
    <2>7. Increasing(calls)
        <3> SUFFICES ASSUME NEW i \in 1 .. (n + 1), NEW j \in 1 .. (i - 1), calls[j].scope = calls[i].scope
                     PROVE  calls[j].id < calls[i].id
            BY <2>4 DEF Increasing
        <3>1. CASE i = n + 1
            <4>1. j \in 1 .. n /\ calls[i] = new
                BY <2>4, <3>1
            <4> QED BY <2>2, <2>4, <2>5, <4>1
        <3>2. CASE i # n + 1
            <4>1. i \in 1 .. n /\ j \in 1 .. n
                BY <2>4, <3>2
            <4> QED BY <2>4, <4>1 DEF Recorded, Increasing
        <3> QED BY <3>1, <3>2
    <2>8. Topped(calls)
        <3> SUFFICES ASSUME NEW scope \in Scopes
                     PROVE  \/ \A i \in DOMAIN calls : calls[i].scope # scope
                            \/ \E i \in DOMAIN calls :
                                  /\ calls[i].scope = scope
                                  /\ \A j \in DOMAIN calls : calls[j].scope = scope => calls[j].id <= calls[i].id
            BY DEF Topped
        <3>1. CASE scope = e.scope
            <4>1. n + 1 \in DOMAIN calls /\ calls[n + 1].scope = scope
                BY <2>2, <2>4, <3>1
            <4>2. \A j \in DOMAIN calls : calls[j].scope = scope => calls[j].id <= calls[n + 1].id
                <5> SUFFICES ASSUME NEW j \in 1 .. (n + 1), calls[j].scope = scope
                             PROVE  calls[j].id <= calls[n + 1].id
                    BY <2>4
                <5>1. CASE j = n + 1
                    BY <2>2, <2>4, <5>1
                <5>2. CASE j # n + 1
                    <6>1. j \in 1 .. n
                        BY <2>4, <5>2
                    <6>2. calls[j].id < id /\ calls[j].id \in Nat
                        BY <2>4, <2>5, <3>1, <6>1 DEF Recorded
                    <6> QED BY <2>2, <2>4, <6>2
                <5> QED BY <5>1, <5>2
            <4> QED BY <4>1, <4>2
        <3>2. CASE scope # e.scope
            <4>1. \A i \in DOMAIN calls : calls[i].scope = scope => i \in 1 .. n /\ calls[i] = m.calls[i]
                BY <2>2, <2>4, <3>2
            <4>2. \A i \in 1 .. n : i \in DOMAIN calls
                BY <2>4
            <4>3. CASE \A i \in DOMAIN m.calls : m.calls[i].scope # scope
                BY <2>4, <4>1, <4>3
            <4>4. CASE \E i \in DOMAIN m.calls :
                          /\ m.calls[i].scope = scope
                          /\ \A j \in DOMAIN m.calls : m.calls[j].scope = scope => m.calls[j].id <= m.calls[i].id
                BY <2>4, <4>1, <4>2, <4>4
            <4> QED BY <4>3, <4>4 DEF Recorded, Topped
        <3> QED BY <3>1, <3>2
    <2>9. Recorded(r)
        BY <2>3, <2>4, <2>6, <2>7, <2>8 DEF Recorded
    <2>10. ASSUME NEW tr, TruthOK(m, tr), MadeUnder(tr, e.scope, id, e.packet)
           PROVE  TruthOK(r, tr)
        <3> SUFFICES ASSUME NEW i \in 1 .. (n + 1)
                     PROVE  MadeUnder(tr, calls[i].scope, calls[i].id, calls[i].packet)
            BY <2>3, <2>4 DEF TruthOK
        <3>1. CASE i = n + 1
            BY <2>2, <2>4, <2>10, <3>1
        <3>2. CASE i # n + 1
            <4>1. i \in 1 .. n
                BY <2>4, <3>2
            <4> QED BY <2>4, <2>10, <4>1 DEF TruthOK
        <3> QED BY <3>1, <3>2
    <2> QED BY <2>1, <2>3, <2>9, <2>10
<1> QED BY <1>2, <1>3

(* A response is taken for that of the oldest pending call. *)
LEMMA ResponseFacts ==
    ASSUME NEW m, Recorded(m), NEW id \in Nat, NEW terminal
    PROVE  LET after == observeResponse(m, [id |-> id, terminal |-> terminal])
           IN  /\ Recorded(after)
               /\ \A tr : \A e : m.pending = <<e>> /\ TruthOK(m, tr) /\ MadeUnder(tr, e.scope, id, e.packet)
                               => TruthOK(after, tr) /\ after.pending = <<>>
               /\ m.pending = <<>> => after = m
<1> DEFINE response == [id |-> id, terminal |-> terminal]
           after == observeResponse(m, response)
           shifted == [m EXCEPT !.pending = Tail(@)]
           e == Head(m.pending)
<1>0. response.id = id /\ response.terminal = terminal
    OBVIOUS
<1>1. CASE m.pending = <<>>
    <2>1. after = m
        BY <1>1 DEF observeResponse
    <2>2. \A x : m.pending # <<x>>
        BY <1>1
    <2> HIDE DEF after, response
    <2>3. QED
        BY <2>1, <2>2 DEF after, response
<1>2. CASE m.pending # <<>>
    <2>1. PICK P : m.pending \in Seq(P)
        BY DEF Recorded, IsSeq
    <2>2. /\ Tail(m.pending) \in Seq(P) /\ e = m.pending[1] /\ 1 \in DOMAIN m.pending
          /\ \A i \in DOMAIN Tail(m.pending) : i + 1 \in DOMAIN m.pending /\ Tail(m.pending)[i] = m.pending[i + 1]
        BY <1>2, <2>1
    <2>3. shifted.calls = m.calls /\ shifted.pending = Tail(m.pending) /\ DOMAIN shifted = DOMAIN m
        BY DEF Recorded
    <2> HIDE DEF shifted
    <2>4. e.scope \in Scopes
        BY <2>2 DEF Recorded
    <2>5. Recorded(shifted)
        BY <2>2, <2>3 DEF Recorded, IsSeq
    <2>6. after = shifted \/ after = Record(shifted, e, id, terminal)
        BY <1>0, <1>2 DEF observeResponse, shifted
    <2>7. \A tr : TruthOK(m, tr) => TruthOK(shifted, tr)
        BY <2>3 DEF TruthOK
    <2> HIDE DEF after, e, response
    <2>8. /\ Recorded(Record(shifted, e, id, terminal))
          /\ Record(shifted, e, id, terminal).pending = shifted.pending
          /\ \A tr : TruthOK(shifted, tr) /\ MadeUnder(tr, e.scope, id, e.packet)
                       => TruthOK(Record(shifted, e, id, terminal), tr)
        BY <2>4, <2>5, RecordFacts
    <2>9. ASSUME NEW tr, NEW x, m.pending = <<x>>, TruthOK(m, tr), MadeUnder(tr, x.scope, id, x.packet)
          PROVE  TruthOK(after, tr) /\ after.pending = <<>>
        <3>1. e = x /\ Tail(m.pending) = <<>>
            BY <2>2, <2>9
        <3> QED BY <2>3, <2>6, <2>7, <2>8, <2>9, <3>1
    <2> QED BY <1>2, <2>5, <2>6, <2>8, <2>9 DEF after, response
<1> QED BY <1>1, <1>2

(* The proxy's word goes to the oldest pending call of its scope. *)
LEMMA TerminalFacts ==
    ASSUME NEW m, Recorded(m), NEW scope \in Scopes, NEW id \in Nat, NEW terminal
    PROVE  LET after == observeProxyTerminal(m, scope, id, terminal)
           IN  /\ Recorded(after)
               /\ \A tr : \A e : m.pending = <<e>> /\ e.scope = scope /\ TruthOK(m, tr)
                                  /\ MadeUnder(tr, e.scope, id, e.packet)
                                => TruthOK(after, tr) /\ after.pending = <<>>
               /\ m.pending = <<>> => after = m
<1> DEFINE after == observeProxyTerminal(m, scope, id, terminal)
           ofScope == {i \in DOMAIN m.pending : m.pending[i].scope = scope}
           first == CHOOSE i \in ofScope : \A j \in ofScope : i <= j
           n == Len(m.pending)
           rest == [i \in 1 .. (n - 1) |-> IF i < first THEN m.pending[i] ELSE m.pending[i + 1]]
           shorter == [m EXCEPT !.pending = rest]
<1>1. n \in Nat /\ DOMAIN m.pending = 1 .. n
    BY SeqFacts DEF Recorded
<1>2. CASE ofScope = {}
    <2>1. after = m
        BY <1>2 DEF observeProxyTerminal
    <2>2. \A e : m.pending = <<e>> => e.scope # scope
        <3> SUFFICES ASSUME NEW e, m.pending = <<e>> PROVE e.scope # scope
            OBVIOUS
        <3>1. 1 \in DOMAIN m.pending /\ m.pending[1] = e
            OBVIOUS
        <3> QED BY <1>2, <3>1
    <2> HIDE DEF after
    <2> QED BY <2>1, <2>2 DEF after
<1>3. CASE ofScope # {}
    <2>1. first \in ofScope
        <3>1. ofScope \in SUBSET Nat
            BY <1>1
        <3>2. \E i \in ofScope : \A j \in ofScope : i <= j
            <4> HIDE DEF ofScope
            <4> QED BY <1>3, <3>1, LeastExists
        <3> HIDE DEF ofScope
        <3> QED BY <3>2
    <2>2. first \in 1 .. n /\ m.pending[first].scope = scope /\ m.pending # <<>>
        BY <1>1, <2>1
    <2>3. after = Record(shorter, m.pending[first], id, terminal)
        BY <1>3, Zenon DEF observeProxyTerminal
    <2> HIDE DEF first, ofScope
    <2>4. IsSeq(rest) /\ \A i \in DOMAIN rest : rest[i].scope \in Scopes
        <3>1. \A i \in 1 .. (n - 1) : i \in DOMAIN m.pending /\ i + 1 \in DOMAIN m.pending
            BY <1>1
        <3> DEFINE P == {m.pending[i] : i \in DOMAIN m.pending}
        <3>2. rest \in Seq(P)
            <4>1. \A i \in 1 .. (n - 1) : rest[i] \in P
                BY <3>1
            <4>2. n - 1 \in Nat
                BY <1>1, <2>2
            <4> HIDE DEF P, n
            <4> QED BY <4>1, <4>2
        <3>3. \A i \in DOMAIN rest : rest[i].scope \in Scopes
            BY <3>1 DEF Recorded
        <3> HIDE DEF rest, P
        <3> QED BY <3>2, <3>3 DEF IsSeq
    <2>5. m.pending[first].scope \in Scopes
        BY <2>2
    <2>6. n = 1 => rest = <<>> /\ first = 1
        BY <2>2
    <2> HIDE DEF rest
    <2>7. shorter.calls = m.calls /\ shorter.pending = rest /\ DOMAIN shorter = DOMAIN m
        BY DEF Recorded
    <2> HIDE DEF shorter, n
    <2>8. Recorded(shorter) /\ \A tr : TruthOK(m, tr) => TruthOK(shorter, tr)
        BY <2>4, <2>7 DEF Recorded, TruthOK
    <2> DEFINE e == m.pending[first]
    <2> HIDE DEF e
    <2>9. /\ Recorded(Record(shorter, e, id, terminal))
          /\ Record(shorter, e, id, terminal).pending = shorter.pending
          /\ \A tr : TruthOK(shorter, tr) /\ MadeUnder(tr, e.scope, id, e.packet)
                       => TruthOK(Record(shorter, e, id, terminal), tr)
        <3>1. e.scope \in Scopes
            BY <2>5 DEF e
        <3> QED BY <2>8, <3>1, RecordFacts
    <2> HIDE DEF after
    <2>10. ASSUME NEW tr, NEW x, m.pending = <<x>>, TruthOK(m, tr), MadeUnder(tr, x.scope, id, x.packet)
           PROVE  TruthOK(after, tr) /\ after.pending = <<>>
        <3>1. n = 1
            BY <2>10 DEF n
        <3>2. e = x /\ shorter.pending = <<>>
            BY <2>6, <2>7, <2>10, <3>1 DEF e
        <3> QED BY <2>3, <2>8, <2>9, <2>10, <3>2 DEF e
    <2> QED BY <2>2, <2>3, <2>9, <2>10 DEF after, e
<1> QED BY <1>2, <1>3

(* The state of the model calls, when there is none yet. *)
LEMMA StateForFacts ==
    ASSUME CallInv
    PROVE  /\ Recorded(stateFor)
           /\ faults = 0 => TruthOK(stateFor, truth) /\ PendingOK(stateFor, inflight, truth)
           /\ model # {} => model = {stateFor}
<1>1. CASE model = {}
    <2>1. stateFor = NoCalls /\ NoCalls.calls = <<>> /\ NoCalls.pending = <<>>
          /\ {"calls", "pending", "nextRetry"} \subseteq DOMAIN NoCalls
        BY <1>1 DEF stateFor, NoCalls
    <2>2. IsSeq(<<>>) /\ DOMAIN <<>> = {}
        BY DEF IsSeq
    <2> QED BY <1>1, <2>1, <2>2 DEF Recorded, Increasing, Topped, TruthOK, PendingOK
<1>2. CASE model # {}
    <2>1. PICK m : model = {m} /\ Recorded(m)
        BY <1>2 DEF CallInv
    <2>2. stateFor = m
        BY <2>1 DEF stateFor
    <2> QED BY <2>1, <2>2 DEF CallInv
<1> QED BY <1>1, <1>2

(* A call is begun: it is pending, and the one that is out. *)
LEMMA ContextCalls ==
    ASSUME CallInv, BudgetInv, Context
    PROVE  CallInv'
<1>1. PICK scope \in Scopes \cup {NoScope} :
          /\ model' = IF active = {} THEN model
                      ELSE begin(CHOOSE packet \in active : TRUE, scope)
          /\ inflight' = {[scope |-> scope, id |-> IF scope = NoScope THEN 0 ELSE proxied[scope] + 1]}
          /\ IF scope = NoScope THEN UNCHANGED <<proxied, truth>>
             ELSE /\ proxied' = [proxied EXCEPT ![scope] = @ + 1]
                  /\ truth' = [truth EXCEPT ![scope] =
                                  Append(@, [id |-> proxied[scope] + 1, packet |-> active])]
    BY DEF Context
<1>2. inflight = {} /\ faults' = faults
    BY DEF Context
<1>3. faults = 0 => \A m \in model \cup {stateFor} : TruthOK(m, truth) /\ m.pending = <<>>
    BY <1>2, StateForFacts DEF CallInv, PendingOK
<1>4. CASE scope = NoScope
    <2>1. model' = model /\ UNCHANGED <<proxied, truth>>
        BY <1>1, <1>4 DEF begin
    <2> DEFINE call == [scope |-> scope, id |-> 0]
    <2>2. inflight' = {call} /\ call.id \in Nat /\ call.scope = NoScope
        BY <1>1, <1>4
    <2> HIDE DEF call
    <2>3. \A m : m.pending = <<>> => PendingOK(m, inflight', truth)
        BY DEF PendingOK
    <2>4. faults = 0 => \A m \in model : TruthOK(m, truth) /\ PendingOK(m, inflight', truth)
        BY <1>3, <2>3
    <2> QED BY <1>2, <2>1, <2>2, <2>4 DEF CallInv
<1>5. CASE scope # NoScope
    <2> DEFINE id == proxied[scope] + 1
               made == [id |-> id, packet |-> active]
               call == [scope |-> scope, id |-> id]
    <2>1. scope \in Scopes /\ id \in Nat /\ inflight' = {call} /\ call.scope = scope /\ call.id = id
        BY <1>1, <1>5 DEF CallInv
    <2>2. proxied' \in [Scopes -> Nat]
        BY <1>1, <1>5, <2>1 DEF CallInv
    <2>3. made.id = id /\ made.packet = active
        OBVIOUS
    <2> HIDE DEF made, call
    <2>4. /\ truth' = [o \in Scopes |-> truth'[o]] /\ truth'[scope] = Append(truth[scope], made)
          /\ \A o \in Scopes \ {scope} : truth'[o] = truth[o]
        BY <1>1, <1>5, <2>1 DEF CallInv, made
    <2>5. /\ IsSeq(truth[scope]) /\ IsSeq(Append(truth[scope], made))
          /\ made \in Elements(Append(truth[scope], made))
          /\ Elements(truth[scope]) \subseteq Elements(Append(truth[scope], made))
        <3>1. IsSeq(truth[scope])
            BY <2>1 DEF CallInv
        <3>2. /\ IsSeq(Append(truth[scope], made)) /\ Len(truth[scope]) \in Nat
              /\ DOMAIN truth[scope] = 1 .. Len(truth[scope])
              /\ DOMAIN Append(truth[scope], made) = 1 .. (Len(truth[scope]) + 1)
              /\ Append(truth[scope], made)[Len(truth[scope]) + 1] = made
              /\ \A i \in 1 .. Len(truth[scope]) : Append(truth[scope], made)[i] = truth[scope][i]
            BY <3>1, AppendFacts
        <3>3. made \in Elements(Append(truth[scope], made))
            BY <3>2 DEF Elements
        <3>4. Elements(truth[scope]) \subseteq Elements(Append(truth[scope], made))
            BY <3>2 DEF Elements
        <3> QED BY <3>1, <3>2, <3>3, <3>4
    <2>6. \A o \in Scopes : IsSeq(truth'[o]) /\ Elements(truth[o]) \subseteq Elements(truth'[o])
        BY <2>4, <2>5 DEF CallInv
    <2>7. \A m : Recorded(m) /\ TruthOK(m, truth) => TruthOK(m, truth')
        BY <2>6 DEF Recorded, TruthOK, MadeUnder
    <2>8. CASE active = {}
        <3>1. model' = model
            BY <1>1, <2>8
        <3> QED BY <1>2, <1>3, <2>1, <2>2, <2>4, <2>6, <2>7, <3>1 DEF CallInv, PendingOK
    <2>9. CASE active # {}
        <3> DEFINE packet == CHOOSE p \in active : TRUE
                   e == [scope |-> scope, packet |-> packet, retry |-> stateFor.nextRetry]
                   r == [stateFor EXCEPT !.nextRetry = 0, !.pending = Append(@, e)]
        <3>1. active = {packet}
            BY <2>9 DEF BudgetInv
        <3>2. model' = {r}
            BY <1>1, <1>5, <2>9 DEF begin
        <3>3. e.scope = scope /\ e.packet = packet
            OBVIOUS
        <3> HIDE DEF e, packet
        <3>4. Recorded(stateFor)
            BY StateForFacts
        <3>5. r.calls = stateFor.calls /\ r.pending = Append(stateFor.pending, e) /\ DOMAIN r = DOMAIN stateFor
            BY <3>4 DEF Recorded
        <3> HIDE DEF r
        <3>6. /\ IsSeq(r.pending)
              /\ \A i \in DOMAIN r.pending : r.pending[i].scope \in Scopes
            <4> DEFINE s == stateFor.pending
            <4>1. IsSeq(s) /\ \A i \in DOMAIN s : s[i].scope \in Scopes
                BY <3>4 DEF Recorded
            <4> HIDE DEF s
            <4>2. /\ IsSeq(Append(s, e)) /\ Len(s) \in Nat /\ DOMAIN s = 1 .. Len(s)
                  /\ DOMAIN Append(s, e) = 1 .. (Len(s) + 1) /\ Append(s, e)[Len(s) + 1] = e
                  /\ \A i \in 1 .. Len(s) : Append(s, e)[i] = s[i]
                BY <4>1, AppendFacts
            <4>3. \A i \in 1 .. (Len(s) + 1) : i \in 1 .. Len(s) \/ i = Len(s) + 1
                BY <4>2
            <4>4. \A i \in DOMAIN Append(s, e) : Append(s, e)[i].scope \in Scopes
                BY <2>1, <3>3, <4>1, <4>2, <4>3
            <4> QED BY <3>5, <4>2, <4>4 DEF s
        <3>7. Recorded(r)
            BY <3>4, <3>5, <3>6 DEF Recorded
        <3>8. faults = 0 => TruthOK(r, truth') /\ PendingOK(r, inflight', truth')
            <4> SUFFICES ASSUME faults = 0 PROVE TruthOK(r, truth') /\ PendingOK(r, inflight', truth')
                OBVIOUS
            <4>1. TruthOK(stateFor, truth) /\ stateFor.pending = <<>>
                BY <1>3
            <4>2. TruthOK(r, truth')
                BY <2>7, <3>4, <3>5, <4>1 DEF TruthOK
            <4>3. r.pending = <<e>>
                BY <3>5, <4>1
            <4>4. made.packet = {e.packet}
                BY <2>3, <3>1, <3>3
            <4>5. MadeUnder(truth', scope, id, e.packet)
                BY <2>3, <2>4, <2>5, <4>4 DEF MadeUnder
            <4>6. PendingOK(r, inflight', truth')
                BY <2>1, <3>3, <4>3, <4>5 DEF PendingOK
            <4> QED BY <4>2, <4>6
        <3> QED BY <1>2, <2>1, <2>2, <2>4, <2>6, <3>2, <3>7, <3>8 DEF CallInv
    <2> QED BY <2>8, <2>9
<1> QED BY <1>4, <1>5

(* A response, the first or a second time, and what the proxy reports. *)
LEMMA ResponseCalls ==
    ASSUME CallInv, Response \/ Repeated \/ Disconnected
    PROVE  CallInv'
<1>1. CASE Response
    <2>1. PICK call \in inflight, terminal \in {"responded", "errored", "invalid"} :
              /\ model' = {observeResponse(m, [id |-> call.id, terminal |-> terminal]) : m \in model}
              /\ inflight' = {}
        BY <1>1 DEF Response
    <2>2. UNCHANGED <<proxied, truth, faults>>
        BY <1>1 DEF Response
    <2>3. CASE model = {}
        BY <2>1, <2>2, <2>3 DEF CallInv
    <2>4. CASE model # {}
        <3>1. PICK m : model = {m} /\ Recorded(m)
            BY <2>4 DEF CallInv
        <3> DEFINE after == observeResponse(m, [id |-> call.id, terminal |-> terminal])
        <3>2. call.id \in Nat /\ inflight = {call}
            BY <2>1 DEF CallInv
        <3>3. /\ Recorded(after)
              /\ m.pending = <<>> => after = m
              /\ \A tr : \A e : m.pending = <<e>> /\ TruthOK(m, tr) /\ MadeUnder(tr, e.scope, call.id, e.packet)
                              => TruthOK(after, tr) /\ after.pending = <<>>
            <4>1. Recorded(m) /\ call.id \in Nat
                BY <3>1, <3>2
            <4> HIDE DEF after
            <4> QED BY <4>1, ResponseFacts DEF after
        <3>4. model' = {after}
            BY <2>1, <3>1
        <3> HIDE DEF after
        <3>5. faults = 0 => TruthOK(after, truth) /\ after.pending = <<>>
            <4> SUFFICES ASSUME faults = 0 PROVE TruthOK(after, truth) /\ after.pending = <<>>
                OBVIOUS
            <4>1. TruthOK(m, truth) /\ PendingOK(m, inflight, truth)
                BY <3>1 DEF CallInv
            <4>2. CASE m.pending = <<>>
                BY <3>3, <4>1, <4>2
            <4>3. CASE m.pending # <<>>
                <5>1. PICK e, c : /\ m.pending = <<e>> /\ inflight = {c} /\ c.scope = e.scope
                                  /\ MadeUnder(truth, c.scope, c.id, e.packet)
                    BY <4>1, <4>3 DEF PendingOK
                <5>2. c = call
                    BY <3>2, <5>1
                <5>3. e.scope = call.scope /\ MadeUnder(truth, e.scope, call.id, e.packet)
                    BY <5>1, <5>2
                <5> QED BY <3>3, <4>1, <5>1, <5>3
            <4> QED BY <4>2, <4>3
        <3>6. faults' = 0 => TruthOK(after, truth') /\ PendingOK(after, inflight', truth')
            BY <2>2, <3>5 DEF PendingOK
        <3> QED BY <2>1, <2>2, <3>3, <3>4, <3>6 DEF CallInv
    <2> QED BY <2>3, <2>4
<1>2. CASE Repeated
    <2>1. PICK scope \in Scopes :
              model' = {observeResponse(m, [id |-> proxied[scope], terminal |-> "responded"]) : m \in model}
        BY <1>2 DEF Repeated
    <2>2. UNCHANGED <<proxied, truth, inflight>> /\ faults' = faults + 1 /\ faults' # 0 /\ faults' \in Nat
        BY <1>2 DEF Repeated, models, CallInv
    <2>3. CASE model = {}
        BY <2>1, <2>2, <2>3 DEF CallInv
    <2>4. CASE model # {}
        <3>1. PICK m : model = {m} /\ Recorded(m)
            BY <2>4 DEF CallInv
        <3> DEFINE after == observeResponse(m, [id |-> proxied[scope], terminal |-> "responded"])
        <3>2. proxied[scope] \in Nat
            BY DEF CallInv
        <3>3. Recorded(after)
            <4>1. Recorded(m) /\ proxied[scope] \in Nat
                BY <3>1, <3>2
            <4> HIDE DEF after
            <4> QED BY <4>1, ResponseFacts DEF after
        <3>4. model' = {after}
            BY <2>1, <3>1
        <3> HIDE DEF after
        <3> QED BY <2>2, <3>3, <3>4 DEF CallInv
    <2> QED BY <2>3, <2>4
<1>3. CASE Disconnected
    <2>1. PICK call \in inflight :
              /\ call.scope # NoScope
              /\ model' = {observeProxyTerminal(m, call.scope, call.id,
                                                "transport_client_disconnected") : m \in model}
              /\ inflight' = {}
        BY <1>3 DEF Disconnected
    <2>2. UNCHANGED <<proxied, truth, faults>>
        BY <1>3 DEF Disconnected
    <2>3. CASE model = {}
        BY <2>1, <2>2, <2>3 DEF CallInv
    <2>4. CASE model # {}
        <3>1. PICK m : model = {m} /\ Recorded(m)
            BY <2>4 DEF CallInv
        <3> DEFINE after == observeProxyTerminal(m, call.scope, call.id, "transport_client_disconnected")
        <3>2. call.id \in Nat /\ call.scope \in Scopes /\ inflight = {call}
            BY <2>1 DEF CallInv
        <3>3. /\ Recorded(after)
              /\ m.pending = <<>> => after = m
              /\ \A tr : \A e : m.pending = <<e>> /\ e.scope = call.scope /\ TruthOK(m, tr)
                                 /\ MadeUnder(tr, e.scope, call.id, e.packet)
                              => TruthOK(after, tr) /\ after.pending = <<>>
            <4>1. Recorded(m) /\ call.id \in Nat /\ call.scope \in Scopes
                BY <3>1, <3>2
            <4> HIDE DEF after
            <4> QED BY <4>1, TerminalFacts DEF after
        <3>4. model' = {after}
            BY <2>1, <3>1
        <3> HIDE DEF after
        <3>5. faults = 0 => TruthOK(after, truth) /\ after.pending = <<>>
            <4> SUFFICES ASSUME faults = 0 PROVE TruthOK(after, truth) /\ after.pending = <<>>
                OBVIOUS
            <4>1. TruthOK(m, truth) /\ PendingOK(m, inflight, truth)
                BY <3>1 DEF CallInv
            <4>2. CASE m.pending = <<>>
                BY <3>3, <4>1, <4>2
            <4>3. CASE m.pending # <<>>
                <5>1. PICK e, c : /\ m.pending = <<e>> /\ inflight = {c} /\ c.scope = e.scope
                                  /\ MadeUnder(truth, c.scope, c.id, e.packet)
                    BY <4>1, <4>3 DEF PendingOK
                <5>2. c = call
                    BY <3>2, <5>1
                <5>3. e.scope = call.scope /\ MadeUnder(truth, e.scope, call.id, e.packet)
                    BY <5>1, <5>2
                <5> QED BY <3>3, <4>1, <5>1, <5>3
            <4> QED BY <4>2, <4>3
        <3>6. faults' = 0 => TruthOK(after, truth') /\ PendingOK(after, inflight', truth')
            BY <2>2, <3>5 DEF PendingOK
        <3> QED BY <2>1, <2>2, <3>3, <3>4, <3>6 DEF CallInv
    <2> QED BY <2>3, <2>4
<1> QED BY <1>1, <1>2, <1>3

(* A retry is announced. *)
LEMMA RetryCalls ==
    ASSUME CallInv, RetryStarted
    PROVE  CallInv'
<1> DEFINE r == [stateFor EXCEPT !.nextRetry = 1]
<1>1. model' = {r} /\ UNCHANGED <<proxied, truth, faults, inflight>>
    BY DEF RetryStarted, models
<1>2. Recorded(stateFor) /\ (faults = 0 => TruthOK(stateFor, truth) /\ PendingOK(stateFor, inflight, truth))
    BY StateForFacts
<1>3. r.calls = stateFor.calls /\ r.pending = stateFor.pending /\ DOMAIN r = DOMAIN stateFor
    BY <1>2 DEF Recorded
<1> HIDE DEF r
<1>4. Recorded(r)
    BY <1>2, <1>3 DEF Recorded
<1>5. faults = 0 => TruthOK(r, truth) /\ PendingOK(r, inflight, truth)
    BY <1>2, <1>3 DEF TruthOK, PendingOK
<1> QED BY <1>1, <1>4, <1>5 DEF CallInv

(* Every step. *)
LEMMA CallStep ==
    ASSUME CallInv, BudgetInv, [Next]_vars
    PROVE  CallInv'
<1>1. ASSUME UNCHANGED <<proxied, faults, truth, inflight, model>> PROVE CallInv'
    BY <1>1 DEF CallInv
<1>2. CASE Turns
    <2>1. CASE StartPrompt \/ StartRun
        BY <1>1, <2>1 DEF StartPrompt, StartRun, models
    <2>2. CASE Shutdown
        <3>1. /\ model' = {} /\ inflight' = {} /\ proxied' = proxied /\ faults' = faults + 1
              /\ truth' = [scope \in Scopes |-> <<>>]
            BY <2>2 DEF Shutdown
        <3>2. IsSeq(<<>>)
            BY DEF IsSeq
        <3> QED BY <3>1, <3>2 DEF CallInv
    <2> QED BY <1>2, <2>1, <2>2 DEF Turns
<1>3. CASE ToolCalls
    BY <1>1, <1>3 DEF ToolCalls, ToolCall, ToolResult, models
<1>4. CASE ModelCalls
    <2>1. CASE SetInjectionContent
        BY <1>1, <2>1 DEF SetInjectionContent, models
    <2>2. CASE Lost
        <3>1. /\ UNCHANGED <<model, proxied, truth>> /\ faults' = faults + 1 /\ inflight' = {}
              /\ faults' # 0 /\ faults' \in Nat
            BY <2>2 DEF Lost, session, CallInv
        <3> QED BY <3>1 DEF CallInv
    <2> QED BY <1>4, <2>1, <2>2, ContextCalls, ResponseCalls, RetryCalls DEF ModelCalls
<1>5. CASE UNCHANGED vars
    BY <1>1, <1>5 DEF vars, session, models
<1> QED BY <1>2, <1>3, <1>4, <1>5 DEF Next

(* No call of a scope is recorded twice, whatever is lost or repeated; and *)
(* while nothing is, each record names the packet its call was made under  *)
(* (ModelCallObserver.begin, observeResponse, observeProxyTerminal).       *)
THEOREM CallsAttributedHolds == ObserverSpec => []CallsAttributed
<1> DEFINE Inv == BudgetInv /\ CallInv
<1>1. Init => Inv
    <2> SUFFICES ASSUME Init PROVE Inv
        OBVIOUS
    <2>1. IsSeq(<<>>)
        BY DEF IsSeq
    <2> QED BY <2>1 DEF Init, BudgetInv, CallInv, SpentOK, Nothing
<1>2. Inv /\ [Next]_vars => Inv'
    BY BudgetStep, CallStep
<1>3. Inv => CallsAttributed
    <2> SUFFICES ASSUME CallInv, NEW m \in model, NEW i \in DOMAIN m.calls
                 PROVE  /\ \A j \in 1 .. (i - 1) :
                              m.calls[j].scope = m.calls[i].scope => m.calls[j].id < m.calls[i].id
                        /\ faults = 0 =>
                             \E call \in Elements(truth[m.calls[i].scope]) :
                                call.id = m.calls[i].id /\ call.packet = {m.calls[i].packet}
        BY DEF CallsAttributed
    <2>1. Recorded(m) /\ (faults = 0 => TruthOK(m, truth))
        BY DEF CallInv
    <2> QED BY <2>1 DEF Recorded, Increasing, TruthOK, MadeUnder
<1> HIDE DEF Inv
<1> QED BY <1>1, <1>2, <1>3, PTL DEF ObserverSpec

-----------------------------------------------------------------------------
(* Recursion                                                               *)

(* Each value is computed from those at arguments of a smaller size. *)
Descends(D, S, K, size, step) ==
    /\ S # {} /\ K \in Nat /\ size \in [D -> 0 .. K] /\ step \in [D -> [[D -> S] -> S]]
    /\ \A d \in D : \A f, g \in [D -> S] :
        (\A e \in D : size[e] < size[d] => f[e] = g[e]) => step[d][f] = step[d][g]

Solves(f, D, S, step) == f \in [D -> S] /\ \A d \in D : f[d] = step[d][f]

(* A function may be defined by recursion on arguments whose measure goes  *)
(* down: there is one that satisfies its own equation.                     *)
LEMMA RecursionExists ==
    ASSUME NEW D, NEW S, NEW K, NEW size, NEW step, Descends(D, S, K, size, step)
    PROVE  \E f : Solves(f, D, S, step)
<1> USE DEF Descends
<1> SUFFICES \E f \in [D -> S] : \A d \in D : f[d] = step[d][f]
    BY DEF Solves
<1> DEFINE upTo(k, f) == \A d \in D : size[d] < k => f[d] = step[d][f]
           wrong == {k \in 0 .. (K + 1) : ~\E f \in [D -> S] : upTo(k, f)}
<1>1. CASE wrong # {}
    <2>1. PICK k \in wrong : \A j \in wrong : k <= j
        <3>1. wrong \in SUBSET Nat
            OBVIOUS
        <3> HIDE DEF wrong
        <3> QED BY <1>1, <3>1, LeastExists
    <2>2. k \in 0 .. (K + 1) /\ ~\E f \in [D -> S] : upTo(k, f)
        <3> HIDE DEF upTo
        <3> QED OBVIOUS
    <2>3. k # 0
        <3>1. PICK any : any \in S
            OBVIOUS
        <3> DEFINE f == [d \in D |-> any]
        <3>2. f \in [D -> S]
            BY <3>1
        <3>3. upTo(0, f)
            OBVIOUS
        <3> HIDE DEF upTo, f
        <3> QED BY <2>2, <3>2, <3>3
    <2>4. PICK f \in [D -> S] : upTo(k - 1, f)
        <3>1. k - 1 \notin wrong /\ k - 1 \in 0 .. (K + 1)
            <4> HIDE DEF upTo
            <4> QED BY <2>1, <2>2, <2>3
        <3> HIDE DEF upTo
        <3> QED BY <3>1
    <2> DEFINE g == [d \in D |-> step[d][f]]
    <2>5. g \in [D -> S]
        BY <2>4
    <2>6. \A d \in D : g[d] = step[d][f]
        OBVIOUS
    <2> HIDE DEF g
    <2>7. ASSUME NEW d \in D, size[d] < k
          PROVE  g[d] = step[d][g]
        <3>1. \A e \in D : size[e] < size[d] => f[e] = g[e]
            <4> SUFFICES ASSUME NEW e \in D, size[e] < size[d] PROVE f[e] = g[e]
                OBVIOUS
            <4>1. size[e] \in 0 .. K /\ size[d] \in 0 .. K
                OBVIOUS
            <4>2. size[e] < k - 1
                BY <2>2, <2>7, <4>1
            <4>3. f[e] = step[e][f]
                BY <2>4, <4>2
            <4> QED BY <2>6, <4>3
        <3>2. step[d][f] = step[d][g]
            BY <2>5, <3>1
        <3> QED BY <2>6, <3>2
    <2>8. upTo(k, g)
        BY <2>7
    <2> HIDE DEF upTo
    <2> QED BY <2>2, <2>5, <2>8
<1>2. CASE wrong = {}
    <2>1. K + 1 \in 0 .. (K + 1)
        OBVIOUS
    <2>2. PICK f \in [D -> S] : upTo(K + 1, f)
        <3> HIDE DEF upTo
        <3> QED BY <1>2, <2>1
    <2>3. \A d \in D : size[d] \in 0 .. K
        OBVIOUS
    <2>4. \A d \in D : size[d] < K + 1
        BY <2>3
    <2> QED BY <2>2, <2>4
<1> QED BY <1>1, <1>2

(* f[n] is made of f[n - 1], beginning with base. *)
Iterates(f, N, S, base, next) ==
    f \in [0 .. N -> S] /\ f[0] = base /\ \A n \in 1 .. N : f[n] = next[n][f[n - 1]]

(* A recursion on the numbers up to N is a special case. *)
LEMMA IterationExists ==
    ASSUME NEW N \in Nat, NEW S, NEW base \in S, NEW next, next \in [1 .. N -> [S -> S]]
    PROVE  \E f : Iterates(f, N, S, base, next)
<1> DEFINE D == 0 .. N
           size == [n \in D |-> n]
           step == [n \in D |-> [f \in [D -> S] |-> IF n = 0 THEN base ELSE next[n][f[n - 1]]]]
<1>1. size \in [D -> 0 .. N] /\ \A n \in D : size[n] = n
    OBVIOUS
<1>2. \A n \in D, f \in [D -> S] :
          /\ step[n][f] = IF n = 0 THEN base ELSE next[n][f[n - 1]]
          /\ step[n][f] \in S
    <2> TAKE n \in D, f \in [D -> S]
    <2>1. step[n][f] = IF n = 0 THEN base ELSE next[n][f[n - 1]]
        OBVIOUS
    <2>2. n # 0 => n \in 1 .. N /\ f[n - 1] \in S
        OBVIOUS
    <2>3. n # 0 => next[n][f[n - 1]] \in S
        BY <2>2
    <2> HIDE DEF step
    <2> QED BY <2>1, <2>3
<1>3. step \in [D -> [[D -> S] -> S]]
    <2>1. ASSUME NEW n \in D, NEW f \in [D -> S]
          PROVE  (IF n = 0 THEN base ELSE next[n][f[n - 1]]) \in S
        BY <1>2
    <2> QED BY <2>1
<1> HIDE DEF size, step
<1>4. ASSUME NEW d \in D, NEW f \in [D -> S], NEW g \in [D -> S],
             \A e \in D : size[e] < size[d] => f[e] = g[e]
      PROVE  step[d][f] = step[d][g]
    <2>1. CASE d = 0
        BY <1>2, <2>1
    <2>2. CASE d # 0
        <3>1. d - 1 \in D /\ d - 1 < d
            BY <2>2
        <3>2. f[d - 1] = g[d - 1]
            BY <1>1, <1>4, <3>1
        <3> QED BY <1>2, <3>2
    <2> QED BY <2>1, <2>2
<1>5. PICK f : Solves(f, D, S, step)
    <2>1. S # {}
        OBVIOUS
    <2>2. \A d \in D : \A f, g \in [D -> S] :
              (\A e \in D : size[e] < size[d] => f[e] = g[e]) => step[d][f] = step[d][g]
        BY <1>4
    <2> HIDE DEF D
    <2>3. Descends(D, S, N, size, step)
        BY <2>1, <2>2, <1>1, <1>3 DEF Descends
    <2> QED BY <2>3, RecursionExists
<1>6. 0 \in D /\ \A n \in 1 .. N : n \in D /\ n # 0
    OBVIOUS
<1>7. f[0] = base
    BY <1>2, <1>5, <1>6 DEF Solves
<1>8. ASSUME NEW n \in 1 .. N PROVE f[n] = next[n][f[n - 1]]
    <2>1. n \in D /\ n # 0
        BY <1>6
    <2>2. f[n] = step[n][f]
        BY <1>5, <2>1 DEF Solves
    <2> HIDE DEF D
    <2> QED BY <1>2, <1>5, <2>1, <2>2 DEF Solves
<1> QED BY <1>5, <1>7, <1>8 DEF Iterates, Solves

-----------------------------------------------------------------------------
(* The loop over the candidates                                            *)

Outcomes == {"resolved", "provider_unavailable", "model_unavailable", "invalid_model_role"}

Ends(candidate, roleModels) ==
    Outcome(candidate, roleModels) \in {"resolved", "invalid_model_role"}

(* An attempt has one of four outcomes. *)
LEMMA OutcomeFacts ==
    ASSUME NEW candidate, NEW roleModels
    PROVE  Outcome(candidate, roleModels) \in Outcomes
BY DEF Outcome, Outcomes

(* The loop tries the candidates in their order, up to the first that ends *)
(* it.                                                                     *)
LEMMA AttemptsFacts ==
    ASSUME NEW T, NEW candidates \in Seq(T), NEW roleModels
    PROVE  \E k \in 0 .. Len(candidates) :
               /\ Attempts(candidates, roleModels)
                    = [i \in 1 .. k |-> [selector |-> candidates[i],
                                        outcome |-> Outcome(candidates[i], roleModels)]]
               /\ \A i \in 1 .. (k - 1) : ~Ends(candidates[i], roleModels)
               /\ k < Len(candidates) => k > 0 /\ Ends(candidates[k], roleModels)
<1> DEFINE N == Len(candidates)
           A == [selector : T, outcome : Outcomes]
           S == [attempts : Seq(A), stop : BOOLEAN]
           one(i) == [selector |-> candidates[i], outcome |-> Outcome(candidates[i], roleModels)]
           none == [attempts |-> <<>>, stop |-> FALSE]
           step(n, s) == tryCandidate(s, candidates[n], roleModels)
           body(f, n) == IF n = 0 THEN none ELSE step(n, f[n - 1])
           tried == CHOOSE f : f = [n \in 0 .. N |-> body(f, n)]
<1>1. N \in Nat
    OBVIOUS
<1>2. \A i \in 1 .. N : candidates[i] \in T /\ one(i) \in A
    BY OutcomeFacts
<1>3. none \in S
    OBVIOUS
<1> HIDE DEF A
<1>4. \A n \in 1 .. N, s \in S :
          /\ step(n, s) = IF s.stop THEN s
                          ELSE [attempts |-> Append(s.attempts, one(n)),
                                stop |-> Ends(candidates[n], roleModels)]
          /\ step(n, s) \in S
    <2> TAKE n \in 1 .. N, s \in S
    <2>1. step(n, s) = IF s.stop THEN s
                       ELSE [attempts |-> Append(s.attempts, one(n)),
                             stop |-> Ends(candidates[n], roleModels)]
        BY Zenon DEF tryCandidate, Ends
    <2>2. one(n) \in A /\ Ends(candidates[n], roleModels) \in BOOLEAN
        BY <1>2 DEF Ends
    <2>3. s.attempts \in Seq(A) /\ Append(s.attempts, one(n)) \in Seq(A)
        <3> HIDE DEF one
        <3> QED BY <2>2
    <2> HIDE DEF one, step
    <2> QED BY <2>1, <2>2, <2>3
<1>5. Attempts(candidates, roleModels) = tried[N].attempts
    BY DEF Attempts
<1> HIDE DEF step, none, S
<1>6. \E f : f = [n \in 0 .. N |-> body(f, n)]
    <2> DEFINE next == [n \in 1 .. N |-> [s \in S |-> step(n, s)]]
    <2>1. next \in [1 .. N -> [S -> S]]
        BY <1>4
    <2>2. \A n \in 1 .. N, s \in S : next[n][s] = step(n, s)
        OBVIOUS
    <2> HIDE DEF next
    <2>3. PICK f : Iterates(f, N, S, none, next)
        <3> HIDE DEF N
        <3> QED BY <1>1, <1>3, <2>1, IterationExists
    <2>4. \A n \in 0 .. N : f[n] = body(f, n)
        <3> TAKE n \in 0 .. N
        <3>1. CASE n = 0
            BY <2>3, <3>1 DEF Iterates
        <3>2. CASE n # 0
            <4>1. n \in 1 .. N /\ f[n - 1] \in S
                BY <1>1, <2>3, <3>2 DEF Iterates
            <4> QED BY <2>2, <2>3, <3>2, <4>1 DEF Iterates
        <3> QED BY <3>1, <3>2
    <2>5. f \in [0 .. N -> S]
        BY <2>3 DEF Iterates
    <2> HIDE DEF body
    <2> QED BY <2>4, <2>5
<1>7. tried = [n \in 0 .. N |-> body(tried, n)]
    <2> HIDE DEF body
    <2> QED BY <1>6
<1>8. tried[0] = none /\ \A n \in 1 .. N : tried[n] = step(n, tried[n - 1])
    <2> HIDE DEF tried
    <2> QED BY <1>1, <1>7
<1> HIDE DEF tried, body
<1> DEFINE upTo(k) == [i \in 1 .. k |-> one(i)]
           right(n, s) ==
               \E k \in 0 .. n :
                   /\ s.attempts = upTo(k)
                   /\ \A i \in 1 .. (k - 1) : ~Ends(candidates[i], roleModels)
                   /\ s.stop => k > 0 /\ Ends(candidates[k], roleModels)
                   /\ ~s.stop => k = n /\ \A i \in 1 .. n : ~Ends(candidates[i], roleModels)
<1>9. \A n \in 0 .. N : tried[n] \in S /\ right(n, tried[n])
    <2> DEFINE wrong == {n \in 0 .. N : ~(tried[n] \in S /\ right(n, tried[n]))}
    <2>1. SUFFICES ASSUME wrong # {} PROVE FALSE
        OBVIOUS
    <2>2. PICK n \in wrong : \A m \in wrong : n <= m
        <3>1. wrong \in SUBSET Nat
            BY <1>1
        <3> HIDE DEF wrong
        <3> QED BY <2>1, <3>1, LeastExists
    <2>3. n \in 0 .. N /\ ~(tried[n] \in S /\ right(n, tried[n]))
        <3> HIDE DEF right
        <3> QED OBVIOUS
    <2>4. CASE n = 0
        <3>1. upTo(0) = <<>>
            OBVIOUS
        <3>2. right(0, none)
            BY <3>1 DEF none
        <3> HIDE DEF right
        <3> QED BY <1>3, <1>8, <2>3, <2>4, <3>2
    <2>5. CASE n # 0
        <3>1. n \in 1 .. N /\ n - 1 \in 0 .. N
            BY <1>1, <2>3, <2>5
        <3>2. tried[n - 1] \in S /\ right(n - 1, tried[n - 1])
            <4>1. n - 1 \notin wrong
                <5> HIDE DEF right
                <5> QED BY <1>1, <2>2, <3>1
            <4> HIDE DEF right
            <4> QED BY <3>1, <4>1
        <3> DEFINE s == tried[n - 1]
        <3>3. /\ tried[n] \in S
              /\ tried[n] = IF s.stop THEN s
                            ELSE [attempts |-> Append(s.attempts, one(n)),
                                  stop |-> Ends(candidates[n], roleModels)]
            <4> HIDE DEF one
            <4> QED BY <1>4, <1>8, <3>1, <3>2
        <3>4. PICK k \in 0 .. (n - 1) :
                   /\ s.attempts = upTo(k)
                   /\ \A i \in 1 .. (k - 1) : ~Ends(candidates[i], roleModels)
                   /\ s.stop => k > 0 /\ Ends(candidates[k], roleModels)
                   /\ ~s.stop => k = n - 1 /\ \A i \in 1 .. (n - 1) : ~Ends(candidates[i], roleModels)
            BY <3>2
        <3>5. CASE s.stop
            <4>1. k \in 0 .. n /\ tried[n] = s
                BY <3>1, <3>3, <3>5
            <4>2. right(n, tried[n])
                <5> HIDE DEF s, upTo
                <5> QED BY <3>4, <3>5, <4>1
            <4> HIDE DEF right
            <4> QED BY <2>3, <3>3, <4>2
        <3>6. CASE ~s.stop
            <4>1. /\ tried[n].attempts = Append(upTo(n - 1), one(n))
                  /\ tried[n].stop = Ends(candidates[n], roleModels)
                <5> HIDE DEF s, upTo, one
                <5> QED BY <3>3, <3>4, <3>6
            <4>2. Append(upTo(n - 1), one(n)) = upTo(n)
                <5>1. \A i \in 1 .. (n - 1) : one(i) \in A
                    BY <1>2, <3>1
                <5>2. upTo(n - 1) \in Seq(A) /\ Len(upTo(n - 1)) = n - 1
                    <6> HIDE DEF one
                    <6> QED BY <3>1, <5>1
                <5> HIDE DEF one
                <5> QED BY <3>1, <5>2
            <4>3. n \in 0 .. n /\ n > 0
                BY <3>1
            <4>4. right(n, tried[n])
                <5> HIDE DEF upTo, s
                <5> QED BY <3>1, <3>4, <3>6, <4>1, <4>2, <4>3
            <4> HIDE DEF right
            <4> QED BY <2>3, <3>3, <4>4
        <3> QED BY <3>5, <3>6
    <2> QED BY <2>4, <2>5
<1>10. right(N, tried[N])
    <2>1. N \in 0 .. N
        BY <1>1
    <2> HIDE DEF right
    <2> QED BY <1>9, <2>1
<1>11. PICK k \in 0 .. N :
           /\ tried[N].attempts = upTo(k)
           /\ \A i \in 1 .. (k - 1) : ~Ends(candidates[i], roleModels)
           /\ tried[N].stop => k > 0 /\ Ends(candidates[k], roleModels)
           /\ ~tried[N].stop => k = N
    BY <1>10
<1> QED BY <1>5, <1>11

(* A filter of a list of some elements is a list of some of them. *)
LEMMA ChosenType ==
    ASSUME NEW T, NEW s \in Seq(T), NEW A
    PROVE  Chosen(s, A) \in Seq(T)
<1> DEFINE c == Chosen(s, A)
<1>1. IsSeq(s)
    BY DEF IsSeq
<1>2. IsSeq(c) /\ \A i \in 1 .. Len(c) : \E k \in 1 .. Len(s) : c[i] = s[k]
    BY <1>1, ChosenFacts
<1> HIDE DEF c
<1>3. \A k \in 1 .. Len(s) : s[k] \in T
    OBVIOUS
<1>4. Len(c) \in Nat /\ c = [i \in 1 .. Len(c) |-> c[i]]
    BY <1>2 DEF IsSeq
<1>5. \A i \in 1 .. Len(c) : c[i] \in T
    BY <1>2, <1>3
<1>6. c \in Seq(T)
    BY <1>4, <1>5
<1> QED BY <1>6 DEF c

(* The patterns of the entries, one entry after the other. *)
LEMMA PatternsUnfold ==
    ASSUME NEW T, NEW entries, entries \in Seq(Seq(T))
    PROVE  \E upTo :
               /\ patterns(entries) = upTo[Len(entries)]
               /\ upTo[0] = <<>>
               /\ \A n \in 1 .. Len(entries) :
                    upTo[n] = upTo[n - 1] \o Chosen(entries[n], Elements(entries[n]) \ {Blank})
               /\ \A n \in 0 .. Len(entries) : upTo[n] \in Seq(T)
<1> DEFINE N == Len(entries)
           S == Seq(T)
           kept(n) == Chosen(entries[n], Elements(entries[n]) \ {Blank})
           with(s, n) == s \o kept(n)
           body(f, n) == IF n = 0 THEN <<>> ELSE with(f[n - 1], n)
           upTo == CHOOSE f : f = [n \in 0 .. N |-> body(f, n)]
<1>1. N \in Nat
    OBVIOUS
<1>2. ASSUME NEW n \in 1 .. N, NEW s \in S PROVE with(s, n) \in S
    <2>1. entries[n] \in Seq(T)
        OBVIOUS
    <2>2. kept(n) \in Seq(T)
        BY <2>1, ChosenType
    <2> HIDE DEF kept
    <2> QED BY <2>2
<1>3. patterns(entries) = upTo[N]
    BY DEF patterns
<1>9. <<>> \in S
    OBVIOUS
<1> HIDE DEF with, S
<1>4. \E f : f = [n \in 0 .. N |-> body(f, n)]
    <2> DEFINE next == [n \in 1 .. N |-> [s \in S |-> with(s, n)]]
    <2>1. next \in [1 .. N -> [S -> S]]
        BY <1>2
    <2>2. \A n \in 1 .. N, s \in S : next[n][s] = with(s, n)
        OBVIOUS
    <2> HIDE DEF next
    <2>4. PICK f : Iterates(f, N, S, <<>>, next)
        <3> HIDE DEF N
        <3> QED BY <1>1, <1>9, <2>1, IterationExists
    <2>5. \A n \in 0 .. N : f[n] = body(f, n)
        <3> TAKE n \in 0 .. N
        <3>1. CASE n = 0
            BY <2>4, <3>1 DEF Iterates
        <3>2. CASE n # 0
            <4>1. n \in 1 .. N /\ f[n - 1] \in S
                BY <1>1, <2>4, <3>2 DEF Iterates
            <4> QED BY <2>2, <2>4, <3>2, <4>1 DEF Iterates
        <3> QED BY <3>1, <3>2
    <2>6. f \in [0 .. N -> S]
        BY <2>4 DEF Iterates
    <2> HIDE DEF body
    <2> QED BY <2>5, <2>6
<1>5. upTo = [n \in 0 .. N |-> body(upTo, n)]
    <2> HIDE DEF body
    <2> QED BY <1>4
<1>6. upTo[0] = <<>> /\ \A n \in 1 .. N : upTo[n] = with(upTo[n - 1], n)
    <2> HIDE DEF upTo
    <2>1. \A n \in 0 .. N : upTo[n] = body(upTo, n)
        <3> HIDE DEF body
        <3> QED BY <1>5
    <2>2. 0 \in 0 .. N /\ \A n \in 1 .. N : n \in 0 .. N /\ n # 0
        BY <1>1
    <2>3. body(upTo, 0) = <<>> /\ \A n \in 1 .. N : body(upTo, n) = with(upTo[n - 1], n)
        BY <2>2
    <2> HIDE DEF body
    <2> QED BY <2>1, <2>2, <2>3
<1> HIDE DEF upTo, body
<1>7. \A n \in 0 .. N : upTo[n] \in S
    <2> DEFINE wrong == {n \in 0 .. N : upTo[n] \notin S}
    <2>1. SUFFICES ASSUME wrong # {} PROVE FALSE
        OBVIOUS
    <2>2. PICK n \in wrong : \A m \in wrong : n <= m
        <3>1. wrong \in SUBSET Nat
            BY <1>1
        <3> HIDE DEF wrong
        <3> QED BY <2>1, <3>1, LeastExists
    <2>3. n # 0
        BY <1>6, <1>9
    <2>4. n \in 1 .. N /\ n - 1 \in 0 .. N /\ n - 1 \notin wrong
        BY <1>1, <2>2, <2>3
    <2>5. upTo[n - 1] \in S
        BY <2>4
    <2> QED BY <1>2, <1>6, <2>4, <2>5
<1> QED BY <1>3, <1>6, <1>7 DEF with, S

(* They are among what the entries hold. *)
LEMMA PatternsType ==
    ASSUME NEW T, NEW entries, entries \in Seq(Seq(T))
    PROVE  patterns(entries) \in Seq(T)
<1>1. Len(entries) \in 0 .. Len(entries)
    OBVIOUS
<1>2. PICK upTo :
          /\ patterns(entries) = upTo[Len(entries)]
          /\ upTo[0] = <<>>
          /\ \A n \in 1 .. Len(entries) :
               upTo[n] = upTo[n - 1] \o Chosen(entries[n], Elements(entries[n]) \ {Blank})
          /\ \A n \in 0 .. Len(entries) : upTo[n] \in Seq(T)
    BY PatternsUnfold
<1>3. patterns(entries) = upTo[Len(entries)] /\ upTo[Len(entries)] \in Seq(T)
    BY <1>1, <1>2, Zenon
<1> QED BY <1>3

(* One entry to each candidate and no blanks: the candidates. *)
LEMMA PatternsOfSingles ==
    ASSUME NEW T, Blank \notin T, NEW chain \in Seq(T)
    PROVE  patterns([i \in DOMAIN chain |-> <<chain[i]>>]) = chain
<1> DEFINE entries == [i \in DOMAIN chain |-> <<chain[i]>>]
           N == Len(chain)
<1>1. N \in Nat /\ \A i \in 1 .. N : chain[i] \in T
    OBVIOUS
<1>2. /\ entries \in Seq(Seq(T)) /\ Len(entries) = N
      /\ \A i \in 1 .. N : entries[i] = <<chain[i]>>
    <2>1. \A i \in 1 .. N : <<chain[i]>> \in Seq(T)
        BY <1>1
    <2>2. entries = [i \in 1 .. N |-> <<chain[i]>>]
        OBVIOUS
    <2> QED BY <1>1, <2>1, <2>2
<1> HIDE DEF entries
<1>3. PICK upTo :
          /\ patterns(entries) = upTo[Len(entries)]
          /\ upTo[0] = <<>>
          /\ \A n \in 1 .. Len(entries) :
               upTo[n] = upTo[n - 1] \o Chosen(entries[n], Elements(entries[n]) \ {Blank})
          /\ \A n \in 0 .. Len(entries) : upTo[n] \in Seq(T)
    BY <1>2, PatternsUnfold
<1>7. patterns(entries) = upTo[N] /\ upTo[0] = <<>> /\ \A n \in 0 .. N : upTo[n] \in Seq(T)
    BY <1>2, <1>3, Zenon
<1>4. ASSUME NEW n \in 1 .. N
      PROVE  Chosen(entries[n], Elements(entries[n]) \ {Blank}) = <<chain[n]>>
    <2> DEFINE A == Elements(<<chain[n]>>) \ {Blank}
    <2>1. chain[n] \in A
        BY <1>1 DEF Elements
    <2>2. IsSeq(<<>>) /\ Elements(<<>>) = {} /\ Append(<<>>, chain[n]) = <<chain[n]>>
        BY DEF IsSeq, Elements
    <2> HIDE DEF A
    <2>3. Chosen(Append(<<>>, chain[n]), A) = Append(Chosen(<<>>, A), chain[n])
        BY <2>1, <2>2, ChosenAppend
    <2>4. Chosen(<<>>, A) = <<>>
        BY ChosenEmpty
    <2> QED BY <1>2, <2>2, <2>3, <2>4 DEF A
<1>5. \A n \in 0 .. N : Len(upTo[n]) = n /\ \A i \in 1 .. n : upTo[n][i] = chain[i]
    <2> DEFINE right(n) == Len(upTo[n]) = n /\ \A i \in 1 .. n : upTo[n][i] = chain[i]
               wrong == {n \in 0 .. N : ~right(n)}
    <2>1. SUFFICES ASSUME wrong # {} PROVE FALSE
        OBVIOUS
    <2>2. PICK n \in wrong : \A m \in wrong : n <= m
        <3>1. wrong \in SUBSET Nat
            BY <1>1
        <3> HIDE DEF wrong
        <3> QED BY <2>1, <3>1, LeastExists
    <2>3. n # 0
        <3>1. right(0)
            BY <1>7
        <3> HIDE DEF right
        <3> QED BY <3>1
    <2>4. n \in 1 .. N /\ n - 1 \in 0 .. N /\ n - 1 \notin wrong
        <3> HIDE DEF right
        <3> QED BY <1>1, <2>2, <2>3
    <2>5. right(n - 1)
        <3> HIDE DEF right
        <3> QED BY <2>4
    <2>6. upTo[n] = upTo[n - 1] \o <<chain[n]>> /\ upTo[n - 1] \in Seq(T) /\ chain[n] \in T
        BY <1>1, <1>2, <1>3, <1>4, <2>4
    <2>7. right(n)
        BY <2>4, <2>5, <2>6
    <2> HIDE DEF right
    <2> QED BY <2>2, <2>7
<1>6. /\ patterns(entries) \in Seq(T) /\ Len(patterns(entries)) = N
      /\ \A i \in 1 .. N : patterns(entries)[i] = chain[i]
    BY <1>1, <1>5, <1>7
<1>8. patterns(entries) = chain
    BY <1>1, <1>6
<1> QED BY <1>8 DEF entries

(* The loop passes with the first candidate that can be used, and with     *)
(* none if there is no such candidate.                                     *)
LEMMA PassesWithFirst ==
    ASSUME NEW T, NEW candidates \in Seq(T), NEW roleModels,
           NEW usable, usable \subseteq DOMAIN candidates,
           \A i \in DOMAIN candidates :
               i \in usable <=> /\ Outcome(candidates[i], roleModels) = "resolved"
                             /\ \A j \in 1 .. (i - 1) :
                                  Outcome(candidates[j], roleModels)
                                    \in {"provider_unavailable", "model_unavailable"}
    PROVE  /\ Passed(Attempts(candidates, roleModels)) <=> usable # {}
           /\ \A i \in usable :
                /\ Len(Attempts(candidates, roleModels)) = i
                /\ Attempts(candidates, roleModels)[i].selector = candidates[i]
<1> DEFINE attempts == Attempts(candidates, roleModels)
           outcome(i) == Outcome(candidates[i], roleModels)
<1>1. PICK k \in 0 .. Len(candidates) :
          /\ attempts = [i \in 1 .. k |-> [selector |-> candidates[i], outcome |-> outcome(i)]]
          /\ \A i \in 1 .. (k - 1) : ~Ends(candidates[i], roleModels)
          /\ k < Len(candidates) => k > 0 /\ Ends(candidates[k], roleModels)
    BY AttemptsFacts, Zenon
<1>2. Len(candidates) \in Nat /\ DOMAIN candidates = 1 .. Len(candidates)
    OBVIOUS
<1>3. /\ Len(attempts) = k
      /\ \A i \in 1 .. k : attempts[i].selector = candidates[i] /\ attempts[i].outcome = outcome(i)
    <2> HIDE DEF outcome
    <2> QED BY <1>1
<1>4. attempts # <<>> <=> k # 0
    <2>1. Len(<<>>) = 0
        OBVIOUS
    <2>2. k = 0 => 1 .. k = {}
        OBVIOUS
    <2>3. k = 0 => attempts = <<>>
        <3> HIDE DEF outcome, attempts
        <3> QED BY <1>1, <2>2
    <2> HIDE DEF attempts
    <2> QED BY <1>3, <2>1, <2>3
<1>5. \A i : Ends(candidates[i], roleModels) <=> outcome(i) \in {"resolved", "invalid_model_role"}
    BY DEF Ends
<1>6. \A i : outcome(i) \in Outcomes
    BY OutcomeFacts
<1>7. \A i \in DOMAIN candidates :
          i \in usable <=> /\ outcome(i) = "resolved"
                        /\ \A j \in 1 .. (i - 1) :
                             outcome(j) \in {"provider_unavailable", "model_unavailable"}
    OBVIOUS
<1> HIDE DEF attempts, outcome
<1>8. Passed(attempts) <=> k # 0 /\ outcome(k) = "resolved"
    BY <1>2, <1>3, <1>4 DEF Passed
<1>9. ASSUME NEW i \in DOMAIN candidates, i \in usable
      PROVE  k = i
    <2>1. outcome(i) = "resolved"
        BY <1>7, <1>9, Zenon
    <2>2. \A j \in 1 .. (i - 1) : outcome(j) \in {"provider_unavailable", "model_unavailable"}
        BY <1>7, <1>9, Zenon
    <2>3. ~(k < i)
        <3>1. k < i => k \in 1 .. (i - 1) /\ outcome(k) \in {"resolved", "invalid_model_role"}
            BY <1>1, <1>2, <1>5
        <3> QED BY <2>2, <3>1
    <2>4. ~(k > i)
        <3>1. k > i => i \in 1 .. (k - 1)
            BY <1>2
        <3> QED BY <1>1, <1>5, <2>1, <3>1
    <2> QED BY <1>2, <2>3, <2>4
<1>10. ASSUME Passed(attempts)
       PROVE  k \in DOMAIN candidates /\ k \in usable
    <2>1. k \in DOMAIN candidates /\ outcome(k) = "resolved"
        BY <1>2, <1>8, <1>10
    <2>2. \A j \in 1 .. (k - 1) : outcome(j) \in {"provider_unavailable", "model_unavailable"}
        BY <1>1, <1>5, <1>6 DEF Outcomes
    <2> QED BY <1>7, <2>1, <2>2
<1>11. ASSUME NEW i \in DOMAIN candidates, i \in usable
       PROVE  Passed(attempts) /\ Len(attempts) = i /\ attempts[i].selector = candidates[i]
    <2>1. k = i
        BY <1>9, <1>11
    <2>2. outcome(i) = "resolved"
        BY <1>7, <1>11, Zenon
    <2> QED BY <1>2, <1>3, <1>8, <2>1, <2>2
<1> QED BY <1>10, <1>11 DEF attempts

(* The resolvers agree, and what they pass with is the first candidate     *)
(* that is there.                                                          *)
LEMMA ResolversAgree ==
    ASSUME setting \in Settings, route.role \in Aliases
    PROVE  FirstUsableModel
<1> DEFINE override == toAgentModelOverrides(setting.input)
           its == CHOOSE o \in override : TRUE
           chain == <<route.role>> \o setting.fallbacks
           singles == [i \in DOMAIN chain |-> <<chain[i]>>]
           candidates == IF override # {} THEN patterns(its) ELSE chain
           attempts == Attempts(candidates, setting.roleModels)
           resolved == resolveWorkerModelChain(chain, override, setting.roleModels)
           older == resolveWorkerModelRole(singles, override, setting.roleModels)
           usable == {i \in DOMAIN candidates :
                        /\ Outcome(candidates[i], setting.roleModels) = "resolved"
                        /\ \A j \in 1 .. (i - 1) :
                             Outcome(candidates[j], setting.roleModels)
                               \in {"provider_unavailable", "model_unavailable"}}
<1>1. /\ setting.fallbacks \in Seq(Selectors)
      /\ setting.input.file = "valid" =>
            \A c \in setting.input.override :
                c \in Seq(Seq(Selectors)) /\ modelChainInputSchema(c)
    BY RoutingAssumption
<1>2. Blank \notin Selectors /\ Aliases \subseteq Selectors /\ DOMAIN Parts \subseteq Selectors
    BY RoutingAssumption DEF Selectors
<1>3. chain \in Seq(Selectors) /\ Len(chain) \in Nat \ {0} /\ chain # <<>>
    <2>1. <<route.role>> \in Seq(Selectors) /\ Len(<<route.role>>) = 1
        BY <1>2
    <2>2. chain \in Seq(Selectors) /\ Len(chain) = 1 + Len(setting.fallbacks)
        BY <1>1, <2>1
    <2> HIDE DEF chain
    <2> QED BY <1>1, <2>2
<1> HIDE DEF chain
<1>4. ASSUME NEW o \in override
      PROVE  o \in Seq(Seq(Selectors)) /\ modelPattern(o)
    <2>1. setting.input.file = "valid" /\ o \in setting.input.override
        BY <1>4 DEF toAgentModelOverrides, readModelChainInput
    <2>2. o \in Seq(Seq(Selectors)) /\ modelChainInputSchema(o)
        BY <1>1, <2>1
    <2>3. Len(o) \in 1 .. MAX_CHAIN_LENGTH
        BY <2>2 DEF modelChainInputSchema
    <2>4. ASSUME NEW i \in DOMAIN o PROVE o[i] # <<Blank>>
        <3>1. PICK c \in Aliases \cup DOMAIN Parts : o[i] = <<c>>
            BY <2>2 DEF modelChainInputSchema
        <3>2. c # Blank
            BY <1>2
        <3>3. o[i][1] = c /\ <<Blank>>[1] = Blank
            BY <3>1
        <3> QED BY <3>2, <3>3
    <2>5. <<Blank>> \notin Elements(o)
        BY <2>4 DEF Elements
    <2> QED BY <2>2, <2>3, <2>5 DEF modelPattern
<1>5. override # {} => its \in override
    OBVIOUS
<1> HIDE DEF its, override
<1>6. candidates \in Seq(Selectors)
    <2>1. override # {} => patterns(its) \in Seq(Selectors)
        BY <1>4, <1>5, PatternsType
    <2> QED BY <1>3, <2>1
<1>7. modelPattern(singles) <=> Len(chain) <= MAX_CHAIN_LENGTH
    <2>1. Len(singles) = Len(chain)
        BY <1>3
    <2>2. \A i \in DOMAIN singles : singles[i] # <<Blank>>
        <3> TAKE i \in DOMAIN singles
        <3>1. chain[i] \in Selectors /\ singles[i] = <<chain[i]>>
            BY <1>3
        <3>2. singles[i][1] = chain[i] /\ <<Blank>>[1] = Blank
            BY <3>1
        <3> QED BY <1>2, <3>1, <3>2
    <2>3. <<Blank>> \notin Elements(singles)
        BY <2>2 DEF Elements
    <2> HIDE DEF singles
    <2>4. Len(singles) \in 1 .. MAX_CHAIN_LENGTH <=> Len(chain) <= MAX_CHAIN_LENGTH
        <3>1. \A n \in Nat \ {0} : n \in 1 .. MAX_CHAIN_LENGTH <=> n <= MAX_CHAIN_LENGTH
            BY DEF MAX_CHAIN_LENGTH
        <3> QED BY <1>3, <2>1, <3>1, Zenon
    <2> QED BY <2>3, <2>4 DEF modelPattern
<1>8. singles # <<>> /\ patterns(singles) = chain
    <2>1. patterns(singles) = chain
        BY <1>2, <1>3, PatternsOfSingles
    <2>2. Len(singles) = Len(chain)
        BY <1>3
    <2>3. Len(<<>>) = 0
        OBVIOUS
    <2> QED BY <1>3, <2>1, <2>2, <2>3
<1> HIDE DEF singles
<1>9. candidates = patterns(IF override # {} THEN its ELSE singles)
    BY <1>8
<1> DEFINE short == Len(chain) <= MAX_CHAIN_LENGTH
<1>10. resolved.status = (IF short /\ Passed(attempts) THEN "PASS" ELSE "BLOCKED")
    <2>1. Len(chain) > MAX_CHAIN_LENGTH <=> ~short
        BY <1>3 DEF MAX_CHAIN_LENGTH
    <2> HIDE DEF short
    <2> QED BY <1>3, <2>1 DEF resolveWorkerModelChain, its
<1>11. short => resolved.attempts = attempts
    <2>1. Len(chain) > MAX_CHAIN_LENGTH <=> ~short
        BY <1>3 DEF MAX_CHAIN_LENGTH
    <2> HIDE DEF short
    <2> QED BY <1>3, <2>1 DEF resolveWorkerModelChain, its
<1>12. /\ older.status = (IF short /\ Passed(attempts) THEN "PASS" ELSE "BLOCKED")
       /\ short => older.selector = IF attempts = <<>> THEN Blank ELSE attempts[Len(attempts)].selector
    <2>1. (\E entries \in override \cup ({singles} \ {<<>>}) : ~modelPattern(entries)) <=> ~short
        BY <1>4, <1>7, <1>8
    <2>2. attempts = Attempts(patterns(IF override # {} THEN its ELSE IF singles # <<>> THEN singles
                                       ELSE <<<<DefaultRole>>>>), setting.roleModels)
        BY <1>8, <1>9
    <2> HIDE DEF short, candidates, attempts
    <2> QED BY <2>1, <2>2 DEF resolveWorkerModelRole, its
<1>13. /\ Passed(attempts) <=> usable # {}
       /\ \A i \in usable : Len(attempts) = i /\ attempts[i].selector = candidates[i]
    <2>1. usable \subseteq DOMAIN candidates
        OBVIOUS
    <2>2. \A i \in DOMAIN candidates :
              i \in usable <=> /\ Outcome(candidates[i], setting.roleModels) = "resolved"
                              /\ \A j \in 1 .. (i - 1) :
                                   Outcome(candidates[j], setting.roleModels)
                                     \in {"provider_unavailable", "model_unavailable"}
        OBVIOUS
    <2> HIDE DEF usable, candidates
    <2> QED BY <1>6, <2>1, <2>2, PassesWithFirst
<1>14. Passed(attempts) => attempts # <<>>
    BY DEF Passed
<1> HIDE DEF attempts, resolved, older, usable, short
<1>15. resolved.status = "PASS" <=> short /\ usable # {}
    BY <1>10, <1>13
<1>16. \A i \in usable : resolved.status = "PASS" =>
          Len(resolved.attempts) = i /\ resolved.attempts[i].selector = candidates[i]
    BY <1>11, <1>13, <1>15
<1>17. /\ resolved.status = older.status
       /\ resolved.status = "PASS" =>
            older.selector = resolved.attempts[Len(resolved.attempts)].selector
    BY <1>10, <1>11, <1>12, <1>14
<1> DEFINE outcome(i) == Outcome(candidates[i], setting.roleModels)
           first(i) == /\ outcome(i) = "resolved"
                       /\ \A j \in 1 .. (i - 1) : outcome(j) # "resolved"
<1>18. /\ DOMAIN candidates \subseteq Nat \ {0} /\ usable \subseteq DOMAIN candidates
       /\ \A i \in DOMAIN candidates :
            i \in usable <=> /\ outcome(i) = "resolved"
                            /\ \A j \in 1 .. (i - 1) :
                                 outcome(j) \in {"provider_unavailable", "model_unavailable"}
       /\ \A i : outcome(i) \in Outcomes
    <2>1. DOMAIN candidates \subseteq Nat \ {0}
        <3> HIDE DEF candidates
        <3> QED BY <1>6
    <2> QED BY <2>1, OutcomeFacts DEF usable
<1> HIDE DEF outcome, candidates
<1>19. \A i \in usable : first(i)
    BY <1>18
<1>20. ASSUME NEW i \in DOMAIN candidates, first(i), resolved.status = "PASS"
       PROVE  i \in usable
    <2>1. PICK k \in usable : first(k)
        BY <1>15, <1>19, <1>20
    <2>2. i \in Nat \ {0} /\ k \in Nat \ {0}
        BY <1>18, <2>1
    <2>3. ~(i < k) /\ ~(k < i)
        BY <1>20, <2>1, <2>2
    <2>4. i = k
        BY <2>2, <2>3
    <2> QED BY <2>1, <2>4
<1>21. ASSUME NEW i \in DOMAIN candidates, first(i), short,
              \A j \in 1 .. (i - 1) : outcome(j) # "invalid_model_role"
       PROVE  resolved.status = "PASS"
    <2>1. i \in usable
        BY <1>18, <1>21 DEF Outcomes
    <2> QED BY <1>15, <1>21, <2>1
<1>22. resolved.status = "PASS" => \E i \in DOMAIN candidates : first(i)
    BY <1>15, <1>18, <1>19
<1>23. \A i \in DOMAIN candidates : first(i) /\ resolved.status = "PASS" =>
          Len(resolved.attempts) = i /\ resolved.attempts[i].selector = candidates[i]
    BY <1>16, <1>20
<1> HIDE DEF first
<1> QED BY <1>17, <1>21, <1>22, <1>23
        DEF FirstUsableModel, first, outcome, candidates, resolved, older, short, override, its,
            chain, singles

-----------------------------------------------------------------------------
(* The route                                                               *)

RoleRank(role) == CASE role = "@smol" -> 1 [] role = "@task" -> 2 [] OTHER -> 3

Times(role, list) == Cardinality({i \in DOMAIN list : list[i] = role})

Routes ==
    [status : {"PASS", "BLOCKED"}, action : {"DISPATCH", "ESCALATE", "RESEND", "FAIL", "BLOCK"},
     tier : Tiers, role : Aliases, semantic : Nat, transport : {1, 2}]

(* The packet has been with no role above the route's, with each no more   *)
(* often than the route says, and the route has not left its tier's roles. *)
RouteInv ==
    /\ setting \in Settings /\ sends \in Seq(Aliases)
    /\ at \in {"classify", "resolve", "sent", "done"}
    /\ at = "classify" => route = NoRoute
    /\ at \in {"resolve", "sent"} => route # NoRoute
    /\ route = NoRoute => sends = <<>>
    /\ route # NoRoute =>
        /\ route \in Routes
        /\ RoleRank(route.role) <= Rank(route.tier)
        /\ classifyWorkflowRisk(work).status = "PASS"
        /\ Rank(route.tier) >= Rank(classifyWorkflowRisk(work).tier)
        /\ \A i \in DOMAIN sends : RoleRank(sends[i]) <= RoleRank(route.role)
        /\ \A i, j \in DOMAIN sends : i <= j => RoleRank(sends[i]) <= RoleRank(sends[j])
        /\ \A role \in Aliases : Times(role, sends) <= 2
        /\ at = "resolve" => Times(route.role, sends) <= route.transport - 1
        /\ at = "sent" => Times(route.role, sends) <= route.transport

(* The roles have different ranks, 1 to 3. *)
LEMMA RoleRankFacts ==
    /\ \A role \in Aliases : RoleRank(role) \in 1 .. 3
    /\ \A r, s \in Aliases : RoleRank(r) = RoleRank(s) => r = s
    /\ RoleRank("@smol") = 1 /\ "@smol" \in Aliases
<1>1. RoleRank("@smol") = 1 /\ RoleRank("@task") = 2 /\ RoleRank("@slow") = 3
    BY DEF RoleRank
<1> QED BY <1>1 DEF Aliases

(* The tiers have ranks 1 to 3 too. *)
LEMMA TierRankFacts == \A tier \in Tiers : Rank(tier) \in 1 .. 3
BY DEF Rank, Tiers

(* How often a role is in a list. *)
LEMMA TimesFacts ==
    ASSUME NEW T, NEW list \in Seq(T), NEW role
    PROVE  /\ Times(role, list) \in Nat
           /\ \A x \in T : Times(role, Append(list, x)) <= Times(role, list) + (IF x = role THEN 1 ELSE 0)
           /\ (\A i \in DOMAIN list : list[i] # role) => Times(role, list) = 0
<1> DEFINE at0 == {i \in DOMAIN list : list[i] = role}
<1>1. IsFiniteSet(at0) /\ Cardinality(at0) \in Nat
    <2>1. IsFiniteSet(1 .. Len(list))
        BY FS_Interval
    <2>2. at0 \in SUBSET (1 .. Len(list))
        OBVIOUS
    <2>3. IsFiniteSet(at0)
        BY <2>1, <2>2, FS_Subset
    <2> QED BY <2>3, FS_CardinalityType
<1>2. ASSUME NEW x \in T
      PROVE  Times(role, Append(list, x)) <= Times(role, list) + (IF x = role THEN 1 ELSE 0)
    <2> DEFINE longer == Append(list, x)
               at1 == {i \in DOMAIN longer : longer[i] = role}
    <2>1. /\ DOMAIN longer = 1 .. (Len(list) + 1) /\ DOMAIN list = 1 .. Len(list)
          /\ Len(list) \in Nat
          /\ longer[Len(list) + 1] = x /\ \A i \in 1 .. Len(list) : longer[i] = list[i]
        OBVIOUS
    <2> HIDE DEF longer
    <2>2. at1 = IF x = role THEN at0 \cup {Len(list) + 1} ELSE at0
        <3>1. CASE x = role
            BY <2>1, <3>1
        <3>2. CASE x # role
            BY <2>1, <3>2
        <3> QED BY <3>1, <3>2
    <2> HIDE DEF at0, at1
    <2>3. Cardinality(at0 \cup {Len(list) + 1}) <= Cardinality(at0) + 1
        <3> DEFINE c == Cardinality(at0 \cup {Len(list) + 1})
        <3>1. c = IF Len(list) + 1 \in at0 THEN Cardinality(at0) ELSE Cardinality(at0) + 1
            BY <1>1, FS_AddElement, Zenon
        <3> HIDE DEF c
        <3>2. c <= Cardinality(at0) + 1
            BY <1>1, <3>1
        <3> QED BY <3>2 DEF c
    <2>4. Cardinality(at1) <= Cardinality(at0) + (IF x = role THEN 1 ELSE 0)
        BY <1>1, <2>2, <2>3
    <2> QED BY <2>4 DEF Times, at0, at1, longer
<1>3. ASSUME \A i \in DOMAIN list : list[i] # role
      PROVE  Times(role, list) = 0
    <2>1. at0 = {}
        BY <1>3
    <2> QED BY <2>1, FS_EmptySet DEF Times
<1> QED BY <1>1, <1>2, <1>3 DEF Times

(* What follows a role in a tier is a higher role of the tier. *)
LEMMA NextRoleFacts ==
    ASSUME NEW role \in Aliases, NEW tier \in Tiers, nextRoles(role, tier) # {},
           NEW next, next \in nextRoles(role, tier)
    PROVE  next \in Aliases /\ RoleRank(next) > RoleRank(role) /\ RoleRank(next) <= Rank(tier)
<1>1. PICK i \in {j \in 1 .. (Len(TierRoles[tier]) - 1) : TierRoles[tier][j] = role} :
          next = TierRoles[tier][i + 1]
    BY DEF nextRoles
<1>2. CASE tier = "FAST"
    <2>1. TierRoles["FAST"] = <<"@smol">>
        BY DEF TierRoles
    <2> QED BY <1>1, <1>2, <2>1
<1>3. CASE tier = "STANDARD"
    <2>1. TierRoles["STANDARD"] = <<"@smol", "@task">>
        BY DEF TierRoles
    <2>2. i = 1
        BY <1>1, <1>3, <2>1
    <2> QED BY <1>1, <1>3, <2>1, <2>2 DEF RoleRank, Rank, Aliases
<1>4. CASE tier = "DEEP"
    <2>1. TierRoles["DEEP"] = <<"@smol", "@task", "@slow">>
        BY DEF TierRoles
    <2>2. i = 1 \/ i = 2
        BY <1>1, <1>4, <2>1
    <2> QED BY <1>1, <1>4, <2>1, <2>2 DEF RoleRank, Rank, Aliases
<1> QED BY <1>2, <1>3, <1>4 DEF Tiers

(* A failure leads to a route of at least the tier, and of the same role   *)
(* or a higher one; the same role is sent to once more only if it has been *)
(* sent to once.                                                           *)
LEMMA FailureFacts ==
    ASSUME NEW r \in Routes, RoleRank(r.role) <= Rank(r.tier), NEW failure
    PROVE  LET next == reduceWorkerFailure(r, failure) IN
           /\ next \in Routes /\ RoleRank(next.role) <= Rank(next.tier)
           /\ Rank(next.tier) >= Rank(r.tier)
           /\ \/ next.status = "BLOCKED" /\ next.role = r.role
              \/ next.role = r.role /\ r.transport = 1 /\ next.transport = 2
              \/ RoleRank(next.role) > RoleRank(r.role) /\ next.transport = 1
<1> DEFINE ok(next) ==
        /\ next \in Routes /\ RoleRank(next.role) <= Rank(next.tier)
        /\ Rank(next.tier) >= Rank(r.tier)
        /\ \/ next.status = "BLOCKED" /\ next.role = r.role
           \/ next.role = r.role /\ r.transport = 1 /\ next.transport = 2
           \/ RoleRank(next.role) > RoleRank(r.role) /\ next.transport = 1
<1>1. /\ r.status \in {"PASS", "BLOCKED"} /\ r.tier \in Tiers /\ r.role \in Aliases
      /\ r.semantic \in Nat /\ r.transport \in {1, 2}
    BY DEF Routes
<1>2. Rank(r.tier) \in 1 .. 3 /\ RoleRank(r.role) \in 1 .. 3
    BY <1>1, TierRankFacts, RoleRankFacts
<1>3. \A next \in Routes :
          (/\ next.role = r.role /\ next.tier = r.tier
           /\ next.status = "BLOCKED" \/ (r.transport = 1 /\ next.transport = 2))
          => ok(next)
    BY <1>2
<1>4. ok(block(r)) /\ ok(Exhausted(r)) /\ (r.status = "BLOCKED" => ok(r))
    <2>1. /\ block(r) \in Routes /\ block(r).role = r.role /\ block(r).tier = r.tier
          /\ block(r).status = "BLOCKED"
        BY DEF block, Routes
    <2>2. /\ Exhausted(r) \in Routes /\ Exhausted(r).role = r.role /\ Exhausted(r).tier = r.tier
          /\ Exhausted(r).status = "BLOCKED"
        BY DEF Exhausted, Routes
    <2>3. r.status = "BLOCKED" => ok(r)
        <3> HIDE DEF ok
        <3> QED BY <1>3, Zenon
    <2>4. ok(block(r))
        <3> HIDE DEF ok
        <3> QED BY <1>3, <2>1
    <2>5. ok(Exhausted(r))
        <3> HIDE DEF ok
        <3> QED BY <1>3, <2>2
    <2> HIDE DEF ok
    <2> QED BY <2>3, <2>4, <2>5
<1>5. r.transport = 1 => ok(resend(r))
    <2>1. /\ resend(r) \in Routes /\ resend(r).role = r.role /\ resend(r).tier = r.tier
          /\ resend(r).transport = 2
        BY DEF resend, Routes
    <2> HIDE DEF ok
    <2> QED BY <1>3, <2>1
<1>6. ASSUME NEW tier \in Tiers, Rank(tier) >= Rank(r.tier)
      PROVE  ok(escalate(r, tier))
    <2>1. CASE nextRoles(r.role, tier) = {}
        <3> HIDE DEF ok
        <3> QED BY <1>4, <2>1 DEF escalate
    <2>2. CASE nextRoles(r.role, tier) # {}
        <3> DEFINE role == CHOOSE role \in nextRoles(r.role, tier) : TRUE
                   next == [status |-> "PASS", action |-> "ESCALATE", tier |-> tier, role |-> role,
                            semantic |-> r.semantic + 1, transport |-> 1]
        <3>1. role \in nextRoles(r.role, tier)
            BY <2>2
        <3> HIDE DEF role
        <3>2. role \in Aliases /\ RoleRank(role) > RoleRank(r.role) /\ RoleRank(role) <= Rank(tier)
            BY <1>1, <2>2, <3>1, NextRoleFacts
        <3>3. next \in Routes /\ next.role = role /\ next.tier = tier /\ next.transport = 1
            BY <1>1, <3>2 DEF Routes
        <3>4. escalate(r, tier) = next
            BY <2>2 DEF escalate, role
        <3> HIDE DEF next
        <3> QED BY <1>6, <3>2, <3>3, <3>4
    <2> QED BY <2>1, <2>2
<1>7. ok(escalate(r, r.tier)) /\ ok(escalate(r, IF r.tier = "FAST" THEN "STANDARD" ELSE r.tier))
    <2>1. "STANDARD" \in Tiers /\ Rank("STANDARD") = 2 /\ Rank("FAST") = 1
        BY DEF Tiers, Rank
    <2>2. Rank(r.tier) >= Rank(r.tier)
        BY <1>2
    <2>3. r.tier = "FAST" => Rank("STANDARD") >= Rank(r.tier)
        BY <2>1
    <2> HIDE DEF ok
    <2> QED BY <1>1, <1>6, <2>1, <2>2, <2>3
<1>8. ok(reduceWorkerFailure(r, failure))
    <2> HIDE DEF ok
    <2> QED BY <1>1, <1>4, <1>5, <1>7 DEF reduceWorkerFailure
<1> QED BY <1>8

(* A first classification: the lowest role of the tier. *)
LEMMA ClassifyRoute ==
    ASSUME RouteInv, Classify
    PROVE  RouteInv'
<1>1. /\ setting \in Settings /\ sends = <<>> /\ route = NoRoute
    BY DEF RouteInv, Classify
<1>2. /\ work' = work /\ setting' = setting /\ sends' = sends
    BY DEF Classify
<1> DEFINE risk == classifyWorkflowRisk(work)
<1>3. classifyWorkflowRisk(work)' = risk
    BY <1>2 DEF classifyWorkflowRisk, classifierInputSchema, Concrete, Distinct, Elements
<1>4. risk.status = "PASS" => risk.tier \in Tiers
    BY DEF classifyWorkflowRisk, Tiers
<1>5. \A role : Times(role, <<>>) = 0
    <2> TAKE role
    <2>1. <<>> \in Seq(Aliases) /\ \A i \in DOMAIN <<>> : <<>>[i] # role
        OBVIOUS
    <2> QED BY <2>1, TimesFacts
<1>6. DOMAIN <<>> = {} /\ <<>> \in Seq(Aliases)
    OBVIOUS
<1>7. CASE risk.status = "PASS"
    <2>1. route' = initialWorkerRoute(risk.tier) /\ at' = "resolve"
        BY <1>7 DEF Classify
    <2>2. /\ route' \in Routes /\ route'.role = "@smol" /\ route'.tier = risk.tier
          /\ route'.transport = 1 /\ route'.status = "PASS"
        BY <1>4, <1>7, <2>1, RoleRankFacts DEF initialWorkerRoute, Routes
    <2>3. route' # NoRoute
        BY <2>2 DEF NoRoute
    <2>4. Rank(risk.tier) \in 1 .. 3 /\ RoleRank("@smol") = 1 /\ RoleRank(route'.role) = 1
        BY <1>4, <1>7, <2>2, TierRankFacts, RoleRankFacts
    <2>5. /\ RoleRank(route'.role) <= Rank(route'.tier) /\ Rank(route'.tier) >= Rank(risk.tier)
          /\ Times(route'.role, sends') <= route'.transport - 1
          /\ \A role \in Aliases : Times(role, sends') <= 2
        BY <1>1, <1>2, <1>5, <2>2, <2>4
    <2>6. \A i \in DOMAIN sends' : FALSE
        BY <1>1, <1>2, <1>6
    <2> HIDE DEF risk
    <2> QED BY <1>1, <1>2, <1>3, <1>6, <1>7, <2>1, <2>2, <2>3, <2>5, <2>6 DEF RouteInv
<1>8. CASE risk.status # "PASS"
    <2>1. route' = route /\ at' = "done"
        BY <1>8 DEF Classify
    <2> QED BY <1>1, <1>2, <1>6, <2>1 DEF RouteInv
<1> QED BY <1>7, <1>8

(* A packet is sent to the route's role, which is no lower than the ones   *)
(* before it.                                                              *)
LEMMA ResolveRoute ==
    ASSUME RouteInv, Resolve
    PROVE  RouteInv'
<1>1. /\ setting \in Settings /\ sends \in Seq(Aliases) /\ at = "resolve" /\ route # NoRoute
      /\ route \in Routes
    BY DEF RouteInv, Resolve
<1>2. /\ work' = work /\ setting' = setting /\ route' = route
    BY DEF Resolve
<1>3. classifyWorkflowRisk(work)' = classifyWorkflowRisk(work)
    BY <1>2 DEF classifyWorkflowRisk, classifierInputSchema, Concrete, Distinct, Elements
<1>4. CASE at' = "done" /\ sends' = sends
    BY <1>1, <1>2, <1>3, <1>4 DEF RouteInv
<1>5. CASE at' = "sent" /\ sends' = Append(sends, route.role)
    <2>1. /\ route.role \in Aliases /\ route.transport \in {1, 2}
          /\ RoleRank(route.role) \in 1 .. 3
        BY <1>1, RoleRankFacts DEF Routes
    <2>2. /\ sends' \in Seq(Aliases) /\ DOMAIN sends' = 1 .. (Len(sends) + 1)
          /\ Len(sends) \in Nat /\ DOMAIN sends = 1 .. Len(sends)
          /\ sends'[Len(sends) + 1] = route.role /\ \A i \in 1 .. Len(sends) : sends'[i] = sends[i]
        BY <1>1, <1>5, <2>1
    <2>3. \A i \in DOMAIN sends' : RoleRank(sends'[i]) <= RoleRank(route.role)
        <3> TAKE i \in DOMAIN sends'
        <3>1. CASE i = Len(sends) + 1
            BY <2>1, <2>2, <3>1
        <3>2. CASE i # Len(sends) + 1
            BY <1>1, <2>2, <3>2 DEF RouteInv
        <3> QED BY <3>1, <3>2
    <2>4. \A i, j \in DOMAIN sends' : i <= j => RoleRank(sends'[i]) <= RoleRank(sends'[j])
        <3> SUFFICES ASSUME NEW i \in DOMAIN sends', NEW j \in DOMAIN sends', i <= j
                     PROVE  RoleRank(sends'[i]) <= RoleRank(sends'[j])
            OBVIOUS
        <3>1. CASE j = Len(sends) + 1
            BY <2>2, <2>3, <3>1
        <3>2. CASE j # Len(sends) + 1
            BY <1>1, <2>2, <3>2 DEF RouteInv
        <3> QED BY <3>1, <3>2
    <2>5. ASSUME NEW role \in Aliases
          PROVE  /\ Times(role, sends) \in Nat
                 /\ Times(role, sends') <= Times(role, sends) + (IF route.role = role THEN 1 ELSE 0)
                 /\ Times(role, sends') \in Nat
        BY <1>1, <1>5, <2>1, <2>2, TimesFacts
    <2>6. Times(route.role, sends') <= route.transport
        <3>1. Times(route.role, sends) <= route.transport - 1
            BY <1>1 DEF RouteInv
        <3> QED BY <2>1, <2>5, <3>1
    <2>7. \A role \in Aliases : Times(role, sends') <= 2
        <3> TAKE role \in Aliases
        <3>1. Times(role, sends) <= 2
            BY <1>1 DEF RouteInv
        <3> QED BY <2>1, <2>5, <2>6, <3>1
    <2> QED BY <1>1, <1>2, <1>3, <1>5, <2>2, <2>3, <2>4, <2>6, <2>7 DEF RouteInv
<1> QED BY <1>4, <1>5 DEF Resolve

(* A failure takes it to no role it has been with, but for the one time    *)
(* more after a transport failure.                                         *)
LEMMA FailRoute ==
    ASSUME RouteInv, Fail
    PROVE  RouteInv'
<1>1. /\ setting \in Settings /\ sends \in Seq(Aliases) /\ at = "sent" /\ route # NoRoute
      /\ route \in Routes /\ RoleRank(route.role) <= Rank(route.tier)
    BY DEF RouteInv, Fail
<1>2. /\ work' = work /\ setting' = setting /\ sends' = sends
    BY DEF Fail
<1>3. classifyWorkflowRisk(work)' = classifyWorkflowRisk(work)
    BY <1>2 DEF classifyWorkflowRisk, classifierInputSchema, Concrete, Distinct, Elements
<1>4. PICK failure \in Failures : route' = reduceWorkerFailure(route, failure)
    BY DEF Fail
<1>5. /\ route' \in Routes /\ RoleRank(route'.role) <= Rank(route'.tier)
      /\ Rank(route'.tier) >= Rank(route.tier)
      /\ \/ route'.status = "BLOCKED" /\ route'.role = route.role
         \/ route'.role = route.role /\ route.transport = 1 /\ route'.transport = 2
         \/ RoleRank(route'.role) > RoleRank(route.role) /\ route'.transport = 1
    BY <1>1, <1>4, FailureFacts
<1>6. at' = IF route'.status = "BLOCKED" THEN "done" ELSE "resolve"
    BY DEF Fail
<1>7. route' # NoRoute
    BY <1>5 DEF Routes, NoRoute
<1>8. /\ classifyWorkflowRisk(work).status = "PASS"
      /\ Rank(route.tier) >= Rank(classifyWorkflowRisk(work).tier)
      /\ \A i \in DOMAIN sends : RoleRank(sends[i]) <= RoleRank(route.role)
      /\ \A i, j \in DOMAIN sends : i <= j => RoleRank(sends[i]) <= RoleRank(sends[j])
      /\ \A role \in Aliases : Times(role, sends) <= 2
      /\ Times(route.role, sends) <= route.transport
    BY <1>1 DEF RouteInv
<1>9. /\ RoleRank(route.role) \in 1 .. 3 /\ RoleRank(route'.role) \in 1 .. 3
      /\ Rank(route.tier) \in 1 .. 3 /\ Rank(route'.tier) \in 1 .. 3
    BY <1>1, <1>5, RoleRankFacts, TierRankFacts DEF Routes
<1>10. \A i \in DOMAIN sends : sends[i] \in Aliases /\ RoleRank(sends[i]) \in 1 .. 3
    BY <1>1, RoleRankFacts
<1>11. \A i \in DOMAIN sends : RoleRank(sends[i]) <= RoleRank(route'.role)
    BY <1>5, <1>8, <1>9, <1>10
<1>12. Rank(route'.tier) >= Rank(classifyWorkflowRisk(work).tier)
    <2>1. classifyWorkflowRisk(work).tier \in Tiers
        BY <1>8 DEF classifyWorkflowRisk, Tiers
    <2>2. Rank(classifyWorkflowRisk(work).tier) \in 1 .. 3
        BY <2>1, TierRankFacts
    <2> QED BY <1>5, <1>8, <1>9, <2>2
<1>13. at' = "resolve" => Times(route'.role, sends) <= route'.transport - 1
    <2>1. CASE route'.role = route.role /\ route.transport = 1 /\ route'.transport = 2
        BY <1>8, <2>1
    <2>2. CASE RoleRank(route'.role) > RoleRank(route.role) /\ route'.transport = 1
        <3>1. \A i \in DOMAIN sends : sends[i] # route'.role
            BY <1>8, <1>9, <1>10, <2>2
        <3>2. Times(route'.role, sends) = 0
            BY <1>1, <3>1, TimesFacts
        <3> QED BY <2>2, <3>2
    <2> QED BY <1>5, <1>6, <2>1, <2>2
<1> QED BY <1>1, <1>2, <1>3, <1>5, <1>6, <1>7, <1>8, <1>11, <1>12, <1>13 DEF RouteInv

(* A provider that comes or goes changes nothing of the route. *)
LEMMA ProviderRoute ==
    ASSUME RouteInv, ProviderChanges \/ UNCHANGED routingVars
    PROVE  RouteInv'
<1>1. /\ work' = work /\ setting' = setting /\ sends' = sends /\ at' = at /\ route' = route
    BY DEF ProviderChanges, routingVars
<1>2. classifyWorkflowRisk(work)' = classifyWorkflowRisk(work)
    BY <1>1 DEF classifyWorkflowRisk, classifierInputSchema, Concrete, Distinct, Elements
<1> QED BY <1>1, <1>2 DEF RouteInv

(* Every step. *)
LEMMA RouteStep ==
    ASSUME RouteInv, [RoutingNext]_routingVars
    PROVE  RouteInv'
<1>1. CASE Classify
    BY <1>1, ClassifyRoute
<1>2. CASE Resolve
    BY <1>2, ResolveRoute
<1>3. CASE Fail
    BY <1>3, FailRoute
<1>4. CASE ProviderChanges \/ UNCHANGED routingVars
    BY <1>4, ProviderRoute
<1> QED BY <1>1, <1>2, <1>3, <1>4 DEF RoutingNext

(* The roles a packet was sent to are at most the tier's. *)
LEMMA RolesOfTier ==
    ASSUME NEW list \in Seq(Aliases), NEW tier \in Tiers,
           \A i \in DOMAIN list : RoleRank(list[i]) <= Rank(tier)
    PROVE  Cardinality(Elements(list)) <= RiskTierCeilings[tier].maxSemanticRolesPerPacket
<1> DEFINE of(n) == {role \in Aliases : RoleRank(role) <= n}
<1>1. of(1) = {"@smol"} /\ of(2) = {"@smol", "@task"} /\ of(3) = {"@smol", "@task", "@slow"}
    BY DEF RoleRank, Aliases
<1>2. /\ IsFiniteSet({"@smol"}) /\ Cardinality({"@smol"}) = 1
      /\ IsFiniteSet({"@smol"} \cup {"@task"}) /\ Cardinality({"@smol"} \cup {"@task"}) = 2
      /\ IsFiniteSet({"@smol"} \cup {"@task"} \cup {"@slow"})
      /\ Cardinality({"@smol"} \cup {"@task"} \cup {"@slow"}) = 3
    <2>1. IsFiniteSet({"@smol"}) /\ Cardinality({"@smol"}) = 1
        BY FS_Singleton
    <2>2. "@task" \notin {"@smol"} /\ "@slow" \notin {"@smol"} \cup {"@task"}
        OBVIOUS
    <2> DEFINE one == {"@smol"}
               two == one \cup {"@task"}
    <2>3. IsFiniteSet(two) /\ Cardinality(two) = Cardinality(one) + 1
        <3> HIDE DEF one
        <3> QED BY <2>1, <2>2, FS_AddElement, Zenon DEF one
    <2>4. IsFiniteSet(two \cup {"@slow"}) /\ Cardinality(two \cup {"@slow"}) = Cardinality(two) + 1
        <3> HIDE DEF two
        <3> QED BY <2>3, <2>2, FS_AddElement, Zenon DEF two
    <2> QED BY <2>1, <2>3, <2>4
<1>3. \A n \in 1 .. 3 : IsFiniteSet(of(n)) /\ Cardinality(of(n)) = n
    <2>1. /\ {"@smol", "@task"} = {"@smol"} \cup {"@task"}
          /\ {"@smol", "@task", "@slow"} = {"@smol"} \cup {"@task"} \cup {"@slow"}
        OBVIOUS
    <2>2. \A n \in 1 .. 3 : n = 1 \/ n = 2 \/ n = 3
        OBVIOUS
    <2> HIDE DEF of
    <2> QED BY <1>1, <1>2, <2>1, <2>2
<1>4. RiskTierCeilings[tier].maxSemanticRolesPerPacket = Rank(tier)
    BY DEF RiskTierCeilings, Rank, Tiers
<1>5. Rank(tier) \in 1 .. 3
    BY TierRankFacts
<1>6. Elements(list) \subseteq of(Rank(tier))
    BY DEF Elements
<1> HIDE DEF of
<1>7. Cardinality(Elements(list)) <= Cardinality(of(Rank(tier)))
    BY <1>3, <1>5, <1>6, FS_Subset
<1> QED BY <1>3, <1>4, <1>5, <1>7

(* The route the invariant describes is one RouteIsBounded allows. *)
LEMMA RouteBounds ==
    ASSUME RouteInv
    PROVE  RouteIsBounded
<1> SUFFICES ASSUME route # NoRoute
             PROVE  RouteIsBounded
    BY DEF RouteIsBounded
<1>1. /\ sends \in Seq(Aliases) /\ route \in Routes /\ RoleRank(route.role) <= Rank(route.tier)
      /\ classifyWorkflowRisk(work).status = "PASS"
      /\ Rank(route.tier) >= Rank(classifyWorkflowRisk(work).tier)
      /\ \A i \in DOMAIN sends : RoleRank(sends[i]) <= RoleRank(route.role)
      /\ \A i, j \in DOMAIN sends : i <= j => RoleRank(sends[i]) <= RoleRank(sends[j])
      /\ \A role \in Aliases : Times(role, sends) <= 2
    BY DEF RouteInv
<1>2. /\ route.tier \in Tiers /\ route.role \in Aliases
      /\ RoleRank(route.role) \in 1 .. 3 /\ Rank(route.tier) \in 1 .. 3
    BY <1>1, RoleRankFacts, TierRankFacts DEF Routes
<1>3. /\ DOMAIN sends = 1 .. Len(sends) /\ Len(sends) \in Nat
      /\ \A i \in DOMAIN sends : sends[i] \in Aliases /\ RoleRank(sends[i]) \in 1 .. 3
    BY <1>1, RoleRankFacts
<1>4. ASSUME NEW i \in DOMAIN sends, NEW j \in DOMAIN sends, i < j, sends[i] # sends[j],
             NEW k \in j .. Len(sends)
      PROVE  sends[k] # sends[i]
    <2>1. k \in DOMAIN sends /\ i <= j /\ j <= k
        BY <1>3, <1>4
    <2>2. /\ RoleRank(sends[i]) <= RoleRank(sends[j]) /\ RoleRank(sends[j]) <= RoleRank(sends[k])
        BY <1>1, <2>1
    <2>3. RoleRank(sends[i]) # RoleRank(sends[j])
        BY <1>3, <1>4, RoleRankFacts
    <2> QED BY <1>3, <2>1, <2>2, <2>3
<1>5. Cardinality(Elements(sends)) <= RiskTierCeilings[route.tier].maxSemanticRolesPerPacket
    <2>1. \A i \in DOMAIN sends : RoleRank(sends[i]) <= Rank(route.tier)
        BY <1>1, <1>2, <1>3
    <2> QED BY <1>1, <1>2, <2>1, RolesOfTier
<1>6. Rank(route.tier) >= Rank(classifyTaskTier(work.paths, Elements(work.tags), work.public))
    <2> DEFINE risk == classifyWorkflowRisk(work).tier
               task == classifyTaskTier(work.paths, Elements(work.tags), work.public)
    <2>1. risk \in Tiers /\ task \in Tiers
        BY <1>1 DEF classifyWorkflowRisk, classifyTaskTier, Tiers
    <2>2. /\ task = "DEEP" => risk = "DEEP"
          /\ task = "STANDARD" => risk \in {"STANDARD", "DEEP"}
        BY <1>1 DEF classifyWorkflowRisk, classifyTaskTier
    <2> HIDE DEF risk, task
    <2>3. Rank(risk) >= Rank(task)
        BY <2>1, <2>2 DEF Rank, Tiers
    <2>4. Rank(risk) \in 1 .. 3 /\ Rank(task) \in 1 .. 3
        BY <2>1, TierRankFacts
    <2>5. Rank(route.tier) >= Rank(risk)
        BY <1>1 DEF risk
    <2>6. Rank(route.tier) >= Rank(task)
        BY <1>2, <2>3, <2>4, <2>5
    <2> QED BY <2>6 DEF task
<1>7. \A role \in Aliases : Cardinality({i \in DOMAIN sends : sends[i] = role}) <= 2
    BY <1>1 DEF Times
<1> QED BY <1>1, <1>4, <1>5, <1>6, <1>7 DEF RouteIsBounded

(* Classify, Resolve and Fail keep the route as RouteInv has it: the route *)
(* is where the packet was last sent, or was escalated from there.         *)
THEOREM RouteInvariant == RoutingSpec => []RouteInv
<1>1. RoutingInit => RouteInv
    <2>1. <<>> \in Seq(Aliases)
        OBVIOUS
    <2> QED BY <2>1 DEF RoutingInit, RouteInv
<1>2. RouteInv /\ [RoutingNext]_routingVars => RouteInv'
    BY RouteStep
<1> QED BY <1>1, <1>2, PTL DEF RoutingSpec

(* Whatever fails and in whatever order (reduceWorkerFailure), no role has *)
(* a packet more than twice, the roles come in their order and are no more *)
(* than the tier's ceiling, the tier is never below what the work calls    *)
(* for; and the two resolvers (resolveWorkerModelChain and                 *)
(* resolveWorkerModelRole) send it to the same model, the first candidate  *)
(* that is there, and do send it if those before are merely unavailable.   *)
THEOREM RoutesAreSoundHolds == RoutingSpec => []RoutesAreSound
<1>1. RouteInv => RoutesAreSound
    <2>1. RouteInv => RouteIsBounded
        BY RouteBounds
    <2>2. RouteInv => FirstUsableModel
        <3>1. CASE at = "resolve" /\ RouteInv
            <4>1. setting \in Settings /\ route.role \in Aliases
                BY <3>1 DEF RouteInv, Routes
            <4> QED BY <4>1, ResolversAgree
        <3>2. CASE at # "resolve"
            BY <3>2 DEF FirstUsableModel
        <3> QED BY <3>1, <3>2
    <2> QED BY <2>1, <2>2 DEF RoutesAreSound
<1> QED BY <1>1, RouteInvariant, PTL

-----------------------------------------------------------------------------
(* Cuts: how what a pattern spans is divided among its items               *)

(* cut divides the things from pi on among the items from gi on. *)
Suits(cut, n, m, wild, takes, gi, pi) ==
    /\ cut \in [0 .. n -> 0 .. m]
    /\ cut[gi - 1] = pi - 1 /\ cut[n] = m
    /\ \A i \in gi .. n :
        /\ cut[i] >= cut[i - 1]
        /\ i \notin wild => cut[i] = cut[i - 1] + 1 /\ <<i, cut[i]>> \in takes

Rest(n, m, wild, takes, gi, pi) == \E cut : Suits(cut, n, m, wild, takes, gi, pi)

(* A pattern is what is left of it before the first item. *)
LEMMA RestOfAll ==
    ASSUME NEW n, NEW m, NEW wild, NEW takes
    PROVE  Spans(n, m, wild, takes) <=> Rest(n, m, wild, takes, 1, 1)
BY DEF Spans, Rest, Suits

(* Cuts go up. *)
LEMMA CutsGoUp ==
    ASSUME NEW n \in Nat, NEW m \in Nat, NEW wild, NEW takes, NEW gi \in 1 .. (n + 1), NEW pi,
           NEW cut, Suits(cut, n, m, wild, takes, gi, pi), NEW i \in (gi - 1) .. n, NEW j \in i .. n
    PROVE  cut[i] <= cut[j]
<1> DEFINE wrong == {k \in i .. n : ~(cut[i] <= cut[k])}
<1>1. SUFFICES ASSUME wrong # {} PROVE FALSE
    OBVIOUS
<1>2. PICK k \in wrong : \A l \in wrong : k <= l
    <2>1. wrong \in SUBSET Nat
        OBVIOUS
    <2> HIDE DEF wrong
    <2> QED BY <1>1, <2>1, LeastExists
<1>3. /\ k \in i .. n /\ i \in Nat /\ i <= n /\ ~(cut[i] <= cut[k])
      /\ cut[i] \in 0 .. m /\ cut[k] \in 0 .. m
    BY DEF Suits
<1>4. k # i
    BY <1>3
<1>5. k - 1 \in i .. n /\ k - 1 \notin wrong /\ cut[k - 1] \in 0 .. m
    BY <1>2, <1>3, <1>4 DEF Suits
<1>6. cut[i] <= cut[k - 1]
    BY <1>5
<1>7. cut[k] >= cut[k - 1]
    <2>1. k \in gi .. n
        BY <1>3, <1>4
    <2> QED BY <2>1 DEF Suits
<1> QED BY <1>3, <1>5, <1>6, <1>7

(* The same with another beginning. *)
LEMMA SuitsFrom ==
    ASSUME NEW n \in Nat, NEW m \in Nat, NEW wild, NEW takes, NEW gi \in 1 .. n, NEW pi \in 1 .. (m + 1),
           NEW q \in Nat, NEW g \in {gi, gi + 1},
           NEW cut, Suits(cut, n, m, wild, takes, g, q),
           cut[gi] >= pi - 1,
           gi \notin wild => cut[gi] = pi /\ <<gi, pi>> \in takes
    PROVE  Rest(n, m, wild, takes, gi, pi)
<1> DEFINE new == [cut EXCEPT ![gi - 1] = pi - 1]
<1>1. /\ new \in [0 .. n -> 0 .. m] /\ new[gi - 1] = pi - 1
      /\ \A i \in 0 .. n : i # gi - 1 => new[i] = cut[i]
    <2>1. gi - 1 \in 0 .. n /\ pi - 1 \in 0 .. m
        OBVIOUS
    <2> QED BY <2>1 DEF Suits
<1> HIDE DEF new
<1>2. cut[n] = m /\ new[n] = m
    BY <1>1 DEF Suits
<1>3. ASSUME NEW i \in gi .. n
      PROVE  /\ new[i] >= new[i - 1]
             /\ i \notin wild => new[i] = new[i - 1] + 1 /\ <<i, new[i]>> \in takes
    <2>1. CASE i = gi
        <3>1. gi \in 0 .. n /\ gi # gi - 1 /\ gi - 1 \in 0 .. n
            OBVIOUS
        <3>2. new[gi] = cut[gi] /\ new[gi - 1] = pi - 1
            BY <1>1, <3>1
        <3>3. gi \notin wild => new[gi] = new[gi - 1] + 1 /\ <<gi, new[gi]>> \in takes
            BY <3>2
        <3> QED BY <2>1, <3>2, <3>3
    <2>2. CASE i # gi
        <3>1. i \in g .. n /\ i - 1 \in 0 .. n /\ i - 1 # gi - 1 /\ i \in 0 .. n /\ i # gi - 1
            BY <2>2
        <3> QED BY <1>1, <3>1 DEF Suits
    <2> QED BY <2>1, <2>2
<1>4. Suits(new, n, m, wild, takes, gi, pi)
    BY <1>1, <1>2, <1>3 DEF Suits
<1> QED BY <1>4 DEF Rest

(* What is left of a pattern, item by item: a wild one stands for nothing  *)
(* or takes one thing and stays, another takes one it fits.                *)
LEMMA RestUnfolds ==
    ASSUME NEW n \in Nat, NEW m \in Nat, NEW wild, NEW takes,
           NEW gi \in 1 .. (n + 1), NEW pi \in 1 .. (m + 1)
    PROVE  /\ gi > n => (Rest(n, m, wild, takes, gi, pi) <=> pi > m)
           /\ gi <= n /\ gi \in wild =>
                (Rest(n, m, wild, takes, gi, pi) <=>
                   \/ Rest(n, m, wild, takes, gi + 1, pi)
                   \/ pi <= m /\ Rest(n, m, wild, takes, gi, pi + 1))
           /\ gi <= n /\ gi \notin wild =>
                (Rest(n, m, wild, takes, gi, pi) <=>
                   pi <= m /\ <<gi, pi>> \in takes /\ Rest(n, m, wild, takes, gi + 1, pi + 1))
<1> DEFINE rest(g, p) == Rest(n, m, wild, takes, g, p)
           suits(cut, g, p) == Suits(cut, n, m, wild, takes, g, p)
<1>1. ASSUME gi > n
      PROVE  rest(gi, pi) <=> pi > m
    <2>1. gi = n + 1
        BY <1>1
    <2>2. rest(gi, pi) => pi > m
        BY <2>1 DEF Rest, Suits
    <2>3. ASSUME pi > m PROVE rest(gi, pi)
        <3> DEFINE cut == [i \in 0 .. n |-> m]
        <3>1. cut \in [0 .. n -> 0 .. m] /\ cut[n] = m /\ cut[gi - 1] = pi - 1
            BY <2>1, <2>3
        <3> HIDE DEF cut
        <3>2. \A i \in gi .. n : FALSE
            BY <2>1
        <3>3. suits(cut, gi, pi)
            BY <3>1, <3>2 DEF Suits
        <3> QED BY <3>3 DEF Rest
    <2> QED BY <2>2, <2>3
<1>2. ASSUME gi <= n, gi \in wild
      PROVE  rest(gi, pi) <=> rest(gi + 1, pi) \/ (pi <= m /\ rest(gi, pi + 1))
    <2>1. ASSUME rest(gi, pi) PROVE rest(gi + 1, pi) \/ (pi <= m /\ rest(gi, pi + 1))
        <3>1. PICK cut : suits(cut, gi, pi)
            BY <2>1 DEF Rest
        <3>2. /\ cut \in [0 .. n -> 0 .. m] /\ gi \in gi .. n /\ gi \in 0 .. n
              /\ cut[gi] >= pi - 1 /\ cut[gi] \in 0 .. m
            <4>1. gi \in gi .. n /\ gi \in 0 .. n
                BY <1>2
            <4>2. cut \in [0 .. n -> 0 .. m] /\ cut[gi - 1] = pi - 1 /\ cut[gi] >= cut[gi - 1]
                BY <3>1, <4>1 DEF Suits
            <4> QED BY <4>1, <4>2
        <3>3. CASE cut[gi] = pi - 1
            <4>1. suits(cut, gi + 1, pi)
                BY <1>2, <3>1, <3>3 DEF Suits
            <4> QED BY <4>1 DEF Rest
        <3>4. CASE cut[gi] # pi - 1
            <4>1. cut[gi] >= pi /\ pi <= m
                <5> DEFINE c == cut[gi]
                <5>1. c >= pi - 1 /\ c \in 0 .. m /\ c # pi - 1
                    BY <3>2, <3>4
                <5> HIDE DEF c
                <5>2. c >= pi /\ pi <= m
                    BY <5>1
                <5> QED BY <5>2 DEF c
            <4>2. pi + 1 \in 1 .. (m + 1) /\ gi \in 1 .. n /\ pi \in Nat /\ gi \in {gi, gi + 1}
                BY <1>2, <4>1
            <4>3. cut[gi] >= pi + 1 - 1
                BY <4>1
            <4> HIDE DEF rest
            <4>4. Rest(n, m, wild, takes, gi, pi + 1)
                <5>1. Suits(cut, n, m, wild, takes, gi, pi)
                    BY <3>1
                <5> DEFINE p == pi + 1
                <5>2. p \in 1 .. (m + 1) /\ cut[gi] >= p - 1
                    BY <4>2, <4>3
                <5> HIDE DEF p
                <5>3. Rest(n, m, wild, takes, gi, p)
                    BY <1>2, <5>1, <4>2, <5>2, SuitsFrom
                <5> QED BY <5>3 DEF p
            <4> QED BY <4>1, <4>4 DEF rest
        <3> QED BY <3>3, <3>4
    <2>2. ASSUME rest(gi + 1, pi) PROVE rest(gi, pi)
        <3>1. PICK cut : suits(cut, gi + 1, pi)
            BY <2>2 DEF Rest
        <3>2. cut[gi] = pi - 1 /\ gi \in 1 .. n /\ pi \in Nat /\ gi + 1 \in {gi, gi + 1}
            BY <1>2, <3>1 DEF Suits
        <3>3. cut[gi] >= pi - 1
            BY <3>2
        <3> QED BY <1>2, <3>1, <3>2, <3>3, SuitsFrom
    <2>3. ASSUME pi <= m, rest(gi, pi + 1) PROVE rest(gi, pi)
        <3>1. PICK cut : suits(cut, gi, pi + 1)
            BY <2>3 DEF Rest
        <3>2. /\ cut[gi] >= cut[gi - 1] /\ cut[gi - 1] = pi /\ cut[gi] \in 0 .. m
              /\ gi \in 1 .. n /\ pi + 1 \in Nat /\ gi \in {gi, gi + 1}
            <4>1. gi \in gi .. n /\ gi \in 0 .. n /\ gi \in 1 .. n
                BY <1>2
            <4> DEFINE p == pi + 1
            <4> HIDE DEF p
            <4>2. /\ cut \in [0 .. n -> 0 .. m] /\ cut[gi - 1] = p - 1
                  /\ cut[gi] >= cut[gi - 1]
                <5>1. Suits(cut, n, m, wild, takes, gi, p)
                    BY <3>1 DEF p
                <5> QED BY <4>1, <5>1 DEF Suits
            <4>3. cut[gi - 1] = pi
                BY <4>2 DEF p
            <4> QED BY <4>1, <4>2, <4>3
        <3>3. cut[gi] >= pi - 1
            BY <3>2
        <3> QED BY <1>2, <3>1, <3>2, <3>3, SuitsFrom
    <2> HIDE DEF rest
    <2> QED BY <2>1, <2>2, <2>3
<1>3. ASSUME gi <= n, gi \notin wild
      PROVE  rest(gi, pi) <=> pi <= m /\ <<gi, pi>> \in takes /\ rest(gi + 1, pi + 1)
    <2>1. ASSUME rest(gi, pi) PROVE pi <= m /\ <<gi, pi>> \in takes /\ rest(gi + 1, pi + 1)
        <3>1. PICK cut : suits(cut, gi, pi)
            BY <2>1 DEF Rest
        <3>2. /\ cut \in [0 .. n -> 0 .. m] /\ gi \in gi .. n /\ gi \in 0 .. n
              /\ cut[gi] = pi /\ <<gi, pi>> \in takes /\ cut[gi] \in 0 .. m
            <4>1. gi \in gi .. n /\ gi \in 0 .. n
                BY <1>3
            <4>2. /\ cut \in [0 .. n -> 0 .. m] /\ cut[gi - 1] = pi - 1
                  /\ cut[gi] = cut[gi - 1] + 1 /\ <<gi, cut[gi]>> \in takes
                BY <1>3, <3>1, <4>1 DEF Suits
            <4>3. cut[gi] = pi
                BY <4>2
            <4> QED BY <4>1, <4>2, <4>3
        <3>3. suits(cut, gi + 1, pi + 1)
            BY <1>3, <3>1, <3>2 DEF Suits
        <3> QED BY <3>2, <3>3 DEF Rest
    <2>2. ASSUME pi <= m, <<gi, pi>> \in takes, rest(gi + 1, pi + 1) PROVE rest(gi, pi)
        <3>1. PICK cut : suits(cut, gi + 1, pi + 1)
            BY <2>2 DEF Rest
        <3>2. cut[gi] = pi /\ gi \in 1 .. n /\ pi + 1 \in Nat /\ gi + 1 \in {gi, gi + 1}
            BY <1>3, <3>1 DEF Suits
        <3>3. cut[gi] >= pi - 1
            BY <3>2
        <3> QED BY <2>2, <3>1, <3>2, <3>3, SuitsFrom
    <2> HIDE DEF rest
    <2> QED BY <2>1, <2>2
<1> QED BY <1>1, <1>2, <1>3

(* When nothing is left to be taken, all items left are wild. *)
LEMMA RestOfNothing ==
    ASSUME NEW n \in Nat, NEW m \in Nat, NEW wild, NEW takes, NEW gi \in 1 .. (n + 1)
    PROVE  Rest(n, m, wild, takes, gi, m + 1) <=> \A i \in gi .. n : i \in wild
<1>1. ASSUME \A i \in gi .. n : i \in wild
      PROVE  Rest(n, m, wild, takes, gi, m + 1)
    <2> DEFINE cut == [i \in 0 .. n |-> m]
    <2>1. cut \in [0 .. n -> 0 .. m] /\ \A i \in 0 .. n : cut[i] = m
        OBVIOUS
    <2> HIDE DEF cut
    <2>2. gi - 1 \in 0 .. n /\ n \in 0 .. n /\ \A i \in gi .. n : i \in 0 .. n /\ i - 1 \in 0 .. n
        OBVIOUS
    <2>3. Suits(cut, n, m, wild, takes, gi, m + 1)
        BY <1>1, <2>1, <2>2 DEF Suits
    <2> QED BY <2>3 DEF Rest
<1>2. ASSUME Rest(n, m, wild, takes, gi, m + 1), NEW i \in gi .. n
      PROVE  i \in wild
    <2>1. PICK cut : Suits(cut, n, m, wild, takes, gi, m + 1)
        BY <1>2 DEF Rest
    <2>2. gi - 1 \in (gi - 1) .. n /\ i - 1 \in (gi - 1) .. n /\ i \in 0 .. n /\ i - 1 \in 0 .. n
        OBVIOUS
    <2>3. cut[gi - 1] <= cut[i - 1]
        BY <2>1, <2>2, CutsGoUp
    <2>4. cut[gi - 1] = m /\ cut[i] \in 0 .. m /\ cut[i - 1] \in 0 .. m
        BY <2>1, <2>2 DEF Suits
    <2>5. i \notin wild => cut[i] = cut[i - 1] + 1
        BY <2>1 DEF Suits
    <2> QED BY <2>3, <2>4, <2>5
<1> QED BY <1>1, <1>2

-----------------------------------------------------------------------------
(* Globs against paths                                                     *)

(* The scan of a glob and a path, as it calls itself. *)
GlobScan(scan, glob, path) ==
    /\ matchGlob(glob, path) = scan[[gi |-> 1, pi |-> 1]]
    /\ \A gi \in 1 .. (Len(glob) + 1), pi \in 1 .. (Len(path) + 1) :
         scan[[gi |-> gi, pi |-> pi]] =
             IF gi > Len(glob) \/ pi > Len(path)
             THEN pi > Len(path) /\ \A i \in gi .. Len(glob) : glob[i] = Globstar
             ELSE IF glob[gi] = Globstar
             THEN scan[[gi |-> gi + 1, pi |-> pi]] \/ scan[[gi |-> gi, pi |-> pi + 1]]
             ELSE segmentMatch(glob[gi], path[pi]) /\ scan[[gi |-> gi + 1, pi |-> pi + 1]]

(* There is one. *)
LEMMA GlobScanExists ==
    ASSUME NEW glob, IsSeq(glob), NEW path, IsSeq(path)
    PROVE  \E scan : GlobScan(scan, glob, path)
<1> DEFINE n == Len(glob)
           m == Len(path)
           D == [gi : 1 .. (n + 1), pi : 1 .. (m + 1)]
           body(f, s) ==
               IF s.gi > n \/ s.pi > m THEN s.pi > m /\ \A i \in s.gi .. n : glob[i] = Globstar
               ELSE IF glob[s.gi] = Globstar
               THEN f[[gi |-> s.gi + 1, pi |-> s.pi]] \/ f[[gi |-> s.gi, pi |-> s.pi + 1]]
               ELSE segmentMatch(glob[s.gi], path[s.pi]) /\ f[[gi |-> s.gi + 1, pi |-> s.pi + 1]]
           scan == CHOOSE f : f = [s \in D |-> body(f, s)]
           size == [s \in D |-> (n + 1 - s.gi) + (m + 1 - s.pi)]
           step == [s \in D |-> [f \in [D -> BOOLEAN] |-> body(f, s)]]
<1>1. n \in Nat /\ m \in Nat
    BY SeqFacts
<1>2. matchGlob(glob, path) = scan[[gi |-> 1, pi |-> 1]]
    BY DEF matchGlob
<1>3. \A s \in D : size[s] = (n + 1 - s.gi) + (m + 1 - s.pi) /\ size[s] \in 0 .. (n + m)
    BY <1>1
<1>4. ASSUME NEW s \in D, NEW f, NEW g, \A e \in D : size[e] < size[s] => f[e] = g[e]
      PROVE  body(f, s) = body(g, s)
    <2>1. CASE s.gi > n \/ s.pi > m
        BY <2>1
    <2>2. CASE ~(s.gi > n \/ s.pi > m)
        <3> DEFINE right == [gi |-> s.gi + 1, pi |-> s.pi]
                   down == [gi |-> s.gi, pi |-> s.pi + 1]
                   both == [gi |-> s.gi + 1, pi |-> s.pi + 1]
        <3>1. right \in D /\ down \in D /\ both \in D
            BY <1>1, <2>2
        <3>2. size[right] < size[s] /\ size[down] < size[s] /\ size[both] < size[s]
            <4>1. /\ right.gi = s.gi + 1 /\ right.pi = s.pi /\ down.gi = s.gi /\ down.pi = s.pi + 1
                  /\ both.gi = s.gi + 1 /\ both.pi = s.pi + 1 /\ s.gi \in Nat /\ s.pi \in Nat
                OBVIOUS
            <4> HIDE DEF right, down, both, size, D
            <4>2. /\ size[right] = (n + 1 - right.gi) + (m + 1 - right.pi)
                  /\ size[down] = (n + 1 - down.gi) + (m + 1 - down.pi)
                  /\ size[both] = (n + 1 - both.gi) + (m + 1 - both.pi)
                  /\ size[s] = (n + 1 - s.gi) + (m + 1 - s.pi)
                BY <1>3, <3>1
            <4> HIDE DEF n, m
            <4>3. /\ size[right] = (n + 1 - (s.gi + 1)) + (m + 1 - s.pi)
                  /\ size[down] = (n + 1 - s.gi) + (m + 1 - (s.pi + 1))
                  /\ size[both] = (n + 1 - (s.gi + 1)) + (m + 1 - (s.pi + 1))
                BY <4>1, <4>2
            <4> QED BY <1>1, <4>1, <4>2, <4>3
        <3>3. f[right] = g[right] /\ f[down] = g[down] /\ f[both] = g[both]
            BY <1>4, <3>1, <3>2
        <3> QED BY <2>2, <3>3
    <2> QED BY <2>1, <2>2
<1>5. \A f : \A s \in D : body(f, s) \in BOOLEAN
    OBVIOUS
<1> HIDE DEF body
<1>6. \A s \in D, f \in [D -> BOOLEAN] : step[s][f] = body(f, s)
    OBVIOUS
<1>7. step \in [D -> [[D -> BOOLEAN] -> BOOLEAN]]
    BY <1>5
<1>8. size \in [D -> 0 .. (n + m)]
    BY <1>3
<1> HIDE DEF step, size
<1>9. PICK f : Solves(f, D, BOOLEAN, step)
    <2> HIDE DEF D
    <2>1. n + m \in Nat
        BY <1>1
    <2>2. \A d \in D : \A f, g \in [D -> BOOLEAN] :
              (\A e \in D : size[e] < size[d] => f[e] = g[e]) => step[d][f] = step[d][g]
        BY <1>4, <1>6
    <2>3. Descends(D, BOOLEAN, n + m, size, step)
        BY <1>7, <1>8, <2>1, <2>2 DEF Descends
    <2> QED BY <2>3, RecursionExists
<1>10. scan = [s \in D |-> body(scan, s)]
    <2>1. f = [s \in D |-> body(f, s)]
        <3> HIDE DEF D
        <3> QED BY <1>6, <1>9 DEF Solves
    <2> HIDE DEF D
    <2> QED BY <2>1
<1>11. \A s \in D : scan[s] = body(scan, s)
    <2> HIDE DEF D
    <2> QED BY <1>10
<1> HIDE DEF scan
<1>12. ASSUME NEW gi \in 1 .. (n + 1), NEW pi \in 1 .. (m + 1)
       PROVE  scan[[gi |-> gi, pi |-> pi]] =
                  IF gi > n \/ pi > m THEN pi > m /\ \A i \in gi .. n : glob[i] = Globstar
                  ELSE IF glob[gi] = Globstar
                  THEN scan[[gi |-> gi + 1, pi |-> pi]] \/ scan[[gi |-> gi, pi |-> pi + 1]]
                  ELSE segmentMatch(glob[gi], path[pi]) /\ scan[[gi |-> gi + 1, pi |-> pi + 1]]
    <2>1. [gi |-> gi, pi |-> pi] \in D
        OBVIOUS
    <2>2. scan[[gi |-> gi, pi |-> pi]] = body(scan, [gi |-> gi, pi |-> pi])
        BY <1>11, <2>1
    <2> QED BY <2>2 DEF body
<1>13. GlobScan(scan, glob, path)
    BY <1>2, <1>12 DEF GlobScan
<1> QED BY <1>13

(* matchGlob (globMatchImpl, which calls itself at a globstar) finds out   *)
(* whether the glob spans the path, its segments matched by segmentMatch.  *)
THEOREM MatchGlobSpans ==
    ASSUME NEW glob, IsSeq(glob), NEW path, IsSeq(path)
    PROVE  matchGlob(glob, path) <=>
               Spans(Len(glob), Len(path), {i \in DOMAIN glob : glob[i] = Globstar},
                     {p \in (DOMAIN glob) \X (DOMAIN path) : segmentMatch(glob[p[1]], path[p[2]])})
<1> DEFINE n == Len(glob)
           m == Len(path)
           wild == {i \in DOMAIN glob : glob[i] = Globstar}
           takes == {p \in (DOMAIN glob) \X (DOMAIN path) : segmentMatch(glob[p[1]], path[p[2]])}
           rest(gi, pi) == Rest(n, m, wild, takes, gi, pi)
<1>1. n \in Nat /\ m \in Nat /\ DOMAIN glob = 1 .. n /\ DOMAIN path = 1 .. m
    BY SeqFacts
<1>2. PICK scan : GlobScan(scan, glob, path)
    BY GlobScanExists
<1> DEFINE value(gi, pi) == scan[[gi |-> gi, pi |-> pi]]
<1>3. \A gi \in 1 .. n : gi \in wild <=> glob[gi] = Globstar
    BY <1>1
<1>4. \A gi \in 1 .. n, pi \in 1 .. m : <<gi, pi>> \in takes <=> segmentMatch(glob[gi], path[pi])
    BY <1>1
<1> HIDE DEF wild, takes
<1>5. \A gi \in 1 .. (n + 1), pi \in 1 .. (m + 1) :
          /\ gi > n => (rest(gi, pi) <=> pi > m)
          /\ pi > m => (rest(gi, pi) <=> \A i \in gi .. n : i \in wild)
          /\ gi <= n /\ gi \in wild =>
               (rest(gi, pi) <=> rest(gi + 1, pi) \/ (pi <= m /\ rest(gi, pi + 1)))
          /\ gi <= n /\ gi \notin wild =>
               (rest(gi, pi) <=> pi <= m /\ <<gi, pi>> \in takes /\ rest(gi + 1, pi + 1))
    <2> TAKE gi \in 1 .. (n + 1), pi \in 1 .. (m + 1)
    <2>1. pi > m => pi = m + 1
        BY <1>1
    <2>2. pi > m => (rest(gi, pi) <=> \A i \in gi .. n : i \in wild)
        <3> HIDE DEF n, m
        <3> QED BY <1>1, <2>1, RestOfNothing
    <2> HIDE DEF n, m
    <2> QED BY <1>1, <2>2, RestUnfolds
<1> HIDE DEF rest, value, n, m
<1> DEFINE wrong == {k \in Nat : \E gi \in 1 .. (n + 1), pi \in 1 .. (m + 1) :
                        k = (n + 1 - gi) + (m + 1 - pi) /\ ~(value(gi, pi) <=> rest(gi, pi))}
<1>6. wrong = {}
    <2>1. SUFFICES ASSUME wrong # {} PROVE FALSE
        OBVIOUS
    <2>2. PICK k \in wrong : \A l \in wrong : k <= l
        <3>1. wrong \in SUBSET Nat
            OBVIOUS
        <3> HIDE DEF wrong
        <3> QED BY <2>1, <3>1, LeastExists
    <2>3. PICK gi \in 1 .. (n + 1), pi \in 1 .. (m + 1) :
              k = (n + 1 - gi) + (m + 1 - pi) /\ ~(value(gi, pi) <=> rest(gi, pi))
        OBVIOUS
    <2>4. \A g \in 1 .. (n + 1), p \in 1 .. (m + 1) :
              (n + 1 - g) + (m + 1 - p) < k => (value(g, p) <=> rest(g, p))
        <3> SUFFICES ASSUME NEW g \in 1 .. (n + 1), NEW p \in 1 .. (m + 1),
                            (n + 1 - g) + (m + 1 - p) < k, ~(value(g, p) <=> rest(g, p))
                     PROVE  FALSE
            OBVIOUS
        <3>1. (n + 1 - g) + (m + 1 - p) \in Nat
            BY <1>1
        <3>2. (n + 1 - g) + (m + 1 - p) \in wrong
            BY <3>1
        <3>3. k <= (n + 1 - g) + (m + 1 - p)
            <4> HIDE DEF wrong
            <4> QED BY <2>2, <3>2
        <3>4. k \in Nat
            OBVIOUS
        <3> HIDE DEF wrong
        <3> QED BY <1>1, <3>1, <3>3, <3>4
    <2> HIDE DEF wrong
    <2>5. value(gi, pi) = IF gi > n \/ pi > m THEN pi > m /\ \A i \in gi .. n : glob[i] = Globstar
                       ELSE IF glob[gi] = Globstar THEN value(gi + 1, pi) \/ value(gi, pi + 1)
                       ELSE segmentMatch(glob[gi], path[pi]) /\ value(gi + 1, pi + 1)
        BY <1>2 DEF GlobScan, value, n, m
    <2>9. /\ gi > n => (rest(gi, pi) <=> pi > m)
          /\ pi > m => (rest(gi, pi) <=> \A i \in gi .. n : i \in wild)
          /\ gi <= n /\ gi \in wild =>
               (rest(gi, pi) <=> rest(gi + 1, pi) \/ (pi <= m /\ rest(gi, pi + 1)))
          /\ gi <= n /\ gi \notin wild =>
               (rest(gi, pi) <=> pi <= m /\ <<gi, pi>> \in takes /\ rest(gi + 1, pi + 1))
        BY <1>5, <2>3
    <2>6. CASE gi > n \/ pi > m
        <3>1. value(gi, pi) <=> pi > m /\ \A i \in gi .. n : glob[i] = Globstar
            BY <2>5, <2>6
        <3>2. \A i \in gi .. n : glob[i] = Globstar <=> i \in wild
            BY <1>1, <1>3
        <3>3. CASE pi > m
            BY <2>3, <2>9, <3>1, <3>2, <3>3
        <3>4. CASE pi <= m
            BY <1>1, <2>3, <2>9, <2>6, <3>1, <3>4
        <3> QED BY <1>1, <3>3, <3>4
    <2>7. CASE gi <= n /\ pi <= m
        <3>1. gi \in 1 .. n /\ pi \in 1 .. m /\ gi + 1 \in 1 .. (n + 1) /\ pi + 1 \in 1 .. (m + 1)
            BY <1>1, <2>7
        <3>2. /\ (n + 1 - (gi + 1)) + (m + 1 - pi) < k /\ (n + 1 - gi) + (m + 1 - (pi + 1)) < k
              /\ (n + 1 - (gi + 1)) + (m + 1 - (pi + 1)) < k
            BY <1>1, <2>3, <2>7
        <3>3. /\ value(gi + 1, pi) <=> rest(gi + 1, pi)
              /\ value(gi, pi + 1) <=> rest(gi, pi + 1)
              /\ value(gi + 1, pi + 1) <=> rest(gi + 1, pi + 1)
            BY <2>4, <3>1, <3>2
        <3>4. CASE glob[gi] = Globstar
            <4>1. value(gi, pi) <=> value(gi + 1, pi) \/ value(gi, pi + 1)
                <5>1. ~(gi > n \/ pi > m)
                    BY <1>1, <2>3, <2>7
                <5> QED BY <2>5, <3>4, <5>1, Zenon
            <4>2. gi \in wild
                BY <1>3, <3>1, <3>4
            <4> QED BY <2>3, <2>9, <2>7, <3>3, <4>1, <4>2
        <3>5. CASE glob[gi] # Globstar
            <4>1. value(gi, pi) <=> segmentMatch(glob[gi], path[pi]) /\ value(gi + 1, pi + 1)
                <5>1. ~(gi > n \/ pi > m)
                    BY <1>1, <2>3, <2>7
                <5> QED BY <2>5, <3>5, <5>1, Zenon
            <4>2. gi \notin wild /\ (<<gi, pi>> \in takes <=> segmentMatch(glob[gi], path[pi]))
                BY <1>3, <1>4, <3>1, <3>5
            <4> QED BY <2>3, <2>9, <2>7, <3>3, <4>1, <4>2
        <3> QED BY <3>4, <3>5
    <2> QED BY <1>1, <2>6, <2>7
<1>7. value(1, 1) <=> rest(1, 1)
    <2>1. 1 \in 1 .. (n + 1) /\ 1 \in 1 .. (m + 1) /\ (n + 1 - 1) + (m + 1 - 1) \in Nat
        BY <1>1
    <2>2. (n + 1 - 1) + (m + 1 - 1) \notin wrong
        <3> HIDE DEF wrong
        <3> QED BY <1>6
    <2> QED BY <2>1, <2>2
<1>8. Spans(n, m, wild, takes) <=> rest(1, 1)
    BY RestOfAll DEF rest
<1> QED BY <1>2, <1>7, <1>8 DEF GlobScan, value, n, m, wild, takes

-----------------------------------------------------------------------------
(* Patterns against segments                                               *)

(* Products grow with their factors. *)
LEMMA ProductGrows ==
    ASSUME NEW a \in Nat, NEW b \in Nat, NEW c \in Nat
    PROVE  /\ a * c \in Nat
           /\ a < b => a * c + c <= b * c
           /\ a <= b => a * c <= b * c
OBVIOUS

(* Three numbers in lexicographic order, as one. *)
Weight(n, m, x, y, z) == x * ((m + 1) * (n + 1)) + y * (n + 1) + z

(* It is bounded, and lexicographic. *)
LEMMA WeightFacts ==
    ASSUME NEW n \in Nat, NEW m \in Nat
    PROVE  /\ \A x \in 0 .. n, y \in 0 .. m, z \in 0 .. n :
                Weight(n, m, x, y, z) \in 0 .. Weight(n, m, n, m, n)
           /\ Weight(n, m, n, m, n) \in Nat
           /\ \A x, u \in 0 .. n, y, v \in 0 .. m, z, w \in 0 .. n :
                (\/ u < x
                 \/ u = x /\ v < y
                 \/ u = x /\ v = y /\ w < z)
                => Weight(n, m, u, v, w) < Weight(n, m, x, y, z)
<1> DEFINE A == n + 1
           B == (m + 1) * A
<1>1. A \in Nat /\ B \in Nat /\ B = m * A + A /\ A = n + 1
    <2>1. A \in Nat /\ A = n + 1 /\ m + 1 \in Nat
        OBVIOUS
    <2> HIDE DEF A
    <2> QED BY <2>1
<1>2. \A x, y, z : Weight(n, m, x, y, z) = x * B + y * A + z
    BY DEF Weight
<1> HIDE DEF A, B
<1>3. \A x \in 0 .. n : x * B \in Nat /\ x * B <= n * B
    BY <1>1, ProductGrows
<1>4. \A y \in 0 .. m : y * A \in Nat /\ y * A <= m * A
    BY <1>1, ProductGrows
<1>5. n \in 0 .. n /\ m \in 0 .. m
    OBVIOUS
<1>6. n * B \in Nat /\ m * A \in Nat
    BY <1>3, <1>4, <1>5
<1>7. Weight(n, m, n, m, n) \in Nat
    BY <1>2, <1>6
<1>8. ASSUME NEW x \in 0 .. n, NEW y \in 0 .. m, NEW z \in 0 .. n
      PROVE  Weight(n, m, x, y, z) \in 0 .. Weight(n, m, n, m, n)
    <2>1. x * B \in Nat /\ x * B <= n * B /\ y * A \in Nat /\ y * A <= m * A
        BY <1>3, <1>4
    <2> QED BY <1>2, <1>6, <2>1
<1>9. ASSUME NEW x \in 0 .. n, NEW u \in 0 .. n, NEW y \in 0 .. m, NEW v \in 0 .. m,
             NEW z \in 0 .. n, NEW w \in 0 .. n,
             \/ u < x
             \/ u = x /\ v < y
             \/ u = x /\ v = y /\ w < z
      PROVE  Weight(n, m, u, v, w) < Weight(n, m, x, y, z)
    <2>1. /\ x * B \in Nat /\ u * B \in Nat /\ y * A \in Nat /\ v * A \in Nat
          /\ v * A <= m * A
        BY <1>3, <1>4
    <2>2. CASE u < x
        <3>1. u * B + B <= x * B
            BY <1>1, <2>2, ProductGrows
        <3> QED BY <1>1, <1>2, <1>6, <2>1, <3>1
    <2>3. CASE u = x /\ v < y
        <3>1. v * A + A <= y * A
            BY <1>1, <2>3, ProductGrows
        <3> QED BY <1>1, <1>2, <2>1, <2>3, <3>1
    <2>4. CASE u = x /\ v = y /\ w < z
        BY <1>2, <2>1, <2>4
    <2> QED BY <1>9, <2>2, <2>3, <2>4
<1> QED BY <1>7, <1>8, <1>9

(* The scan of a segment. *)
SegmentScan(scan, pattern, segment) ==
    /\ segmentMatch(pattern, segment) = scan[[star |-> 0, from |-> 1, run |-> 0]]
    /\ \A star \in 0 .. Len(pattern), from \in 1 .. (Len(segment) + 1), run \in 0 .. Len(pattern) :
         scan[[star |-> star, from |-> from, run |-> run]] =
             IF from + run > Len(segment)
             THEN \A i \in (star + 1 + run) .. Len(pattern) : pattern[i] = "*"
             ELSE IF /\ star + 1 + run <= Len(pattern)
                     /\ pattern[star + 1 + run] \in {"?", segment[from + run]}
             THEN scan[[star |-> star, from |-> from, run |-> run + 1]]
             ELSE IF star + 1 + run <= Len(pattern) /\ pattern[star + 1 + run] = "*"
             THEN scan[[star |-> star + 1 + run, from |-> from + run, run |-> 0]]
             ELSE star > 0 /\ scan[[star |-> star, from |-> from + 1, run |-> 0]]

(* There is one. *)
LEMMA SegmentScanExists ==
    ASSUME NEW pattern, IsSeq(pattern), NEW segment, IsSeq(segment)
    PROVE  \E scan : SegmentScan(scan, pattern, segment)
<1> DEFINE n == Len(pattern)
           m == Len(segment)
           D == [star : 0 .. n, from : 1 .. (m + 1), run : 0 .. n]
           next(s) == [star |-> s.star, from |-> s.from, run |-> s.run + 1]
           anew(s) == [star |-> s.star + 1 + s.run, from |-> s.from + s.run, run |-> 0]
           back(s) == [star |-> s.star, from |-> s.from + 1, run |-> 0]
           takes(s) == /\ s.star + 1 + s.run <= n
                       /\ pattern[s.star + 1 + s.run] \in {"?", segment[s.from + s.run]}
           wild(s) == s.star + 1 + s.run <= n /\ pattern[s.star + 1 + s.run] = "*"
           end(s) == \A i \in (s.star + 1 + s.run) .. n : pattern[i] = "*"
           body(f, s) ==
               IF s.from + s.run > m THEN end(s)
               ELSE IF takes(s) THEN f[next(s)]
               ELSE IF wild(s) THEN f[anew(s)]
               ELSE s.star > 0 /\ f[back(s)]
           scan == CHOOSE f : f = [s \in D |-> body(f, s)]
           size == [s \in D |-> Weight(n, m, n - s.star, m + 1 - s.from, n - s.run)]
           step == [s \in D |-> [f \in [D -> BOOLEAN] |-> body(f, s)]]
           K == Weight(n, m, n, m, n)
<1>1. n \in Nat /\ m \in Nat
    BY SeqFacts
<1>2. segmentMatch(pattern, segment) = scan[[star |-> 0, from |-> 1, run |-> 0]]
    BY DEF segmentMatch
<1>3. \A s \in D : /\ s.star \in Nat /\ s.from \in Nat /\ s.run \in Nat
                   /\ s.star <= n /\ s.from <= m + 1 /\ s.from >= 1 /\ s.run <= n
                   /\ s = [star |-> s.star, from |-> s.from, run |-> s.run]
    BY <1>1
<1>4. \A star \in 0 .. n, from \in 1 .. (m + 1), run \in 0 .. n :
          LET s == [star |-> star, from |-> from, run |-> run] IN
          s \in D /\ size[s] = Weight(n, m, n - star, m + 1 - from, n - run)
    OBVIOUS
<1> HIDE DEF size
<1>5. \A s \in D : size[s] \in 0 .. K
    <2> TAKE s \in D
    <2>1. n - s.star \in 0 .. n /\ m + 1 - s.from \in 0 .. m /\ n - s.run \in 0 .. n
        BY <1>1, <1>3
    <2>2. size[s] = Weight(n, m, n - s.star, m + 1 - s.from, n - s.run)
        BY DEF size
    <2>3. \A x \in 0 .. n, y \in 0 .. m, z \in 0 .. n : Weight(n, m, x, y, z) \in 0 .. K
        <3> HIDE DEF n, m
        <3> QED BY <1>1, WeightFacts
    <2> DEFINE x == n - s.star
               y == m + 1 - s.from
               z == n - s.run
    <2>4. Weight(n, m, x, y, z) \in 0 .. K
        <3>1. x \in 0 .. n /\ y \in 0 .. m /\ z \in 0 .. n
            BY <2>1
        <3> HIDE DEF x, y, z, n, m, K
        <3> QED BY <2>3, <3>1
    <2> HIDE DEF K
    <2> QED BY <2>2, <2>4
<1>6. ASSUME NEW s \in D, s.from + s.run <= m
      PROVE  /\ s.star + 1 + s.run <= n =>
                  /\ next(s) \in D /\ size[next(s)] < size[s]
                  /\ anew(s) \in D /\ size[anew(s)] < size[s]
             /\ back(s) \in D /\ size[back(s)] < size[s]
    <2>1. n - s.star \in 0 .. n /\ m + 1 - s.from \in 0 .. m /\ n - s.run \in 0 .. n
        BY <1>1, <1>3
    <2>2. size[s] = Weight(n, m, n - s.star, m + 1 - s.from, n - s.run)
        BY DEF size
    <2> DEFINE less(x, y, z) ==
            \/ x < n - s.star
            \/ x = n - s.star /\ y < m + 1 - s.from
            \/ x = n - s.star /\ y = m + 1 - s.from /\ z < n - s.run
    <2>3. \A u \in 0 .. n, v \in 0 .. m, w \in 0 .. n :
              less(u, v, w) => Weight(n, m, u, v, w) < size[s]
        <3> DEFINE x == n - s.star
                   y == m + 1 - s.from
                   z == n - s.run
        <3>1. x \in 0 .. n /\ y \in 0 .. m /\ z \in 0 .. n
            BY <2>1
        <3>2. \A u \in 0 .. n, v \in 0 .. m, w \in 0 .. n :
                  (\/ u < x
                   \/ u = x /\ v < y
                   \/ u = x /\ v = y /\ w < z) => Weight(n, m, u, v, w) < Weight(n, m, x, y, z)
            <4> HIDE DEF x, y, z, n, m
            <4> QED BY <1>1, <3>1, WeightFacts
        <3>3. size[s] = Weight(n, m, x, y, z)
            BY <2>2
        <3> QED BY <3>2, <3>3
    <2>4. ASSUME s.star + 1 + s.run <= n
          PROVE  next(s) \in D /\ size[next(s)] < size[s]
        <3>1. /\ s.star \in 0 .. n /\ s.from \in 1 .. (m + 1) /\ s.run + 1 \in 0 .. n
              /\ n - (s.run + 1) \in 0 .. n /\ n - (s.run + 1) < n - s.run
            BY <1>1, <1>3, <2>4
        <3>2. /\ next(s) \in D
              /\ size[next(s)] = Weight(n, m, n - s.star, m + 1 - s.from, n - (s.run + 1))
            BY <1>4, <3>1
        <3> HIDE DEF n, m
        <3> QED BY <2>1, <2>3, <3>1, <3>2
    <2>5. ASSUME s.star + 1 + s.run <= n
          PROVE  anew(s) \in D /\ size[anew(s)] < size[s]
        <3>1. /\ s.star + 1 + s.run \in 0 .. n /\ s.from + s.run \in 1 .. (m + 1) /\ 0 \in 0 .. n
              /\ n - (s.star + 1 + s.run) \in 0 .. n /\ n - (s.star + 1 + s.run) < n - s.star
              /\ m + 1 - (s.from + s.run) \in 0 .. m /\ n - 0 \in 0 .. n
            BY <1>1, <1>3, <1>6, <2>5
        <3>2. /\ anew(s) \in D
              /\ size[anew(s)] = Weight(n, m, n - (s.star + 1 + s.run), m + 1 - (s.from + s.run), n - 0)
            BY <1>4, <3>1
        <3> HIDE DEF n, m
        <3> QED BY <2>1, <2>3, <3>1, <3>2
    <2>6. back(s) \in D /\ size[back(s)] < size[s]
        <3>1. /\ s.star \in 0 .. n /\ s.from + 1 \in 1 .. (m + 1) /\ 0 \in 0 .. n
              /\ m + 1 - (s.from + 1) \in 0 .. m /\ m + 1 - (s.from + 1) < m + 1 - s.from
              /\ n - 0 \in 0 .. n
            BY <1>1, <1>3, <1>6
        <3>2. /\ back(s) \in D
              /\ size[back(s)] = Weight(n, m, n - s.star, m + 1 - (s.from + 1), n - 0)
            BY <1>4, <3>1
        <3> HIDE DEF n, m
        <3> QED BY <2>1, <2>3, <3>1, <3>2
    <2> QED BY <2>4, <2>5, <2>6
<1>7. ASSUME NEW s \in D, NEW f, NEW g, \A e \in D : size[e] < size[s] => f[e] = g[e]
      PROVE  body(f, s) = body(g, s)
    <2>1. CASE s.from + s.run > m
        BY <2>1
    <2>2. CASE ~(s.from + s.run > m)
        <3>1. s.from + s.run <= m
            BY <1>1, <1>3, <2>2
        <3> DEFINE d == s.star + 1 + s.run <= n
        <3>2. takes(s) => d
            OBVIOUS
        <3>3. wild(s) => d
            OBVIOUS
        <3>4. d => f[next(s)] = g[next(s)] /\ f[anew(s)] = g[anew(s)]
            <4> HIDE DEF next, anew, D
            <4> QED BY <1>6, <1>7, <3>1
        <3>5. f[back(s)] = g[back(s)]
            <4> HIDE DEF back, D
            <4> QED BY <1>6, <1>7, <3>1
        <3> HIDE DEF next, anew, back, takes, wild, d, end
        <3> QED BY <2>2, <3>2, <3>3, <3>4, <3>5
    <2> QED BY <2>1, <2>2
<1>8. ASSUME NEW s \in D, NEW f \in [D -> BOOLEAN] PROVE body(f, s) \in BOOLEAN
    <2>1. CASE s.from + s.run > m
        BY <2>1
    <2>2. CASE ~(s.from + s.run > m)
        <3>1. s.from + s.run <= m
            BY <1>1, <1>3, <2>2
        <3> DEFINE d == s.star + 1 + s.run <= n
        <3>2. (takes(s) => d) /\ (wild(s) => d)
            OBVIOUS
        <3>3. d => f[next(s)] \in BOOLEAN /\ f[anew(s)] \in BOOLEAN
            <4>1. d => next(s) \in D /\ anew(s) \in D
                <5> HIDE DEF next, anew, D
                <5> QED BY <1>6, <3>1
            <4> HIDE DEF next, anew, D, d
            <4> QED BY <4>1
        <3> HIDE DEF next, anew, back, takes, wild, d, end
        <3> QED BY <2>2, <3>2, <3>3
    <2> QED BY <2>1, <2>2
<1> HIDE DEF body
<1>9. \A s \in D, f \in [D -> BOOLEAN] : step[s][f] = body(f, s)
    <2> HIDE DEF D
    <2> QED OBVIOUS
<1>10. step \in [D -> [[D -> BOOLEAN] -> BOOLEAN]]
    <2> HIDE DEF D
    <2> QED BY <1>8
<1>11. size \in [D -> 0 .. K]
    <2>1. size = [s \in D |-> size[s]]
        BY DEF size
    <2> HIDE DEF D, K
    <2> QED BY <1>5, <2>1
<1>12. K \in Nat
    <2> HIDE DEF n, m
    <2> QED BY <1>1, WeightFacts
<1> HIDE DEF step, K
<1>13. PICK f : Solves(f, D, BOOLEAN, step)
    <2> HIDE DEF D
    <2>1. \A d \in D : \A f, g \in [D -> BOOLEAN] :
              (\A e \in D : size[e] < size[d] => f[e] = g[e]) => step[d][f] = step[d][g]
        BY <1>7, <1>9
    <2>2. Descends(D, BOOLEAN, K, size, step)
        BY <1>10, <1>11, <1>12, <2>1 DEF Descends
    <2> QED BY <2>2, RecursionExists
<1>14. scan = [s \in D |-> body(scan, s)]
    <2>1. f = [s \in D |-> body(f, s)]
        <3> HIDE DEF D
        <3> QED BY <1>9, <1>13 DEF Solves
    <2> HIDE DEF D
    <2> QED BY <2>1
<1>15. \A s \in D : scan[s] = body(scan, s)
    <2> HIDE DEF D
    <2> QED BY <1>14
<1> HIDE DEF scan
<1>16. ASSUME NEW star \in 0 .. n, NEW from \in 1 .. (m + 1), NEW run \in 0 .. n
       PROVE  scan[[star |-> star, from |-> from, run |-> run]] =
                  IF from + run > m THEN \A i \in (star + 1 + run) .. n : pattern[i] = "*"
                  ELSE IF star + 1 + run <= n /\ pattern[star + 1 + run] \in {"?", segment[from + run]}
                  THEN scan[[star |-> star, from |-> from, run |-> run + 1]]
                  ELSE IF star + 1 + run <= n /\ pattern[star + 1 + run] = "*"
                  THEN scan[[star |-> star + 1 + run, from |-> from + run, run |-> 0]]
                  ELSE star > 0 /\ scan[[star |-> star, from |-> from + 1, run |-> 0]]
    <2> DEFINE s == [star |-> star, from |-> from, run |-> run]
    <2>1. s \in D /\ s.star = star /\ s.from = from /\ s.run = run
        BY <1>4
    <2>2. scan[s] = body(scan, s)
        <3> HIDE DEF D, s
        <3> QED BY <1>15, <2>1
    <2> QED BY <2>1, <2>2 DEF body
<1>17. SegmentScan(scan, pattern, segment)
    BY <1>2, <1>16 DEF SegmentScan
<1> QED BY <1>17

(* The states of a segment's scan, and which of them comes after another. *)
ScanStates(n, m) ==
    {s \in [star : 0 .. n, from : 1 .. (m + 1), run : 0 .. n] :
        s.star + 1 + s.run <= n + 1 /\ s.from + s.run <= m + 1}

Later(t, s) ==
    \/ t.star > s.star
    \/ t.star = s.star /\ t.from > s.from
    \/ t.star = s.star /\ t.from = s.from /\ t.run > s.run

(* Each is reached once: among those that are wrong there would be a last. *)
LEMMA ScanInduction ==
    ASSUME NEW n \in Nat, NEW m \in Nat, NEW bad \in SUBSET ScanStates(n, m),
           \A s \in bad : \E t \in bad : Later(t, s)
    PROVE  bad = {}
<1> DEFINE weight(s) == Weight(n, m, n - s.star, m + 1 - s.from, n - s.run)
           weights == {weight(s) : s \in bad}
<1>1. SUFFICES ASSUME bad # {} PROVE FALSE
    OBVIOUS
<1>2. \A s \in bad : /\ n - s.star \in 0 .. n /\ m + 1 - s.from \in 0 .. m /\ n - s.run \in 0 .. n
                     /\ s.star \in Nat /\ s.from \in Nat /\ s.run \in Nat
    BY DEF ScanStates
<1>3. \A x \in 0 .. n, y \in 0 .. m, z \in 0 .. n : Weight(n, m, x, y, z) \in Nat
    BY WeightFacts
<1>4. \A s \in bad : weight(s) \in Nat
    <2> TAKE s \in bad
    <2> DEFINE x == n - s.star
               y == m + 1 - s.from
               z == n - s.run
    <2>1. x \in 0 .. n /\ y \in 0 .. m /\ z \in 0 .. n
        BY <1>2
    <2> HIDE DEF x, y, z
    <2>2. Weight(n, m, x, y, z) \in Nat
        BY <1>3, <2>1
    <2> QED BY <2>2 DEF x, y, z
<1>5. PICK k \in weights : \A l \in weights : k <= l
    <2>1. weights \in SUBSET Nat /\ weights # {}
        BY <1>1, <1>4
    <2> HIDE DEF weights
    <2> QED BY <2>1, LeastExists
<1>6. PICK s \in bad : k = weight(s)
    BY <1>5
<1>7. PICK t \in bad : Later(t, s)
    OBVIOUS
<1>8. weight(t) < weight(s)
    <2> DEFINE x == n - s.star
               y == m + 1 - s.from
               z == n - s.run
               u == n - t.star
               v == m + 1 - t.from
               w == n - t.run
    <2>1. /\ x \in 0 .. n /\ y \in 0 .. m /\ z \in 0 .. n
          /\ u \in 0 .. n /\ v \in 0 .. m /\ w \in 0 .. n
        BY <1>2
    <2>2. \/ u < x
          \/ u = x /\ v < y
          \/ u = x /\ v = y /\ w < z
        BY <1>2, <1>7 DEF Later
    <2> HIDE DEF x, y, z, u, v, w
    <2>3. Weight(n, m, u, v, w) < Weight(n, m, x, y, z)
        BY <2>1, <2>2, WeightFacts
    <2> QED BY <2>3 DEF x, y, z, u, v, w
<1>9. k <= weight(t)
    BY <1>5
<1> HIDE DEF weight
<1> QED BY <1>4, <1>6, <1>8, <1>9

(* Items that are not wild take one thing each. *)
LEMMA CutsCount ==
    ASSUME NEW n \in Nat, NEW m \in Nat, NEW wild, NEW takes, NEW gi \in 1 .. n, NEW pi,
           NEW run \in Nat, gi + run <= n,
           NEW cut, Suits(cut, n, m, wild, takes, gi, pi),
           \A i \in (gi + 1) .. (gi + run) : i \notin wild
    PROVE  cut[gi + run] = cut[gi] + run
<1> DEFINE wrong == {k \in 0 .. run : cut[gi + k] # cut[gi] + k}
<1>1. SUFFICES ASSUME wrong # {} PROVE FALSE
    BY DEF wrong
<1>2. PICK k \in wrong : \A l \in wrong : k <= l
    <2>1. wrong \in SUBSET Nat
        OBVIOUS
    <2> HIDE DEF wrong
    <2> QED BY <1>1, <2>1, LeastExists
<1>3. cut \in [0 .. n -> 0 .. m]
    BY DEF Suits
<1>4. k \in 0 .. run /\ cut[gi + k] # cut[gi] + k /\ cut[gi] \in 0 .. m
    BY <1>3
<1>5. k # 0
    BY <1>4
<1>6. k - 1 \in 0 .. run /\ k - 1 \notin wrong
    BY <1>2, <1>4, <1>5
<1>7. cut[gi + (k - 1)] = cut[gi] + (k - 1)
    BY <1>6
<1> DEFINE i == gi + k
<1>8. i \in gi .. n /\ i \in (gi + 1) .. (gi + run) /\ i - 1 = gi + (k - 1)
    BY <1>4, <1>5
<1> HIDE DEF i
<1>9. cut[i] = cut[i - 1] + 1
    BY <1>8 DEF Suits
<1>10. cut[i] = cut[gi] + (k - 1) + 1
    BY <1>7, <1>8, <1>9
<1> QED BY <1>4, <1>10 DEF i

(* What a pattern's items mean. *)
StarsOf(pattern) == {i \in DOMAIN pattern : pattern[i] = "*"}

TakenBy(pattern, segment) ==
    {p \in (DOMAIN pattern) \X (DOMAIN segment) : pattern[p[1]] \in {"?", segment[p[2]]}}

(* A segment that segmentMatch accepts is one that the pattern means: each *)
(* star any characters, each question mark one.                            *)
THEOREM SegmentMatchSound ==
    ASSUME NEW pattern, IsSeq(pattern), NEW segment, IsSeq(segment), segmentMatch(pattern, segment)
    PROVE  SegmentFits(pattern, segment)
<1> DEFINE n == Len(pattern)
           m == Len(segment)
           wild == StarsOf(pattern)
           takes == TakenBy(pattern, segment)
           rest(gi, pi) == Rest(n, m, wild, takes, gi, pi)
<1>1. n \in Nat /\ m \in Nat /\ DOMAIN pattern = 1 .. n /\ DOMAIN segment = 1 .. m
    BY SeqFacts
<1>2. PICK scan : SegmentScan(scan, pattern, segment)
    BY SegmentScanExists
<1>3. \A pi \in 1 .. n : pi \in wild <=> pattern[pi] = "*"
    BY <1>1 DEF StarsOf
<1>4. \A pi \in 1 .. n, si \in 1 .. m :
          <<pi, si>> \in takes <=> pattern[pi] \in {"?", segment[si]}
    BY <1>1 DEF TakenBy
<1>5. \A pi \in 1 .. (n + 1), si \in 1 .. (m + 1) :
          /\ si = m + 1 => (rest(pi, si) <=> \A i \in pi .. n : i \in wild)
          /\ pi <= n /\ pi \in wild =>
               (rest(pi, si) <=> rest(pi + 1, si) \/ (si <= m /\ rest(pi, si + 1)))
          /\ pi <= n /\ pi \notin wild =>
               (rest(pi, si) <=> si <= m /\ <<pi, si>> \in takes /\ rest(pi + 1, si + 1))
    <2> TAKE pi \in 1 .. (n + 1), si \in 1 .. (m + 1)
    <2> HIDE DEF n, m, wild, takes
    <2>1. si = m + 1 => (rest(pi, si) <=> \A i \in pi .. n : i \in wild)
        BY <1>1, RestOfNothing
    <2> QED BY <1>1, <2>1, RestUnfolds
<1> DEFINE good(s) == \/ rest(s.star + 1 + s.run, s.from + s.run)
                      \/ s.star > 0 /\ rest(s.star, s.from)
           bad == {s \in ScanStates(n, m) :
                     /\ s.star > 0 => pattern[s.star] = "*"
                     /\ scan[s] /\ ~good(s)}
<1> HIDE DEF rest, wild, takes
<1>6. ASSUME NEW s \in bad PROVE \E t \in bad : Later(t, s)
    <2> DEFINE star == s.star
               from == s.from
               run == s.run
               pi == star + 1 + run
               si == from + run
               state(x, y, z) == [star |-> x, from |-> y, run |-> z]
    <2>1. /\ star \in 0 .. n /\ from \in 1 .. (m + 1) /\ run \in 0 .. n
          /\ pi \in 1 .. (n + 1) /\ si \in 1 .. (m + 1)
          /\ star > 0 => pattern[star] = "*"
          /\ s = state(star, from, run)
          /\ scan[s] /\ ~good(s)
        BY <1>1 DEF ScanStates
    <2>2. /\ ~rest(pi, si)
          /\ star > 0 => ~rest(star, from)
        BY <2>1
    <2>3. scan[s] = IF si > m THEN \A i \in pi .. n : pattern[i] = "*"
                    ELSE IF pi <= n /\ pattern[pi] \in {"?", segment[si]}
                    THEN scan[state(star, from, run + 1)]
                    ELSE IF pi <= n /\ pattern[pi] = "*"
                    THEN scan[state(pi, si, 0)]
                    ELSE star > 0 /\ scan[state(star, from + 1, 0)]
        <3>1. star \in 0 .. n /\ from \in 1 .. (m + 1) /\ run \in 0 .. n /\ s = state(star, from, run)
            BY <2>1
        <3> HIDE DEF star, from, run
        <3>2. scan[state(star, from, run)] =
                  IF si > m THEN \A i \in pi .. n : pattern[i] = "*"
                  ELSE IF pi <= n /\ pattern[pi] \in {"?", segment[si]}
                  THEN scan[state(star, from, run + 1)]
                  ELSE IF pi <= n /\ pattern[pi] = "*"
                  THEN scan[state(pi, si, 0)]
                  ELSE star > 0 /\ scan[state(star, from + 1, 0)]
            BY <1>2, <3>1 DEF SegmentScan
        <3> QED BY <3>1, <3>2
    <2>4. CASE si > m
        <3>1. \A i \in pi .. n : pattern[i] = "*"
            BY <2>1, <2>3, <2>4, Zenon
        <3>2. \A i \in pi .. n : i \in wild
            BY <1>1, <1>3, <2>1, <3>1
        <3>3. si = m + 1
            BY <1>1, <2>1, <2>4
        <3> HIDE DEF pi, si
        <3> QED BY <1>5, <2>1, <2>2, <3>2, <3>3
    <2>5. CASE si <= m /\ pi <= n /\ pattern[pi] \in {"?", segment[si]}
        <3> DEFINE t == state(star, from, run + 1)
        <3>1. scan[t]
            <4>1. ~(si > m)
                BY <1>1, <2>1, <2>5
            <4> QED BY <2>1, <2>3, <2>5, <4>1, Zenon
        <3>2. t \in ScanStates(n, m) /\ t.star = star /\ t.from = from /\ t.run = run + 1
            BY <1>1, <2>1, <2>5 DEF ScanStates
        <3>3. Later(t, s)
            BY <2>1, <3>2 DEF Later
        <3>4. ~rest(pi + 1, si + 1)
            <4> HIDE DEF pi, si
            <4>1. pi \in 1 .. n /\ si \in 1 .. m /\ si + 1 \in 1 .. (m + 1)
                BY <1>1, <2>1, <2>5
            <4>2. CASE pi \in wild
                <5>1. ~rest(pi, si + 1)
                    BY <1>5, <2>1, <2>2, <2>5, <4>2
                <5> DEFINE q == si + 1
                <5>2. rest(pi, q) <=> rest(pi + 1, q) \/ (q <= m /\ rest(pi, q + 1))
                    <6> HIDE DEF q
                    <6>1. q \in 1 .. (m + 1)
                        BY <4>1 DEF q
                    <6> QED BY <1>5, <2>1, <2>5, <4>2, <6>1
                <5> QED BY <5>1, <5>2
            <4>3. CASE pi \notin wild
                BY <1>4, <1>5, <2>1, <2>2, <2>5, <4>1, <4>3
            <4> QED BY <4>2, <4>3
        <3>5. ~good(t)
            <4>1. t.star + 1 + t.run = pi + 1 /\ t.from + t.run = si + 1
                <5>1. star \in Nat /\ from \in Nat /\ run \in Nat
                    BY <1>1, <2>1
                <5> HIDE DEF t, star, from, run
                <5> QED BY <3>2, <5>1
            <4> HIDE DEF t, pi, si
            <4> QED BY <2>2, <3>2, <3>4, <4>1
        <3>6. t \in bad
            BY <2>1, <3>1, <3>2, <3>5
        <3> QED BY <3>3, <3>6
    <2>6. CASE si <= m /\ pi <= n /\ pattern[pi] \notin {"?", segment[si]} /\ pattern[pi] = "*"
        <3> DEFINE t == state(pi, si, 0)
        <3>1. scan[t]
            <4>1. ~(si > m)
                BY <1>1, <2>1, <2>6
            <4> QED BY <2>1, <2>3, <2>6, <4>1, Zenon
        <3>2. t \in ScanStates(n, m) /\ t.star = pi /\ t.from = si /\ t.run = 0
            BY <1>1, <2>1, <2>6 DEF ScanStates
        <3>3. Later(t, s)
            BY <2>1, <3>2 DEF Later
        <3>4. ~rest(pi + 1, si)
            <4> HIDE DEF pi, si
            <4>1. pi \in 1 .. n /\ pi \in wild
                BY <1>1, <1>3, <2>1, <2>6
            <4> QED BY <1>5, <2>1, <2>2, <2>6, <4>1
        <3>5. ~good(t)
            <4> HIDE DEF t, pi, si
            <4>1. t.star + 1 + t.run = pi + 1 /\ t.from + t.run = si
                BY <2>1, <3>2
            <4> QED BY <2>2, <3>2, <3>4, <4>1
        <3>6. t \in bad
            BY <2>1, <2>6, <3>1, <3>2, <3>5
        <3> QED BY <3>3, <3>6
    <2>7. CASE /\ si <= m
               /\ ~(pi <= n /\ pattern[pi] \in {"?", segment[si]})
               /\ ~(pi <= n /\ pattern[pi] = "*")
        <3> DEFINE t == state(star, from + 1, 0)
        <3>1. star > 0 /\ scan[t]
            <4>1. ~(si > m)
                BY <1>1, <2>1, <2>7
            <4> QED BY <2>1, <2>3, <2>7, <4>1, Zenon
        <3>2. t \in ScanStates(n, m) /\ t.star = star /\ t.from = from + 1 /\ t.run = 0
            BY <1>1, <2>1, <2>7 DEF ScanStates
        <3>3. Later(t, s)
            BY <2>1, <3>2 DEF Later
        <3>4. ~rest(star, from + 1) /\ ~rest(star + 1, from + 1)
            <4> HIDE DEF pi, star, from
            <4>1. star \in 1 .. n /\ star \in wild /\ from \in 1 .. m /\ from + 1 \in 1 .. (m + 1)
                BY <1>1, <1>3, <2>1, <2>7, <3>1
            <4>2. ~rest(star, from + 1)
                <5>1. star \in 1 .. (n + 1) /\ from \in 1 .. (m + 1) /\ star <= n /\ from <= m
                    BY <1>1, <4>1
                <5>2. rest(star, from) <=> rest(star + 1, from) \/ (from <= m /\ rest(star, from + 1))
                    BY <1>5, <4>1, <5>1
                <5> QED BY <2>2, <3>1, <5>1, <5>2
            <4> DEFINE q == from + 1
            <4>3. rest(star, q) <=> rest(star + 1, q) \/ (q <= m /\ rest(star, q + 1))
                <5> HIDE DEF q
                <5>1. q \in 1 .. (m + 1) /\ star \in 1 .. (n + 1) /\ star <= n
                    BY <4>1 DEF q
                <5> QED BY <1>5, <4>1, <5>1
            <4> QED BY <4>2, <4>3
        <3>5. ~good(t)
            <4>1. t.star + 1 + t.run = star + 1 /\ t.from + t.run = from + 1
                BY <2>1, <3>2
            <4> HIDE DEF t, pi, si
            <4> QED BY <2>2, <3>2, <3>4, <4>1
        <3>6. t \in bad
            BY <2>1, <3>1, <3>2, <3>5
        <3> QED BY <3>3, <3>6
    <2> QED
        <3>1. si > m \/ si <= m
            BY <1>1, <2>1
        <3> QED BY <2>4, <2>5, <2>6, <2>7, <3>1
<1>7. bad = {}
    <2>1. bad \in SUBSET ScanStates(n, m)
        OBVIOUS
    <2> HIDE DEF bad, n, m
    <2> QED BY <1>1, <1>6, <2>1, ScanInduction
<1>8. rest(1, 1)
    <2> DEFINE t == [star |-> 0, from |-> 1, run |-> 0]
    <2>1. t \in ScanStates(n, m) /\ t.star = 0 /\ t.from = 1 /\ t.run = 0
        BY <1>1 DEF ScanStates
    <2>2. scan[t]
        BY <1>2 DEF SegmentScan
    <2>3. t \notin bad
        <3> HIDE DEF bad
        <3> QED BY <1>7
    <2>4. good(t)
        BY <2>1, <2>2, <2>3
    <2> HIDE DEF t
    <2> QED BY <2>1, <2>4
<1>9. Spans(n, m, wild, takes)
    BY <1>8, RestOfAll DEF rest
<1> QED BY <1>9 DEF SegmentFits, wild, takes, StarsOf, TakenBy

(* A segment that the pattern means is accepted by segmentMatch, if there  *)
(* is no star in it: that it comes back to the last star only (starPi)     *)
(* loses no match.  With a star in it the first branch of the loop takes   *)
(* the pattern's star for a literal one (MCRuntimeStar.cfg).               *)
THEOREM SegmentMatchComplete ==
    ASSUME NEW pattern, IsSeq(pattern), NEW segment, IsSeq(segment),
           "*" \notin Elements(segment), SegmentFits(pattern, segment)
    PROVE  segmentMatch(pattern, segment)
<1> DEFINE n == Len(pattern)
           m == Len(segment)
           wild == StarsOf(pattern)
           takes == TakenBy(pattern, segment)
           rest(gi, pi) == Rest(n, m, wild, takes, gi, pi)
<1>1. n \in Nat /\ m \in Nat /\ DOMAIN pattern = 1 .. n /\ DOMAIN segment = 1 .. m
    BY SeqFacts
<1>2. PICK scan : SegmentScan(scan, pattern, segment)
    BY SegmentScanExists
<1>3. \A pi \in 1 .. n : pi \in wild <=> pattern[pi] = "*"
    BY <1>1 DEF StarsOf
<1>4. \A pi \in 1 .. n, si \in 1 .. m :
          <<pi, si>> \in takes <=> pattern[pi] \in {"?", segment[si]}
    BY <1>1 DEF TakenBy
<1>5. \A si \in 1 .. m : segment[si] # "*"
    BY <1>1 DEF Elements
<1>6. rest(1, 1)
    <2>1. Spans(n, m, wild, takes)
        BY DEF SegmentFits, StarsOf, TakenBy
    <2> HIDE DEF n, m, wild, takes
    <2> QED BY <2>1, RestOfAll
<1>7. \A pi \in 1 .. (n + 1), si \in 1 .. (m + 1) :
          /\ si = m + 1 => (rest(pi, si) <=> \A i \in pi .. n : i \in wild)
          /\ pi > n => (rest(pi, si) <=> si > m)
          /\ pi <= n /\ pi \in wild =>
               (rest(pi, si) <=> rest(pi + 1, si) \/ (si <= m /\ rest(pi, si + 1)))
          /\ pi <= n /\ pi \notin wild =>
               (rest(pi, si) <=> si <= m /\ <<pi, si>> \in takes /\ rest(pi + 1, si + 1))
    <2> TAKE pi \in 1 .. (n + 1), si \in 1 .. (m + 1)
    <2> HIDE DEF n, m, wild, takes
    <2>1. si = m + 1 => (rest(pi, si) <=> \A i \in pi .. n : i \in wild)
        BY <1>1, RestOfNothing
    <2> QED BY <1>1, <2>1, RestUnfolds
<1>8. ASSUME NEW star \in 1 .. n, NEW from \in 1 .. m, NEW run \in Nat, star + run <= n,
             \A i \in (star + 1) .. (star + run) : i \notin wild, rest(star, from + 1)
      PROVE  /\ from + run <= m
             /\ star + 1 + run \in wild => rest(star + 1 + run, from + run + 1)
    <2> DEFINE q == from + 1
               last == star + run
    <2>1. PICK cut : Suits(cut, n, m, wild, takes, star, q)
        BY <1>8 DEF Rest
    <2>2. q \in Nat /\ q = from + 1 /\ star \in star .. n /\ star \in 0 .. n /\ star - 1 \in 0 .. n
          /\ last = star + run /\ last \in 0 .. n /\ last \in star .. n
        <3> HIDE DEF n, m, wild, takes, rest
        <3> QED BY <1>1, <1>8
    <2>0. wild \subseteq 1 .. n
        BY <1>1 DEF StarsOf
    <2> HIDE DEF q, last
    <2> HIDE DEF n, m, wild, takes
    <2>3. /\ cut \in [0 .. n -> 0 .. m] /\ cut[star - 1] = q - 1 /\ cut[star] >= cut[star - 1]
        BY <2>1, <2>2 DEF Suits
    <2>4. cut[last] = cut[star] + run
        <3>1. star \in 1 .. n /\ run \in Nat /\ star + run <= n
            BY <1>8
        <3>2. \A i \in (star + 1) .. (star + run) : i \notin wild
            BY <1>8
        <3> QED BY <1>1, <2>1, <3>1, <3>2, CutsCount DEF last
    <2>5. cut[star] \in 0 .. m /\ cut[last] \in 0 .. m /\ cut[star] >= from
        BY <2>2, <2>3
    <2>6. from + run <= m /\ cut[last] >= from + run
        BY <1>1, <2>4, <2>5
    <2>7. ASSUME star + 1 + run \in wild
          PROVE  rest(star + 1 + run, from + run + 1)
        <3> DEFINE gi == last + 1
                   si == from + run + 1
                   p == cut[last] + 1
        <3>1. /\ gi \in 1 .. n /\ si \in 1 .. (m + 1) /\ p \in Nat /\ gi \in {gi, gi + 1}
              /\ gi - 1 = last /\ p - 1 = cut[last] /\ gi \in star .. n /\ gi = star + 1 + run
              /\ gi \in 0 .. n
            BY <1>1, <2>0, <2>2, <2>5, <2>6, <2>7
        <3> HIDE DEF gi, p
        <3>2. \A i \in gi .. n : i \in star .. n
            BY <3>1, <2>2
        <3>3. Suits(cut, n, m, wild, takes, gi, p)
            BY <2>1, <3>1, <3>2 DEF Suits
        <3>4. cut[gi] >= cut[last] /\ cut[gi] \in 0 .. m
            BY <2>1, <2>3, <3>1 DEF Suits
        <3>5. cut[gi] >= si - 1
            BY <1>1, <2>5, <2>6, <3>4
        <3> HIDE DEF si
        <3>6. Rest(n, m, wild, takes, gi, si)
            BY <1>1, <2>7, <3>1, <3>3, <3>5, SuitsFrom
        <3> QED BY <3>1, <3>6 DEF si
    <2> QED BY <2>6, <2>7
<1> DEFINE due(s) == \/ rest(s.star + 1 + s.run, s.from + s.run)
                     \/ s.star > 0 /\ s.from <= m /\ rest(s.star, s.from + 1)
           bad == {s \in ScanStates(n, m) :
                     /\ s.star > 0 => pattern[s.star] = "*"
                     /\ \A i \in (s.star + 1) .. (s.star + s.run) : i \notin wild
                     /\ ~scan[s] /\ due(s)}
<1> HIDE DEF rest, wild, takes
<1>9. ASSUME NEW s \in bad PROVE \E t \in bad : Later(t, s)
    <2> DEFINE star == s.star
               from == s.from
               run == s.run
               pi == star + 1 + run
               si == from + run
               state(x, y, z) == [star |-> x, from |-> y, run |-> z]
    <2>1. /\ star \in 0 .. n /\ from \in 1 .. (m + 1) /\ run \in 0 .. n
          /\ pi \in 1 .. (n + 1) /\ si \in 1 .. (m + 1)
          /\ star > 0 => pattern[star] = "*"
          /\ \A i \in (star + 1) .. (star + run) : i \notin wild
          /\ s = state(star, from, run)
          /\ ~scan[s] /\ due(s)
        BY <1>1 DEF ScanStates
    <2>2. \/ rest(pi, si)
          \/ star > 0 /\ from <= m /\ rest(star, from + 1)
        BY <2>1
    <2>3. scan[s] = IF si > m THEN \A i \in pi .. n : pattern[i] = "*"
                    ELSE IF pi <= n /\ pattern[pi] \in {"?", segment[si]}
                    THEN scan[state(star, from, run + 1)]
                    ELSE IF pi <= n /\ pattern[pi] = "*"
                    THEN scan[state(pi, si, 0)]
                    ELSE star > 0 /\ scan[state(star, from + 1, 0)]
        <3>1. star \in 0 .. n /\ from \in 1 .. (m + 1) /\ run \in 0 .. n /\ s = state(star, from, run)
            BY <2>1
        <3> HIDE DEF star, from, run
        <3>2. scan[state(star, from, run)] =
                  IF si > m THEN \A i \in pi .. n : pattern[i] = "*"
                  ELSE IF pi <= n /\ pattern[pi] \in {"?", segment[si]}
                  THEN scan[state(star, from, run + 1)]
                  ELSE IF pi <= n /\ pattern[pi] = "*"
                  THEN scan[state(pi, si, 0)]
                  ELSE star > 0 /\ scan[state(star, from + 1, 0)]
            BY <1>2, <3>1 DEF SegmentScan
        <3> QED BY <3>1, <3>2
    <2>4. star > 0 /\ from <= m /\ rest(star, from + 1) =>
            si <= m /\ (pi \in wild => rest(pi, si + 1))
        <3>1. SUFFICES ASSUME star > 0, from <= m, rest(star, from + 1)
                       PROVE  si <= m /\ (pi \in wild => rest(pi, si + 1))
            OBVIOUS
        <3>2. star \in 1 .. n /\ from \in 1 .. m /\ run \in Nat /\ star + run <= n
            BY <1>1, <2>1, <3>1
        <3> HIDE DEF star, from, run
        <3> QED BY <1>8, <2>1, <3>1, <3>2
    <2>5. si <= m
        <3>1. SUFFICES ASSUME si > m PROVE FALSE
            BY <1>1, <2>1
        <3>2. rest(pi, si) /\ si = m + 1
            BY <1>1, <2>1, <2>2, <2>4, <3>1
        <3>3. \A i \in pi .. n : i \in wild
            <4> HIDE DEF pi, si
            <4> QED BY <1>7, <2>1, <3>2
        <3>4. \A i \in pi .. n : pattern[i] = "*"
            BY <1>1, <1>3, <2>1, <3>3
        <3> QED BY <2>1, <2>3, <3>1, <3>4
    <2>6. CASE pi <= n /\ pattern[pi] \in {"?", segment[si]}
        <3> DEFINE t == state(star, from, run + 1)
        <3>1. ~scan[t]
            <4>1. ~(si > m)
                BY <1>1, <2>1, <2>5
            <4> QED BY <2>1, <2>3, <2>6, <4>1, Zenon
        <3>2. t \in ScanStates(n, m) /\ t.star = star /\ t.from = from /\ t.run = run + 1
            BY <1>1, <2>1, <2>5, <2>6 DEF ScanStates
        <3>3. Later(t, s)
            BY <2>1, <3>2 DEF Later
        <3>4. pi \in 1 .. n /\ si \in 1 .. m /\ pi \notin wild /\ <<pi, si>> \in takes
            <4>1. pi \in 1 .. n /\ si \in 1 .. m
                BY <1>1, <2>1, <2>5, <2>6
            <4> HIDE DEF pi, si
            <4> QED BY <1>3, <1>4, <1>5, <2>6, <4>1
        <3>5. rest(pi, si) => rest(pi + 1, si + 1)
            <4> HIDE DEF pi, si
            <4> QED BY <1>1, <1>7, <2>1, <3>4
        <3>6. due(t)
            <4>1. t.star + 1 + t.run = pi + 1 /\ t.from + t.run = si + 1
                <5>1. star \in Nat /\ from \in Nat /\ run \in Nat
                    BY <1>1, <2>1
                <5> HIDE DEF t, star, from, run
                <5> QED BY <3>2, <5>1
            <4> HIDE DEF t, pi, si
            <4> QED BY <2>2, <3>2, <3>5, <4>1
        <3>7. \A i \in (t.star + 1) .. (t.star + t.run) : i \notin wild
            <4>1. star \in Nat /\ run \in Nat
                BY <1>1, <2>1
            <4>2. \A i \in (star + 1) .. (star + (run + 1)) : i \in (star + 1) .. (star + run) \/ i = pi
                <5> HIDE DEF star, run
                <5> QED BY <4>1
            <4> HIDE DEF star, run, pi, t
            <4> QED BY <2>1, <3>2, <3>4, <4>2
        <3>8. t \in bad
            <4> HIDE DEF t
            <4> QED BY <2>1, <3>1, <3>2, <3>6, <3>7
        <3> QED BY <3>3, <3>8
    <2>7. CASE pi <= n /\ pattern[pi] \notin {"?", segment[si]} /\ pattern[pi] = "*"
        <3> DEFINE t == state(pi, si, 0)
        <3>1. ~scan[t]
            <4>1. ~(si > m)
                BY <1>1, <2>1, <2>5
            <4> QED BY <2>1, <2>3, <2>7, <4>1, Zenon
        <3>2. t \in ScanStates(n, m) /\ t.star = pi /\ t.from = si /\ t.run = 0
            BY <1>1, <2>1, <2>5, <2>7 DEF ScanStates
        <3>3. Later(t, s)
            BY <2>1, <3>2 DEF Later
        <3>4. pi \in 1 .. n /\ si \in 1 .. m /\ pi \in wild
            <4>1. pi \in 1 .. n /\ si \in 1 .. m
                BY <1>1, <2>1, <2>5, <2>7
            <4> HIDE DEF pi, si
            <4> QED BY <1>3, <2>7, <4>1
        <3>5. rest(pi + 1, si) \/ rest(pi, si + 1)
            <4>1. rest(pi, si) => rest(pi + 1, si) \/ rest(pi, si + 1)
                <5> HIDE DEF pi, si
                <5>1. pi \in 1 .. (n + 1) /\ si \in 1 .. (m + 1) /\ pi <= n /\ si <= m
                    BY <1>1, <3>4
                <5>2. rest(pi, si) <=> rest(pi + 1, si) \/ (si <= m /\ rest(pi, si + 1))
                    BY <1>7, <3>4, <5>1
                <5> QED BY <5>1, <5>2
            <4> QED BY <2>2, <2>4, <3>4, <4>1
        <3>6. due(t)
            <4> HIDE DEF t, pi, si
            <4>1. t.star + 1 + t.run = pi + 1 /\ t.from + t.run = si /\ pi > 0
                BY <2>1, <3>2
            <4> QED BY <2>5, <3>2, <3>5, <4>1
        <3>7. \A i \in (t.star + 1) .. (t.star + t.run) : FALSE
            <4> HIDE DEF t, pi, si
            <4> QED BY <2>1, <3>2
        <3>8. t \in bad
            BY <2>1, <2>7, <3>1, <3>2, <3>6, <3>7
        <3> QED BY <3>3, <3>8
    <2>8. CASE /\ ~(pi <= n /\ pattern[pi] \in {"?", segment[si]})
               /\ ~(pi <= n /\ pattern[pi] = "*")
        <3> DEFINE t == state(star, from + 1, 0)
        <3>1. ~rest(pi, si)
            <4>1. si \in 1 .. m
                BY <1>1, <2>1, <2>5
            <4> HIDE DEF pi, si
            <4>2. CASE pi > n
                <5>1. pi \in 1 .. (n + 1) /\ si \in 1 .. (m + 1)
                    BY <2>1
                <5>2. rest(pi, si) <=> si > m
                    BY <1>7, <4>2, <5>1
                <5>3. ~(si > m)
                    BY <1>1, <4>1
                <5> QED BY <5>2, <5>3
            <4>3. CASE pi <= n
                <5>1. pi \in 1 .. n /\ pi \notin wild /\ <<pi, si>> \notin takes
                    BY <1>1, <1>3, <1>4, <2>1, <2>8, <4>1, <4>3
                <5> QED BY <1>7, <2>1, <4>3, <5>1
            <4> QED BY <1>1, <2>1, <4>2, <4>3
        <3>2. star > 0 /\ from <= m /\ rest(star, from + 1)
            BY <2>2, <3>1
        <3>3. ~scan[t]
            <4>1. ~(si > m)
                BY <1>1, <2>1, <2>5
            <4> QED BY <2>1, <2>3, <2>8, <3>2, <4>1, Zenon
        <3>4. t \in ScanStates(n, m) /\ t.star = star /\ t.from = from + 1 /\ t.run = 0
            BY <1>1, <2>1, <3>2 DEF ScanStates
        <3>5. Later(t, s)
            BY <2>1, <3>4 DEF Later
        <3>6. rest(star + 1, from + 1) \/ (from + 1 <= m /\ rest(star, from + 1 + 1))
            <4> HIDE DEF star, from
            <4>1. star \in 1 .. n /\ star \in wild /\ star \in 1 .. (n + 1) /\ star <= n
                BY <1>1, <1>3, <2>1, <3>2
            <4> DEFINE q == from + 1
            <4>2. q \in 1 .. (m + 1) /\ rest(star, q)
                BY <1>1, <2>1, <3>2
            <4> HIDE DEF q
            <4>3. rest(star + 1, q) \/ (q <= m /\ rest(star, q + 1))
                BY <1>7, <4>1, <4>2
            <4> QED BY <4>3 DEF q
        <3>7. due(t)
            <4>1. t.star + 1 + t.run = star + 1 /\ t.from + t.run = from + 1
                <5>1. star \in Nat /\ from \in Nat
                    BY <1>1, <2>1
                <5> HIDE DEF t, star, from
                <5> QED BY <3>4, <5>1
            <4> HIDE DEF t, star, from
            <4> QED BY <3>2, <3>4, <3>6, <4>1
        <3>8. \A i \in (t.star + 1) .. (t.star + t.run) : FALSE
            <4>1. star \in Nat
                BY <1>1, <2>1
            <4> HIDE DEF t, star
            <4> QED BY <3>4, <4>1
        <3>9. t \in bad
            <4>1. t.star > 0 => pattern[t.star] = "*"
                BY <2>1, <3>4
            <4> HIDE DEF t
            <4> QED BY <3>3, <3>4, <3>7, <3>8, <4>1
        <3> QED BY <3>5, <3>9
    <2> QED BY <2>6, <2>7, <2>8
<1>10. bad = {}
    <2>1. bad \in SUBSET ScanStates(n, m)
        OBVIOUS
    <2> HIDE DEF bad, n, m
    <2> QED BY <1>1, <1>9, <2>1, ScanInduction
<1> DEFINE t == [star |-> 0, from |-> 1, run |-> 0]
<1>11. /\ t \in ScanStates(n, m) /\ t.star = 0 /\ t.from = 1 /\ t.run = 0
       /\ t.star + 1 + t.run = 1 /\ t.from + t.run = 1
       /\ \A i \in (t.star + 1) .. (t.star + t.run) : FALSE
    BY <1>1 DEF ScanStates
<1>12. scan[t]
    <2>1. due(t)
        <3> HIDE DEF t
        <3> QED BY <1>6, <1>11
    <2>2. t \notin bad
        <3> HIDE DEF bad
        <3> QED BY <1>10
    <2> HIDE DEF t
    <2> QED BY <1>11, <2>1, <2>2
<1> QED BY <1>2, <1>12 DEF SegmentScan

(* A pattern whose items take more spans more. *)
LEMMA SpansMore ==
    ASSUME NEW n \in Nat, NEW m \in Nat, NEW wild, NEW takes, NEW more,
           \A i \in 1 .. n, j \in 1 .. m : <<i, j>> \in takes => <<i, j>> \in more,
           Spans(n, m, wild, takes)
    PROVE  Spans(n, m, wild, more)
<1>1. PICK cut \in [0 .. n -> 0 .. m] :
          /\ cut[0] = 0 /\ cut[n] = m
          /\ \A i \in 1 .. n :
              /\ cut[i] >= cut[i - 1]
              /\ i \notin wild => cut[i] = cut[i - 1] + 1 /\ <<i, cut[i]>> \in takes
    BY DEF Spans
<1>2. ASSUME NEW i \in 1 .. n, i \notin wild
      PROVE  cut[i] = cut[i - 1] + 1 /\ <<i, cut[i]>> \in more
    <2>1. cut[i] = cut[i - 1] + 1 /\ <<i, cut[i]>> \in takes
        BY <1>1, <1>2
    <2>2. i - 1 \in 0 .. n /\ i \in 0 .. n
        OBVIOUS
    <2>3. cut[i - 1] \in 0 .. m /\ cut[i] \in 0 .. m
        BY <2>2
    <2>4. cut[i] \in 1 .. m
        BY <2>1, <2>3
    <2> QED BY <2>1, <2>4
<1> QED BY <1>1, <1>2 DEF Spans

(* What a glob means, and what is found: a path that is matched is one     *)
(* that the glob means, and one that it means is matched if there is no    *)
(* star in the path.                                                       *)
LEMMA GlobMatches ==
    ASSUME NEW glob \in Segmented, NEW path \in Segmented
    PROVE  /\ matchGlob(glob, path) => GlobFits(glob, path)
           /\ GlobFits(glob, path) /\ (\A i \in DOMAIN path : "*" \notin Elements(path[i]))
                => matchGlob(glob, path)
<1> DEFINE n == Len(glob)
           m == Len(path)
           wild == {i \in DOMAIN glob : glob[i] = Globstar}
           found == {p \in (DOMAIN glob) \X (DOMAIN path) : segmentMatch(glob[p[1]], path[p[2]])}
           meant == {p \in (DOMAIN glob) \X (DOMAIN path) : SegmentFits(glob[p[1]], path[p[2]])}
<1>1. /\ IsSeq(glob) /\ IsSeq(path) /\ n \in Nat /\ m \in Nat
      /\ DOMAIN glob = 1 .. n /\ DOMAIN path = 1 .. m
      /\ \A i \in 1 .. n : IsSeq(glob[i])
      /\ \A j \in 1 .. m : IsSeq(path[j])
    BY DEF Segmented, IsSeq
<1>2. matchGlob(glob, path) <=> Spans(n, m, wild, found)
    BY <1>1, MatchGlobSpans
<1>3. GlobFits(glob, path) <=> Spans(n, m, wild, meant)
    BY DEF GlobFits
<1>4. \A i \in 1 .. n, j \in 1 .. m :
          /\ <<i, j>> \in found <=> segmentMatch(glob[i], path[j])
          /\ <<i, j>> \in meant <=> SegmentFits(glob[i], path[j])
    BY <1>1
<1> HIDE DEF n, m, wild, found, meant
<1>5. ASSUME Spans(n, m, wild, found) PROVE Spans(n, m, wild, meant)
    <2>1. \A i \in 1 .. n, j \in 1 .. m : <<i, j>> \in found => <<i, j>> \in meant
        BY <1>1, <1>4, SegmentMatchSound
    <2> QED BY <1>1, <1>5, <2>1, SpansMore
<1>6. ASSUME Spans(n, m, wild, meant), \A i \in DOMAIN path : "*" \notin Elements(path[i])
      PROVE  Spans(n, m, wild, found)
    <2>1. \A i \in 1 .. n, j \in 1 .. m : <<i, j>> \in meant => <<i, j>> \in found
        BY <1>1, <1>4, <1>6, SegmentMatchComplete
    <2> QED BY <1>1, <1>6, <2>1, SpansMore
<1> QED BY <1>2, <1>3, <1>5, <1>6

(* The rules that filterMatchingRules keeps. *)
Matching(r, paths) ==
    \E i \in DOMAIN r.rule.globs, path \in paths : matchGlob(r.rule.globs[i], path)

(* They are those that apply, but for the paths with a star in them. *)
LEMMA MatchingApplies ==
    ASSUME NEW r, r.rule.globs \in Seq(Segmented), NEW paths \in SUBSET Segmented
    PROVE  /\ Matching(r, paths) => Applies(r, paths)
           /\ Applies(r, Plain(paths)) => Matching(r, paths)
<1>1. \A i \in DOMAIN r.rule.globs : r.rule.globs[i] \in Segmented
    <2> DEFINE globs == r.rule.globs
    <2>1. globs \in Seq(Segmented)
        OBVIOUS
    <2> HIDE DEF globs
    <2>2. \A i \in DOMAIN globs : globs[i] \in Segmented
        BY <2>1
    <2> QED BY <2>2 DEF globs
<1>2. ASSUME Matching(r, paths) PROVE Applies(r, paths)
    BY <1>1, <1>2, GlobMatches DEF Matching, Applies
<1>3. ASSUME Applies(r, Plain(paths)) PROVE Matching(r, paths)
    <2>1. PICK i \in DOMAIN r.rule.globs, path \in Plain(paths) : GlobFits(r.rule.globs[i], path)
        BY <1>3 DEF Applies
    <2>2. path \in paths /\ path \in Segmented /\ \A j \in DOMAIN path : "*" \notin Elements(path[j])
        BY <2>1 DEF Plain
    <2>3. matchGlob(r.rule.globs[i], path)
        BY <1>1, <2>1, <2>2, GlobMatches
    <2> QED BY <2>2, <2>3 DEF Matching
<1> QED BY <1>2, <1>3

-----------------------------------------------------------------------------
(* The order of the rules                                                  *)

(* The characters that are counted are a number. *)
LEMMA LiteralsType ==
    ASSUME NEW glob \in Segmented
    PROVE  Literals(glob) \in Nat
<1> DEFINE N == Len(glob)
           plain(n) == Cardinality({i \in DOMAIN glob[n] : glob[n][i] \notin {"*", "?"}})
           body(f, n) == IF n = 0 THEN 0 ELSE f[n - 1] + plain(n)
           score == CHOOSE f : f = [n \in 0 .. N |-> body(f, n)]
<1>1. N \in Nat /\ \A n \in 1 .. N : glob[n] \in Seq(STRING)
    BY DEF Segmented
<1>2. \A n \in 1 .. N : plain(n) \in Nat
    <2> TAKE n \in 1 .. N
    <2> DEFINE s == glob[n]
    <2>1. s \in Seq(STRING)
        BY <1>1
    <2> HIDE DEF s
    <2>2. Len(s) \in Nat /\ DOMAIN s = 1 .. Len(s)
        BY <2>1
    <2>3. IsFiniteSet(DOMAIN s)
        BY <2>2, FS_Interval
    <2> DEFINE some == {i \in DOMAIN s : s[i] \notin {"*", "?"}}
    <2>4. some \in SUBSET (DOMAIN s)
        OBVIOUS
    <2> HIDE DEF some
    <2>5. IsFiniteSet(some)
        BY <2>3, <2>4, FS_Subset
    <2>6. Cardinality(some) \in Nat
        BY <2>5, FS_CardinalityType
    <2> QED BY <2>6 DEF some, s
<1>3. Literals(glob) = score[N]
    BY DEF Literals
<1> HIDE DEF plain, N
<1>4. PICK f : f = [n \in 0 .. N |-> body(f, n)]
    <2> DEFINE next == [n \in 1 .. N |-> [k \in Nat |-> k + plain(n)]]
    <2>1. next \in [1 .. N -> [Nat -> Nat]]
        BY <1>2
    <2>2. \A n \in 1 .. N, k \in Nat : next[n][k] = k + plain(n)
        OBVIOUS
    <2> HIDE DEF next
    <2>3. PICK g : Iterates(g, N, Nat, 0, next)
        BY <1>1, <2>1, IterationExists
    <2>4. \A n \in 0 .. N : g[n] = body(g, n)
        <3> TAKE n \in 0 .. N
        <3>1. CASE n = 0
            BY <2>3, <3>1 DEF Iterates
        <3>2. CASE n # 0
            <4>1. n \in 1 .. N /\ n - 1 \in 0 .. N
                BY <1>1, <3>2
            <4>2. g[n - 1] \in Nat /\ g[n] = next[n][g[n - 1]]
                BY <2>3, <4>1 DEF Iterates
            <4> QED BY <2>2, <3>2, <4>1, <4>2
        <3> QED BY <3>1, <3>2
    <2>5. g = [n \in 0 .. N |-> g[n]]
        BY <2>3 DEF Iterates
    <2>6. g = [n \in 0 .. N |-> body(g, n)]
        <3> HIDE DEF body
        <3> QED BY <2>4, <2>5
    <2> QED BY <2>6
<1>5. score = [n \in 0 .. N |-> body(score, n)]
    BY <1>4
<1> HIDE DEF score
<1>6. \A n \in 0 .. N : score[n] = body(score, n)
    BY <1>5
<1> DEFINE wrong == {n \in 0 .. N : score[n] \notin Nat}
<1>7. wrong = {}
    <2>1. SUFFICES ASSUME wrong # {} PROVE FALSE
        OBVIOUS
    <2>2. PICK n \in wrong : \A k \in wrong : n <= k
        <3>1. wrong \in SUBSET Nat
            BY <1>1
        <3> HIDE DEF wrong
        <3> QED BY <2>1, <3>1, LeastExists
    <2>3. n # 0
        BY <1>6
    <2>4. n \in 1 .. N /\ n - 1 \in 0 .. N /\ n - 1 \notin wrong
        BY <1>1, <2>2, <2>3
    <2> QED BY <1>2, <1>6, <2>3, <2>4
<1>8. N \in 0 .. N
    BY <1>1
<1> QED BY <1>3, <1>7, <1>8

(* So is the greatest of them. *)
LEMMA SpecificityType ==
    ASSUME NEW globs \in Seq(Segmented)
    PROVE  globSpecificity(globs) \in Nat
<1> DEFINE N == Len(globs)
           scored(n) == Literals(globs[n])
           body(f, n) == IF n = 0 THEN 0 ELSE IF scored(n) > f[n - 1] THEN scored(n) ELSE f[n - 1]
           most == CHOOSE f : f = [n \in 0 .. N |-> body(f, n)]
<1>1. N \in Nat /\ \A n \in 1 .. N : globs[n] \in Segmented
    OBVIOUS
<1>2. \A n \in 1 .. N : scored(n) \in Nat
    BY <1>1, LiteralsType
<1>3. globSpecificity(globs) = most[N]
    BY DEF globSpecificity
<1> HIDE DEF scored, N
<1>4. PICK f : f = [n \in 0 .. N |-> body(f, n)]
    <2> DEFINE next == [n \in 1 .. N |-> [k \in Nat |-> IF scored(n) > k THEN scored(n) ELSE k]]
    <2>1. next \in [1 .. N -> [Nat -> Nat]]
        BY <1>2
    <2>2. \A n \in 1 .. N, k \in Nat : next[n][k] = IF scored(n) > k THEN scored(n) ELSE k
        OBVIOUS
    <2> HIDE DEF next
    <2>3. PICK g : Iterates(g, N, Nat, 0, next)
        BY <1>1, <2>1, IterationExists
    <2>4. \A n \in 0 .. N : g[n] = body(g, n)
        <3> TAKE n \in 0 .. N
        <3>1. CASE n = 0
            BY <2>3, <3>1 DEF Iterates
        <3>2. CASE n # 0
            <4>1. n \in 1 .. N /\ n - 1 \in 0 .. N
                BY <1>1, <3>2
            <4>2. g[n - 1] \in Nat /\ g[n] = next[n][g[n - 1]]
                BY <2>3, <4>1 DEF Iterates
            <4> QED BY <2>2, <3>2, <4>1, <4>2
        <3> QED BY <3>1, <3>2
    <2>5. g = [n \in 0 .. N |-> g[n]]
        BY <2>3 DEF Iterates
    <2>6. g = [n \in 0 .. N |-> body(g, n)]
        <3> HIDE DEF body
        <3> QED BY <2>4, <2>5
    <2> QED BY <2>6
<1>5. most = [n \in 0 .. N |-> body(most, n)]
    BY <1>4
<1> HIDE DEF most
<1>6. \A n \in 0 .. N : most[n] = body(most, n)
    BY <1>5
<1> DEFINE wrong == {n \in 0 .. N : most[n] \notin Nat}
<1>7. wrong = {}
    <2>1. SUFFICES ASSUME wrong # {} PROVE FALSE
        OBVIOUS
    <2>2. PICK n \in wrong : \A k \in wrong : n <= k
        <3>1. wrong \in SUBSET Nat
            BY <1>1
        <3> HIDE DEF wrong
        <3> QED BY <2>1, <3>1, LeastExists
    <2>3. n # 0
        BY <1>6
    <2>4. n \in 1 .. N /\ n - 1 \in 0 .. N /\ n - 1 \notin wrong
        BY <1>1, <2>2, <2>3
    <2> QED BY <1>2, <1>6, <2>3, <2>4
<1>8. N \in 0 .. N
    BY <1>1
<1> QED BY <1>3, <1>7, <1>8

(* A rule that was read. *)
IsRule(r) ==
    /\ r.name \in Nat /\ r.bytes \in Nat
    /\ r.rule.order \in Int /\ r.rule.globs \in Seq(Segmented)

(* compareRules (order, specificity, name) is what a sort needs: an order  *)
(* of the rules, in which two of different names are never equal.          *)
THEOREM CompareOrders ==
    /\ \A a, b : IsRule(a) /\ IsRule(b) /\ compareRules(a, b) => ~compareRules(b, a)
    /\ \A a, b : IsRule(a) /\ IsRule(b) /\ a.name # b.name => compareRules(a, b) \/ compareRules(b, a)
    /\ \A a, b, c : IsRule(a) /\ IsRule(b) /\ IsRule(c) /\ compareRules(a, b) /\ compareRules(b, c)
                      => compareRules(a, c)
<1> DEFINE above(a) == globSpecificity(a.rule.globs)
<1>1. \A a : IsRule(a) => above(a) \in Nat /\ a.rule.order \in Int /\ a.name \in Nat
    BY SpecificityType DEF IsRule
<1>2. \A a, b : compareRules(a, b) <=>
          \/ a.rule.order < b.rule.order
          \/ a.rule.order = b.rule.order /\ above(a) > above(b)
          \/ a.rule.order = b.rule.order /\ above(a) = above(b) /\ a.name < b.name
    BY DEF compareRules
<1> HIDE DEF above
<1>3. ASSUME NEW a, NEW b, IsRule(a), IsRule(b)
      PROVE  /\ compareRules(a, b) => ~compareRules(b, a)
             /\ a.name # b.name => compareRules(a, b) \/ compareRules(b, a)
    <2>1. /\ above(a) \in Nat /\ a.rule.order \in Int /\ a.name \in Nat
          /\ above(b) \in Nat /\ b.rule.order \in Int /\ b.name \in Nat
        BY <1>1, <1>3
    <2> QED BY <1>2, <2>1
<1>4. ASSUME NEW a, NEW b, NEW c, IsRule(a), IsRule(b), IsRule(c), compareRules(a, b), compareRules(b, c)
      PROVE  compareRules(a, c)
    <2>1. /\ above(a) \in Nat /\ a.rule.order \in Int /\ a.name \in Nat
          /\ above(b) \in Nat /\ b.rule.order \in Int /\ b.name \in Nat
          /\ above(c) \in Nat /\ c.rule.order \in Int /\ c.name \in Nat
        BY <1>1, <1>4
    <2> QED BY <1>2, <1>4, <2>1
<1> QED BY <1>3, <1>4

-----------------------------------------------------------------------------
(* Sorting                                                                 *)

(* first is a strict order of the positions up to n. *)
OrdersPositions(first, n) ==
    /\ \A i, j \in 1 .. n : <<i, j>> \in first => <<j, i>> \notin first
    /\ \A i, j \in 1 .. n : i # j => <<i, j>> \in first \/ <<j, i>> \in first
    /\ \A i, j, k \in 1 .. n : <<i, j>> \in first /\ <<j, k>> \in first => <<i, k>> \in first

(* The positions that go before another. *)
Before(i, n, first) == {j \in 1 .. n : <<j, i>> \in first}

(* Counting them gives each position a place of its own, in the order. *)
LEMMA PlaceOfEach ==
    ASSUME NEW n \in Nat, NEW first, OrdersPositions(first, n)
    PROVE  /\ \A i \in 1 .. n : Cardinality(Before(i, n, first)) \in 0 .. (n - 1)
           /\ \A i, j \in 1 .. n : <<i, j>> \in first =>
                Cardinality(Before(i, n, first)) < Cardinality(Before(j, n, first))
           /\ \A k \in 1 .. n : \E i \in 1 .. n : Cardinality(Before(i, n, first)) = k - 1
<1> DEFINE P == 1 .. n
           before(i) == Before(i, n, first)
           rank == [i \in P |-> Cardinality(before(i))]
<1>1. IsFiniteSet(P) /\ Cardinality(P) = n
    BY FS_Interval
<1>2. \A i \in P : before(i) \in SUBSET P /\ IsFiniteSet(before(i)) /\ Cardinality(before(i)) \in Nat
    <2> TAKE i \in P
    <2>1. before(i) \in SUBSET P
        BY DEF Before
    <2> HIDE DEF P, before
    <2>2. IsFiniteSet(before(i))
        BY <1>1, <2>1, FS_Subset
    <2> QED BY <2>1, <2>2, FS_CardinalityType
<1>3. \A i, j \in P : j \in before(i) <=> <<j, i>> \in first
    BY DEF Before
<1>4. \A i \in P : Cardinality(before(i)) \in 0 .. (n - 1)
    <2> TAKE i \in P
    <2>1. i \notin before(i)
        BY <1>3 DEF OrdersPositions
    <2>2. Cardinality(before(i)) <= n /\ (Cardinality(P) = Cardinality(before(i)) => P = before(i))
        <3> HIDE DEF P, before
        <3> QED BY <1>1, <1>2, FS_Subset
    <2>3. Cardinality(before(i)) # n
        <3> HIDE DEF P, before
        <3> QED BY <1>1, <2>1, <2>2
    <2> HIDE DEF before
    <2> QED BY <1>2, <2>2, <2>3
<1>5. ASSUME NEW i \in P, NEW j \in P, <<i, j>> \in first
      PROVE  Cardinality(before(i)) < Cardinality(before(j))
    <2>1. before(i) \in SUBSET before(j)
        BY <1>2, <1>3, <1>5 DEF OrdersPositions
    <2>2. i \in before(j) /\ i \notin before(i)
        BY <1>3, <1>5 DEF OrdersPositions
    <2> HIDE DEF P, before
    <2>3. /\ Cardinality(before(i)) <= Cardinality(before(j))
          /\ Cardinality(before(j)) = Cardinality(before(i)) => before(j) = before(i)
        BY <1>2, <2>1, FS_Subset
    <2> QED BY <1>2, <2>2, <2>3
<1>6. \A k \in P : \E i \in P : Cardinality(before(i)) = k - 1
    <2> DEFINE Q == 0 .. (n - 1)
    <2>1. IsFiniteSet(Q) /\ Cardinality(Q) = n
        BY FS_Interval
    <2>2. rank \in [P -> Q]
        <3> HIDE DEF before, P, Q
        <3> QED BY <1>4 DEF Q
    <2>3. \A i, j \in P : rank[i] = rank[j] => i = j
        <3> SUFFICES ASSUME NEW i \in P, NEW j \in P, rank[i] = rank[j], i # j PROVE FALSE
            OBVIOUS
        <3>1. <<i, j>> \in first \/ <<j, i>> \in first
            BY DEF OrdersPositions
        <3>2. rank[i] = Cardinality(before(i)) /\ rank[j] = Cardinality(before(j))
            OBVIOUS
        <3>3. rank[i] < rank[j] \/ rank[j] < rank[i]
            <4> HIDE DEF rank, before
            <4> QED BY <1>5, <3>1, <3>2
        <3>4. rank[i] \in Nat /\ rank[j] \in Nat
            <4> HIDE DEF rank
            <4> QED BY <2>2
        <3> HIDE DEF rank
        <3> QED BY <3>3, <3>4
    <2>4. \A i \in P : rank[i] = Cardinality(before(i))
        OBVIOUS
    <2> HIDE DEF rank, before, Q
    <2>5. rank \in Injection(P, Q)
        <3> HIDE DEF P
        <3> QED BY <2>2, <2>3 DEF Injection, IsInjective
    <2>6. rank \in Surjection(P, Q)
        <3> HIDE DEF P
        <3> QED BY <1>1, <2>1, <2>5, FS_Injection
    <2> TAKE k \in P
    <2>7. k - 1 \in Q
        BY DEF Q
    <2>8. \E i \in P : rank[i] = k - 1
        <3> DEFINE q == k - 1
        <3>1. q \in Q
            BY <2>7
        <3> HIDE DEF q, P
        <3>2. \E i \in P : rank[i] = q
            BY <2>6, <3>1 DEF Surjection
        <3> QED BY <3>2 DEF q
    <2> QED BY <2>4, <2>8
<1> HIDE DEF before
<1> QED BY <1>4, <1>5, <1>6 DEF before

(* pos says which position of s each one of its arrangement is. *)
Arranges(pos, s, first) ==
    /\ pos \in [1 .. Len(s) -> 1 .. Len(s)]
    /\ \A i \in 1 .. Len(s) : \E k \in 1 .. Len(s) : pos[k] = i
    /\ \A k \in 1 .. Len(s) : Arranged(s, first)[k] = s[pos[k]]
    /\ \A k, l \in 1 .. Len(s) : k < l => <<pos[k], pos[l]>> \in first

(* An arrangement has all elements, in the order. *)
LEMMA ArrangedFacts ==
    ASSUME NEW T, NEW s \in Seq(T), NEW first, OrdersPositions(first, Len(s))
    PROVE  /\ Arranged(s, first) \in Seq(T) /\ Len(Arranged(s, first)) = Len(s)
           /\ \E pos : Arranges(pos, s, first)
<1> DEFINE n == Len(s)
           place(i) == Cardinality(Before(i, n, first))
           pos == [k \in 1 .. n |-> CHOOSE i \in 1 .. n : place(i) = k - 1]
<1>1. n \in Nat /\ DOMAIN s = 1 .. n /\ \A i \in 1 .. n : s[i] \in T
    OBVIOUS
<1>2. /\ \A i \in 1 .. n : place(i) \in 0 .. (n - 1)
      /\ \A i, j \in 1 .. n : <<i, j>> \in first => place(i) < place(j)
      /\ \A k \in 1 .. n : \E i \in 1 .. n : place(i) = k - 1
    <2> HIDE DEF n
    <2> QED BY <1>1, PlaceOfEach
<1>3. Arranged(s, first) = [k \in 1 .. n |-> s[pos[k]]]
    <2>1. Arranged(s, first) = [k \in 1 .. n |-> s[CHOOSE i \in 1 .. n : place(i) = k - 1]]
        BY <1>1 DEF Arranged, Before
    <2>2. \A k \in 1 .. n : pos[k] = CHOOSE i \in 1 .. n : place(i) = k - 1
        OBVIOUS
    <2> HIDE DEF pos, n, place
    <2> QED BY <2>1, <2>2
<1>4. \A k \in 1 .. n : pos[k] \in 1 .. n /\ place(pos[k]) = k - 1
    <2> TAKE k \in 1 .. n
    <2>1. pos[k] = CHOOSE i \in 1 .. n : place(i) = k - 1
        OBVIOUS
    <2> HIDE DEF pos, n, place
    <2>2. \E i \in 1 .. n : place(i) = k - 1
        BY <1>2
    <2> QED BY <2>1, <2>2
<1>5. pos \in [1 .. n -> 1 .. n]
    <2>1. pos = [k \in 1 .. n |-> pos[k]]
        OBVIOUS
    <2> HIDE DEF pos
    <2> QED BY <1>4, <2>1
<1> HIDE DEF pos
<1>6. Arranged(s, first) \in Seq(T) /\ Len(Arranged(s, first)) = n
    <2>1. \A k \in 1 .. n : s[pos[k]] \in T
        BY <1>1, <1>4
    <2>2. [k \in 1 .. n |-> s[pos[k]]] \in [1 .. n -> T]
        BY <2>1
    <2>3. [k \in 1 .. n |-> s[pos[k]]] \in Seq(T)
        <3> HIDE DEF n
        <3> QED BY <1>1, <2>2
    <2>4. DOMAIN Arranged(s, first) = 1 .. n
        BY <1>3
    <2>5. Arranged(s, first) \in Seq(T)
        BY <1>3, <2>3
    <2> HIDE DEF n
    <2> QED BY <1>1, <2>4, <2>5, LenProperties
<1>7. \A i \in 1 .. n : \E k \in 1 .. n : pos[k] = i
    <2> TAKE i \in 1 .. n
    <2> DEFINE k == place(i) + 1
    <2>1. k \in 1 .. n /\ k - 1 = place(i)
        <3>1. place(i) \in 0 .. (n - 1)
            BY <1>2
        <3> HIDE DEF place, n
        <3> QED BY <1>1, <3>1
    <2> HIDE DEF k
    <2>2. pos[k] \in 1 .. n /\ place(pos[k]) = place(i)
        BY <1>4, <2>1
    <2>3. pos[k] # i => place(pos[k]) < place(i) \/ place(i) < place(pos[k])
        <3> DEFINE j == pos[k]
        <3>1. j \in 1 .. n
            BY <2>2
        <3> HIDE DEF j
        <3>2. j # i => <<j, i>> \in first \/ <<i, j>> \in first
            BY <3>1 DEF OrdersPositions
        <3>3. j # i => place(j) < place(i) \/ place(i) < place(j)
            <4> HIDE DEF place, n
            <4> QED BY <1>2, <3>1, <3>2
        <3> QED BY <3>3 DEF j
    <2>4. place(i) \in Nat
        <3>1. place(i) \in 0 .. (n - 1)
            BY <1>2
        <3> HIDE DEF place, n
        <3> QED BY <3>1
    <2> HIDE DEF place, n
    <2> QED BY <2>1, <2>2, <2>3, <2>4
<1>8. ASSUME NEW k \in 1 .. n, NEW l \in 1 .. n, k < l
      PROVE  <<pos[k], pos[l]>> \in first
    <2> DEFINE i == pos[k]
               j == pos[l]
    <2>1. i \in 1 .. n /\ j \in 1 .. n /\ place(i) = k - 1 /\ place(j) = l - 1
        BY <1>4
    <2> HIDE DEF i, j
    <2>2. i # j
        <3> HIDE DEF place, n
        <3> QED BY <1>1, <1>8, <2>1
    <2>3. <<i, j>> \in first \/ <<j, i>> \in first
        BY <2>1, <2>2 DEF OrdersPositions
    <2>4. ~(<<j, i>> \in first)
        <3>1. SUFFICES ASSUME <<j, i>> \in first PROVE FALSE
            OBVIOUS
        <3>2. place(j) < place(i)
            <4> HIDE DEF place, n
            <4> QED BY <1>2, <2>1, <3>1
        <3> HIDE DEF place, n
        <3> QED BY <1>1, <1>8, <2>1, <3>2
    <2> QED BY <2>3, <2>4 DEF i, j
<1>9. Arranges(pos, s, first)
    <2>1. \A k \in 1 .. n : Arranged(s, first)[k] = s[pos[k]]
        BY <1>3
    <2> QED BY <1>5, <1>7, <1>8, <2>1 DEF Arranges
<1> QED BY <1>6, <1>9

-----------------------------------------------------------------------------
(* Parts of a list                                                         *)

(* What is right at 0 and stays right is right up to N. *)
LEMMA NoneWrong ==
    ASSUME NEW N \in Nat, NEW wrong \in SUBSET (0 .. N), 0 \notin wrong,
           \A n \in 1 .. N : n - 1 \notin wrong => n \notin wrong
    PROVE  wrong = {}
<1>1. SUFFICES ASSUME wrong # {} PROVE FALSE
    OBVIOUS
<1>2. PICK n \in wrong : \A k \in wrong : n <= k
    <2>1. wrong \in SUBSET Nat
        OBVIOUS
    <2> QED BY <1>1, <2>1, LeastExists
<1>3. n \in 1 .. N /\ n - 1 \notin wrong
    BY <1>2
<1> QED BY <1>3

(* Positions whose order is the order of the elements. *)
Ordered(s, before) == \A i, j \in 1 .. Len(s) : i < j => <<s[i], s[j]>> \in before

(* u consists of some of the first n elements of s, in order. *)
PartOf(u, n, s, T, before) ==
    /\ u \in Seq(T)
    /\ \A k \in 1 .. Len(u) : \E i \in 1 .. n : u[k] = s[i]
    /\ Ordered(u, before)

(* With the next element or without it, a part is a part. *)
LEMMA PartGrows ==
    ASSUME NEW T, NEW s \in Seq(T), NEW before, Ordered(s, before),
           NEW n \in 1 .. Len(s), NEW u, PartOf(u, n - 1, s, T, before)
    PROVE  /\ PartOf(u, n, s, T, before)
           /\ PartOf(Append(u, s[n]), n, s, T, before)
           /\ Elements(Append(u, s[n])) = Elements(u) \cup {s[n]}
<1>1. /\ u \in Seq(T) /\ s[n] \in T /\ Len(u) \in Nat /\ Len(s) \in Nat /\ n \in Nat
      /\ DOMAIN u = 1 .. Len(u)
    BY DEF PartOf
<1>2. PartOf(u, n, s, T, before)
    <2>1. \A i \in 1 .. (n - 1) : i \in 1 .. n
        BY <1>1
    <2> QED BY <2>1 DEF PartOf
<1> DEFINE v == Append(u, s[n])
<1>3. /\ v \in Seq(T) /\ Len(v) = Len(u) + 1 /\ v[Len(u) + 1] = s[n]
      /\ \A k \in 1 .. Len(u) : v[k] = u[k]
      /\ DOMAIN v = 1 .. (Len(u) + 1)
    BY <1>1
<1> HIDE DEF v
<1>4. \A k \in 1 .. Len(v) : \E i \in 1 .. n : v[k] = s[i]
    <2> TAKE k \in 1 .. Len(v)
    <2>1. k \in 1 .. Len(u) \/ k = Len(u) + 1
        BY <1>1, <1>3
    <2>2. CASE k \in 1 .. Len(u)
        BY <1>2, <1>3, <2>2 DEF PartOf
    <2>3. CASE k = Len(u) + 1
        BY <1>1, <1>3, <2>3
    <2> QED BY <2>1, <2>2, <2>3
<1>5. Ordered(v, before)
    <2> SUFFICES ASSUME NEW k \in 1 .. Len(v), NEW l \in 1 .. Len(v), k < l
                 PROVE  <<v[k], v[l]>> \in before
        BY DEF Ordered
    <2>1. k \in 1 .. Len(u) /\ (l \in 1 .. Len(u) \/ l = Len(u) + 1)
        BY <1>1, <1>3
    <2>2. CASE l \in 1 .. Len(u)
        BY <1>3, <2>1, <2>2 DEF PartOf, Ordered
    <2>3. CASE l = Len(u) + 1
        <3>1. PICK i \in 1 .. (n - 1) : u[k] = s[i]
            BY <2>1 DEF PartOf
        <3>2. <<s[i], s[n]>> \in before
            BY <1>1, <3>1 DEF Ordered
        <3> QED BY <1>3, <2>1, <2>3, <3>1, <3>2
    <2> QED BY <2>1, <2>2, <2>3
<1>6. PartOf(v, n, s, T, before)
    BY <1>3, <1>4, <1>5 DEF PartOf
<1>7. Elements(v) = Elements(u) \cup {s[n]}
    <2>1. ASSUME NEW k \in DOMAIN v PROVE v[k] \in Elements(u) \cup {s[n]}
        <3>1. k \in 1 .. Len(u) \/ k = Len(u) + 1
            BY <1>1, <1>3
        <3> QED BY <1>1, <1>3, <3>1 DEF Elements
    <2>2. ASSUME NEW k \in DOMAIN u PROVE u[k] \in Elements(v)
        <3>1. k \in DOMAIN v /\ v[k] = u[k]
            BY <1>1, <1>3
        <3> QED BY <3>1 DEF Elements
    <2>3. s[n] \in Elements(v)
        <3>1. Len(u) + 1 \in DOMAIN v
            BY <1>1, <1>3
        <3> QED BY <1>3, <3>1 DEF Elements
    <2> QED BY <2>1, <2>2, <2>3 DEF Elements
<1> QED BY <1>2, <1>6, <1>7 DEF v

(* Nothing is a part. *)
LEMMA NoPart ==
    ASSUME NEW T, NEW s, NEW before
    PROVE  PartOf(<<>>, 0, s, T, before)
<1>1. <<>> \in Seq(T) /\ Len(<<>>) = 0
    OBVIOUS
<1> QED BY <1>1 DEF PartOf, Ordered

(* A filter keeps all that are chosen, in their order. *)
LEMMA ChosenKeeps ==
    ASSUME NEW T, NEW s \in Seq(T), NEW A, NEW before, Ordered(s, before)
    PROVE  /\ PartOf(Chosen(s, A), Len(s), s, T, before)
           /\ Elements(Chosen(s, A)) = Elements(s) \cap A
<1> DEFINE N == Len(s)
<1>1. N \in Nat /\ IsSeq(s) /\ DOMAIN s = 1 .. N
    BY DEF IsSeq
<1>2. PICK kept : /\ Chosen(s, A) = kept[N]
                  /\ \A n \in 0 .. N : kept[n] = IF n = 0 THEN <<>>
                                                 ELSE IF s[n] \in A THEN Append(kept[n - 1], s[n])
                                                 ELSE kept[n - 1]
    BY <1>1, ChosenUnfolds
<1> DEFINE right(n) == /\ PartOf(kept[n], n, s, T, before)
                       /\ Elements(kept[n]) = {s[i] : i \in 1 .. n} \cap A
           wrong == {n \in 0 .. N : ~right(n)}
<1>3. right(0)
    <2>1. kept[0] = <<>>
        BY <1>1, <1>2
    <2>2. Elements(<<>>) = {} /\ {s[i] : i \in 1 .. 0} = {}
        BY DEF Elements
    <2> QED BY <2>1, <2>2, NoPart
<1>4. ASSUME NEW n \in 1 .. N, right(n - 1)
      PROVE  right(n)
    <2> HIDE DEF N
    <2>1. n \in 0 .. N /\ n # 0
        BY <1>1
    <2>2. kept[n] = IF s[n] \in A THEN Append(kept[n - 1], s[n]) ELSE kept[n - 1]
        BY <1>2, <2>1
    <2> DEFINE u == kept[n - 1]
    <2>3. /\ PartOf(u, n, s, T, before)
          /\ PartOf(Append(u, s[n]), n, s, T, before)
          /\ Elements(Append(u, s[n])) = Elements(u) \cup {s[n]}
        <3>1. PartOf(u, n - 1, s, T, before)
            BY <1>4
        <3> HIDE DEF u
        <3> QED BY <3>1, PartGrows DEF N
    <2>4. {s[i] : i \in 1 .. n} = {s[i] : i \in 1 .. (n - 1)} \cup {s[n]}
        <3>1. \A i : i \in 1 .. n <=> i \in 1 .. (n - 1) \/ i = n
            BY <1>1
        <3> QED BY <3>1
    <2>5. Elements(u) = {s[i] : i \in 1 .. (n - 1)} \cap A
        BY <1>4
    <2> HIDE DEF u
    <2>6. kept[n] = IF s[n] \in A THEN Append(u, s[n]) ELSE u
        BY <2>2 DEF u
    <2> QED BY <2>3, <2>4, <2>5, <2>6
<1> HIDE DEF right
<1>5. wrong = {}
    <2>1. wrong \in SUBSET (0 .. N) /\ 0 \notin wrong
        BY <1>3
    <2>2. \A n \in 1 .. N : n - 1 \notin wrong => n \notin wrong
        <3> TAKE n \in 1 .. N
        <3>1. n - 1 \in 0 .. N
            BY <1>1
        <3> QED BY <1>4, <3>1
    <2> HIDE DEF wrong, N
    <2> QED BY <1>1, <2>1, <2>2, NoneWrong
<1>6. right(N)
    <2>1. N \in 0 .. N
        BY <1>1
    <2> QED BY <1>5, <2>1
<1>7. Elements(s) = {s[i] : i \in 1 .. N}
    BY <1>1 DEF Elements
<1>8. PartOf(kept[N], N, s, T, before) /\ Elements(kept[N]) = {s[i] : i \in 1 .. N} \cap A
    BY <1>6 DEF right
<1> QED BY <1>2, <1>7, <1>8

-----------------------------------------------------------------------------
(* Sizes and budgets                                                       *)

HasBytes(T) == \A u \in T : u.bytes \in Nat

(* Sizes of the first n units, joined. *)
Sizes(f, units, separator) ==
    /\ Joined(units, separator) = f[Len(units)]
    /\ \A n \in 0 .. Len(units) :
         f[n] = IF n = 0 THEN 0 ELSE f[n - 1] + units[n].bytes + (IF n > 1 THEN separator ELSE 0)

(* There are such sizes. *)
LEMMA SizesExist ==
    ASSUME NEW T, HasBytes(T), NEW units \in Seq(T), NEW separator \in Nat
    PROVE  \E f : Sizes(f, units, separator)
<1> DEFINE N == Len(units)
           adds(n) == units[n].bytes + (IF n > 1 THEN separator ELSE 0)
           body(f, n) == IF n = 0 THEN 0
                         ELSE f[n - 1] + units[n].bytes + (IF n > 1 THEN separator ELSE 0)
           total == CHOOSE f : f = [n \in 0 .. N |-> body(f, n)]
<1>1. N \in Nat /\ \A n \in 1 .. N : units[n].bytes \in Nat /\ adds(n) \in Nat
    BY DEF HasBytes
<1>2. Joined(units, separator) = total[N]
    BY DEF Joined
<1>3. \E f : f = [n \in 0 .. N |-> body(f, n)]
    <2> DEFINE next == [n \in 1 .. N |-> [k \in Nat |-> k + adds(n)]]
    <2> HIDE DEF N
    <2>1. next \in [1 .. N -> [Nat -> Nat]] /\ \A n \in 1 .. N, k \in Nat : next[n][k] = k + adds(n)
        <3> HIDE DEF adds
        <3> QED BY <1>1
    <2> HIDE DEF next
    <2>2. PICK g : Iterates(g, N, Nat, 0, next)
        BY <1>1, <2>1, IterationExists
    <2>3. \A n \in 0 .. N : g[n] = body(g, n)
        <3> TAKE n \in 0 .. N
        <3>1. CASE n = 0
            BY <2>2, <3>1 DEF Iterates
        <3>2. CASE n # 0
            <4>1. n \in 1 .. N /\ n - 1 \in 0 .. N
                BY <1>1, <3>2
            <4>2. g[n - 1] \in Nat /\ g[n] = next[n][g[n - 1]]
                BY <2>2, <4>1 DEF Iterates
            <4>3. g[n] = g[n - 1] + adds(n)
                BY <2>1, <4>1, <4>2
            <4> QED BY <1>1, <3>2, <4>1, <4>2, <4>3
        <3> QED BY <3>1, <3>2
    <2>4. g = [n \in 0 .. N |-> g[n]]
        BY <2>2 DEF Iterates
    <2>5. g = [n \in 0 .. N |-> body(g, n)]
        <3> HIDE DEF body
        <3> QED BY <2>3, <2>4
    <2> QED BY <2>5
<1>4. total = [n \in 0 .. N |-> body(total, n)]
    <2> HIDE DEF N, body
    <2> QED BY <1>3
<1> HIDE DEF total
<1>5. \A n \in 0 .. N : total[n] = body(total, n)
    BY <1>4
<1> QED BY <1>2, <1>5 DEF Sizes

(* One more unit adds its size, and a separator unless it is the first. *)
LEMMA JoinedAppend ==
    ASSUME NEW T, HasBytes(T), NEW units \in Seq(T), NEW separator \in Nat, NEW unit \in T
    PROVE  /\ Joined(Append(units, unit), separator)
                = Joined(units, separator) + unit.bytes + (IF units = <<>> THEN 0 ELSE separator)
           /\ Joined(<<>>, separator) = 0
<1> DEFINE more == Append(units, unit)
           N == Len(units)
<1>1. /\ more \in Seq(T) /\ Len(more) = N + 1 /\ more[N + 1] = unit
      /\ \A n \in 1 .. N : more[n] = units[n]
      /\ N \in Nat
      /\ N = 0 <=> units = <<>>
    OBVIOUS
<1> HIDE DEF more
<1>2. PICK f : Sizes(f, units, separator)
    BY SizesExist
<1>3. PICK g : Sizes(g, more, separator)
    BY <1>1, SizesExist
<1> HIDE DEF N
<1>4. \A n \in 0 .. N :
          f[n] = IF n = 0 THEN 0 ELSE f[n - 1] + units[n].bytes + (IF n > 1 THEN separator ELSE 0)
    BY <1>2 DEF Sizes, N
<1>5. \A n \in 0 .. (N + 1) :
          g[n] = IF n = 0 THEN 0 ELSE g[n - 1] + more[n].bytes + (IF n > 1 THEN separator ELSE 0)
    BY <1>1, <1>3 DEF Sizes
<1> DEFINE wrong == {n \in 0 .. N : f[n] # g[n]}
<1>6. wrong = {}
    <2>1. wrong \in SUBSET (0 .. N) /\ 0 \notin wrong
        BY <1>1, <1>4, <1>5
    <2>2. \A n \in 1 .. N : n - 1 \notin wrong => n \notin wrong
        <3> SUFFICES ASSUME NEW n \in 1 .. N, n - 1 \notin wrong PROVE n \notin wrong
            OBVIOUS
        <3>1. n \in 0 .. N /\ n \in 0 .. (N + 1) /\ n # 0 /\ n - 1 \in 0 .. N
            BY <1>1
        <3>2. f[n - 1] = g[n - 1]
            BY <3>1
        <3>3. f[n] = f[n - 1] + units[n].bytes + (IF n > 1 THEN separator ELSE 0)
            BY <1>4, <3>1
        <3>4. g[n] = g[n - 1] + more[n].bytes + (IF n > 1 THEN separator ELSE 0)
            BY <1>5, <3>1
        <3>5. f[n] = g[n]
            BY <1>1, <3>2, <3>3, <3>4
        <3> QED BY <3>5
    <2> HIDE DEF wrong
    <2> QED BY <1>1, <2>1, <2>2, NoneWrong
<1>7. f[N] = g[N]
    <2>1. N \in 0 .. N
        BY <1>1
    <2> QED BY <1>6, <2>1
<1>8. g[N + 1] = g[N] + unit.bytes + (IF units = <<>> THEN 0 ELSE separator)
    <2> DEFINE k == N + 1
    <2>1. k \in 0 .. (N + 1) /\ k # 0 /\ k - 1 = N /\ (k > 1 <=> units # <<>>)
        BY <1>1
    <2>2. more[k] = unit
        BY <1>1
    <2> HIDE DEF k
    <2>3. g[k] = g[k - 1] + more[k].bytes + (IF k > 1 THEN separator ELSE 0)
        BY <1>5, <2>1
    <2>4. g[k] = g[N] + unit.bytes + (IF units = <<>> THEN 0 ELSE separator)
        BY <2>1, <2>2, <2>3
    <2> QED BY <2>4 DEF k
<1>9. Joined(units, separator) = f[N] /\ Joined(more, separator) = g[N + 1]
    BY <1>1, <1>2, <1>3 DEF Sizes, N
<1>10. Joined(<<>>, separator) = 0
    <2>1. <<>> \in Seq(T) /\ Len(<<>>) = 0 /\ 0 \in 0 .. 0
        OBVIOUS
    <2>2. PICK h : Sizes(h, <<>>, separator)
        BY <2>1, SizesExist
    <2> QED BY <2>1, <2>2 DEF Sizes
<1> QED BY <1>7, <1>8, <1>9, <1>10 DEF more

(* What is kept of the first n units. *)
GreedyRun(kept, units, separator, budget, T) ==
    /\ Greedy(units, separator, budget) = kept[Len(units)]
    /\ kept[0] = Empty
    /\ \A n \in 0 .. Len(units) : kept[n] \in [units : Seq(T), bytes : Nat]
    /\ \A n \in 1 .. Len(units) :
         /\ Fits(kept[n - 1], units[n], separator, budget) =>
              /\ kept[n].units = Append(kept[n - 1].units, units[n])
              /\ kept[n].bytes = kept[n - 1].bytes + units[n].bytes
                                   + (IF kept[n - 1].units = <<>> THEN 0 ELSE separator)
         /\ ~Fits(kept[n - 1], units[n], separator, budget) => kept[n] = kept[n - 1]

(* There is such a run. *)
LEMMA GreedyRunExists ==
    ASSUME NEW T, HasBytes(T), NEW units \in Seq(T), NEW separator \in Nat, NEW budget \in Nat
    PROVE  \E kept : GreedyRun(kept, units, separator, budget, T)
<1> DEFINE N == Len(units)
           S == [units : Seq(T), bytes : Nat]
           step(k, n) ==
               IF Fits(k, units[n], separator, budget)
               THEN [units |-> Append(k.units, units[n]),
                     bytes |-> k.bytes + units[n].bytes
                                 + (IF k.units = <<>> THEN 0 ELSE separator)]
               ELSE k
           body(f, n) == IF n = 0 THEN Empty ELSE step(f[n - 1], n)
           kept == CHOOSE f : f = [n \in 0 .. N |-> body(f, n)]
<1>1. N \in Nat /\ \A n \in 1 .. N : units[n] \in T /\ units[n].bytes \in Nat
    BY DEF HasBytes
<1>2. Greedy(units, separator, budget) = kept[N]
    BY DEF Greedy
<1>3. Empty \in S
    BY DEF Empty
<1>4. \A k \in S, n \in 1 .. N : step(k, n) \in S
    <2> TAKE k \in S, n \in 1 .. N
    <2>1. k.units \in Seq(T) /\ k.bytes \in Nat /\ Append(k.units, units[n]) \in Seq(T)
        BY <1>1
    <2>2. k.bytes + units[n].bytes + (IF k.units = <<>> THEN 0 ELSE separator) \in Nat
        BY <1>1, <2>1
    <2> QED BY <2>1, <2>2
<1> HIDE DEF step, S, N
<1>5. PICK g : /\ g = [n \in 0 .. N |-> body(g, n)]
               /\ g \in [0 .. N -> S]
    <2> DEFINE next == [n \in 1 .. N |-> [k \in S |-> step(k, n)]]
    <2>1. next \in [1 .. N -> [S -> S]] /\ \A n \in 1 .. N, k \in S : next[n][k] = step(k, n)
        BY <1>4
    <2> HIDE DEF next
    <2>2. PICK g : Iterates(g, N, S, Empty, next)
        BY <1>1, <1>3, <2>1, IterationExists
    <2>3. \A n \in 0 .. N : g[n] = body(g, n)
        <3> TAKE n \in 0 .. N
        <3>1. CASE n = 0
            BY <2>2, <3>1 DEF Iterates
        <3>2. CASE n # 0
            <4>1. n \in 1 .. N /\ n - 1 \in 0 .. N
                BY <1>1, <3>2
            <4>2. g[n - 1] \in S /\ g[n] = next[n][g[n - 1]]
                BY <2>2, <4>1 DEF Iterates
            <4> QED BY <2>1, <3>2, <4>1, <4>2
        <3> QED BY <3>1, <3>2
    <2>4. g \in [0 .. N -> S] /\ g = [n \in 0 .. N |-> g[n]]
        BY <2>2 DEF Iterates
    <2>5. g = [n \in 0 .. N |-> body(g, n)]
        <3> HIDE DEF body
        <3> QED BY <2>3, <2>4
    <2> QED BY <2>4, <2>5
<1>6. kept = [n \in 0 .. N |-> body(kept, n)]
    <2> HIDE DEF body
    <2> QED BY <1>5
<1> HIDE DEF kept
<1>7. \A n \in 0 .. N : kept[n] = body(kept, n)
    BY <1>6
<1> DEFINE wrong == {n \in 0 .. N : kept[n] \notin S}
<1>8. wrong = {}
    <2>1. wrong \in SUBSET (0 .. N) /\ 0 \notin wrong
        BY <1>1, <1>3, <1>7
    <2>2. \A n \in 1 .. N : n - 1 \notin wrong => n \notin wrong
        <3> SUFFICES ASSUME NEW n \in 1 .. N, n - 1 \notin wrong PROVE n \notin wrong
            OBVIOUS
        <3>1. n \in 0 .. N /\ n # 0 /\ n - 1 \in 0 .. N
            BY <1>1
        <3>2. kept[n] = step(kept[n - 1], n)
            BY <1>7, <3>1
        <3>3. kept[n] \in S
            BY <1>4, <3>1, <3>2
        <3> QED BY <3>3
    <2> HIDE DEF wrong
    <2> QED BY <1>1, <2>1, <2>2, NoneWrong
<1>9. kept[0] = Empty
    <2>1. 0 \in 0 .. N
        BY <1>1
    <2>2. kept[0] = body(kept, 0)
        BY <1>7, <2>1
    <2> QED BY <2>2
<1>10. ASSUME NEW n \in 1 .. N
       PROVE  /\ Fits(kept[n - 1], units[n], separator, budget) =>
                   /\ kept[n].units = Append(kept[n - 1].units, units[n])
                   /\ kept[n].bytes = kept[n - 1].bytes + units[n].bytes
                                        + (IF kept[n - 1].units = <<>> THEN 0 ELSE separator)
              /\ ~Fits(kept[n - 1], units[n], separator, budget) => kept[n] = kept[n - 1]
    <2>1. n \in 0 .. N /\ n # 0
        BY <1>1
    <2>2. kept[n] = step(kept[n - 1], n)
        BY <1>7, <2>1
    <2> QED BY <2>2 DEF step
<1>11. GreedyRun(kept, units, separator, budget, T)
    BY <1>2, <1>8, <1>9, <1>10 DEF GreedyRun, S, N
<1> QED BY <1>11

(* What is kept is whole, in the units' order, and within the budget; a    *)
(* unit that fitted when its turn came is kept.                            *)
LEMMA GreedyKeeps ==
    ASSUME NEW T, HasBytes(T), NEW units \in Seq(T), NEW separator \in Nat, NEW budget \in Nat,
           NEW before, Ordered(units, before),
           NEW kept, GreedyRun(kept, units, separator, budget, T), NEW n \in 0 .. Len(units)
    PROVE  /\ PartOf(kept[n].units, n, units, T, before)
           /\ kept[n].bytes \in Nat /\ kept[n].bytes <= budget
           /\ kept[n].bytes = Joined(kept[n].units, separator)
           /\ \A i \in 1 .. n : Fits(kept[i - 1], units[i], separator, budget)
                                  => units[i] \in Elements(kept[n].units)
<1> DEFINE N == Len(units)
           fits(i) == Fits(kept[i - 1], units[i], separator, budget)
           right(k) == /\ PartOf(kept[k].units, k, units, T, before)
                       /\ kept[k].bytes <= budget
                       /\ kept[k].bytes = Joined(kept[k].units, separator)
                       /\ \A i \in 1 .. k : fits(i) => units[i] \in Elements(kept[k].units)
           wrong == {k \in 0 .. N : ~right(k)}
<1>1. N \in Nat
    OBVIOUS
<1>2. \A k \in 0 .. N : kept[k] \in [units : Seq(T), bytes : Nat]
    BY DEF GreedyRun
<1>3. right(0)
    <2>1. kept[0] = Empty
        BY DEF GreedyRun
    <2>2. kept[0].units = <<>> /\ kept[0].bytes = 0
        BY <2>1 DEF Empty
    <2>3. Joined(<<>>, separator) = 0
        <3>1. ASSUME NEW unit \in T PROVE Joined(<<>>, separator) = 0
            BY JoinedAppend
        <3>2. CASE T = {}
            <4> DEFINE U == {[bytes |-> 0]}
            <4>1. HasBytes(U) /\ [bytes |-> 0] \in U
                BY DEF HasBytes
            <4>2. <<>> \in Seq(U)
                OBVIOUS
            <4> HIDE DEF U
            <4> QED BY <4>1, <4>2, JoinedAppend
        <3> QED BY <3>1, <3>2
    <2>4. PartOf(<<>>, 0, units, T, before)
        BY NoPart
    <2> QED BY <2>2, <2>3, <2>4
<1>4. ASSUME NEW k \in 1 .. N, right(k - 1)
      PROVE  right(k)
    <2>1. units[k] \in T /\ units[k].bytes \in Nat /\ k - 1 \in 0 .. N /\ k \in 0 .. N
        BY DEF HasBytes
    <2> DEFINE old == kept[k - 1]
    <2>2. /\ fits(k) =>
               /\ kept[k].units = Append(old.units, units[k])
               /\ kept[k].bytes = old.bytes + units[k].bytes
                                    + (IF old.units = <<>> THEN 0 ELSE separator)
          /\ ~fits(k) => kept[k] = old
        BY DEF GreedyRun
    <2>3. /\ PartOf(old.units, k - 1, units, T, before)
          /\ old.bytes <= budget /\ old.bytes = Joined(old.units, separator)
          /\ \A i \in 1 .. (k - 1) : fits(i) => units[i] \in Elements(old.units)
        BY <1>4
    <2>4. old.units \in Seq(T) /\ old.bytes \in Nat
        BY <1>2, <2>1
    <2>5. \A i \in 1 .. k : i \in 1 .. (k - 1) \/ i = k
        BY <1>1
    <2>6. fits(k) => old.bytes + units[k].bytes + (IF old.units = <<>> THEN 0 ELSE separator) <= budget
        BY DEF Fits
    <2> HIDE DEF old, fits
    <2> DEFINE u == old.units
    <2>7. /\ PartOf(u, k, units, T, before)
          /\ PartOf(Append(u, units[k]), k, units, T, before)
          /\ Elements(Append(u, units[k])) = Elements(u) \cup {units[k]}
        <3>1. PartOf(u, k - 1, units, T, before)
            BY <2>3
        <3> HIDE DEF u
        <3> QED BY <3>1, PartGrows
    <2>8. Joined(Append(u, units[k]), separator)
            = Joined(u, separator) + units[k].bytes + (IF u = <<>> THEN 0 ELSE separator)
        BY <2>1, <2>4, JoinedAppend
    <2>9. CASE fits(k)
        <3>1. kept[k].units = Append(u, units[k])
            BY <2>2, <2>9
        <3>2. kept[k].bytes = old.bytes + units[k].bytes + (IF u = <<>> THEN 0 ELSE separator)
            BY <2>2, <2>9
        <3>3. kept[k].bytes <= budget
            BY <2>6, <2>9, <3>2
        <3>4. kept[k].bytes = Joined(kept[k].units, separator)
            BY <2>3, <2>8, <3>1, <3>2
        <3>5. \A i \in 1 .. k : fits(i) => units[i] \in Elements(kept[k].units)
            BY <2>3, <2>5, <2>7, <3>1
        <3>6. PartOf(kept[k].units, k, units, T, before)
            BY <2>7, <3>1
        <3> QED BY <3>3, <3>4, <3>5, <3>6
    <2>10. CASE ~fits(k)
        <3>1. kept[k] = old
            BY <2>2, <2>10
        <3>2. \A i \in 1 .. k : fits(i) => units[i] \in Elements(kept[k].units)
            BY <2>3, <2>5, <2>10, <3>1
        <3> QED BY <2>3, <2>7, <3>1, <3>2
    <2> QED BY <2>9, <2>10
<1> HIDE DEF right
<1>5. wrong = {}
    <2>1. wrong \in SUBSET (0 .. N) /\ 0 \notin wrong
        BY <1>3
    <2>2. \A k \in 1 .. N : k - 1 \notin wrong => k \notin wrong
        <3> TAKE k \in 1 .. N
        <3>1. k - 1 \in 0 .. N
            BY <1>1
        <3> QED BY <1>4, <3>1
    <2> HIDE DEF wrong, N
    <2> QED BY <1>1, <2>1, <2>2, NoneWrong
<1>6. right(n)
    BY <1>5
<1> QED BY <1>2, <1>6 DEF right

(* B has what is kept of the units before the i-th, and none of the others. *)
Divides(B, i, units, kept) ==
    \A j \in 1 .. Len(units) :
        units[j] \in Elements(kept[Len(units)].units) =>
            /\ j < i => units[j] \in B
            /\ j > i => units[j] \notin B

(* One that is left out did not fit beside those that are kept and go      *)
(* before it.                                                              *)
LEMMA GreedyLeaves ==
    ASSUME NEW T, HasBytes(T), NEW units \in Seq(T), NEW separator \in Nat, NEW budget \in Nat,
           NEW before, Ordered(units, before),
           NEW kept, GreedyRun(kept, units, separator, budget, T),
           NEW i \in 1 .. Len(units), ~Fits(kept[i - 1], units[i], separator, budget),
           NEW B, Divides(B, i, units, kept)
    PROVE  Chosen(kept[Len(units)].units, B) = kept[i - 1].units
<1> DEFINE N == Len(units)
           fits(k) == Fits(kept[k - 1], units[k], separator, budget)
           part(k) == kept[k].units
           right(k) == Chosen(part(k), B) = IF k < i THEN part(k) ELSE part(i - 1)
           wrong == {k \in 0 .. N : ~right(k)}
<1>1. N \in Nat /\ i \in 1 .. N /\ i - 1 \in 0 .. N /\ N \in 0 .. N /\ ~(N < i)
    OBVIOUS
<1>2. \A k \in 0 .. N : part(k) \in Seq(T)
    BY DEF GreedyRun
<1>3. part(0) = <<>>
    BY DEF GreedyRun, Empty
<1>4. \A k \in 1 .. N : /\ fits(k) => part(k) = Append(part(k - 1), units[k])
                        /\ ~fits(k) => part(k) = part(k - 1)
    BY DEF GreedyRun
<1>5. \A k \in 1 .. N : fits(k) => units[k] \in Elements(part(N))
    BY <1>1, GreedyKeeps
<1>6. ~fits(i)
    OBVIOUS
<1>7. \A j \in 1 .. N : units[j] \in Elements(part(N)) =>
          /\ j < i => units[j] \in B
          /\ j > i => units[j] \notin B
    BY DEF Divides
<1> HIDE DEF fits, part, N
<1>8. right(0)
    BY <1>1, <1>3, ChosenEmpty
<1>9. ASSUME NEW k \in 1 .. N, right(k - 1)
      PROVE  right(k)
    <2>1. k - 1 \in 0 .. N /\ IsSeq(part(k - 1))
        BY <1>1, <1>2 DEF IsSeq
    <2> DEFINE u == part(k - 1)
               x == units[k]
    <2>2. Chosen(Append(u, x), B) = IF x \in B THEN Append(Chosen(u, B), x) ELSE Chosen(u, B)
        <3>1. IsSeq(u)
            BY <2>1
        <3> HIDE DEF u, x
        <3> QED BY <3>1, ChosenAppend
    <2>3. CASE fits(k)
        <3>1. x \in Elements(part(N)) /\ part(k) = Append(u, x) /\ k # i
            BY <1>4, <1>5, <1>6, <2>3
        <3>2. CASE k < i
            <4>1. x \in B /\ k - 1 < i
                BY <1>1, <1>7, <3>1, <3>2
            <4> QED BY <1>9, <2>2, <3>1, <3>2, <4>1
        <3>3. CASE k > i
            <4>1. x \notin B /\ ~(k - 1 < i) /\ ~(k < i)
                BY <1>1, <1>7, <3>1, <3>3
            <4> QED BY <1>9, <2>2, <3>1, <4>1
        <3> QED BY <1>1, <3>1, <3>2, <3>3
    <2>4. CASE ~fits(k)
        <3>1. part(k) = part(k - 1)
            BY <1>4, <2>4
        <3>2. CASE k < i
            <4>1. k - 1 < i
                BY <1>1, <3>2
            <4> QED BY <1>9, <3>1, <3>2, <4>1
        <3>3. CASE k = i
            <4>1. k - 1 < i /\ ~(k < i) /\ k - 1 = i - 1
                BY <1>1, <3>3
            <4> QED BY <1>9, <3>1, <4>1
        <3>4. CASE k > i
            <4>1. ~(k - 1 < i) /\ ~(k < i)
                BY <1>1, <3>4
            <4> QED BY <1>9, <3>1, <4>1
        <3> QED BY <1>1, <3>2, <3>3, <3>4
    <2> QED BY <2>3, <2>4
<1> HIDE DEF right
<1>10. wrong = {}
    <2>1. wrong \in SUBSET (0 .. N) /\ 0 \notin wrong
        BY <1>8
    <2>2. \A k \in 1 .. N : k - 1 \notin wrong => k \notin wrong
        <3> TAKE k \in 1 .. N
        <3>1. k - 1 \in 0 .. N
            BY <1>1
        <3> QED BY <1>9, <3>1
    <2> HIDE DEF wrong
    <2> QED BY <1>1, <2>1, <2>2, NoneWrong
<1>11. right(N)
    BY <1>1, <1>10
<1> QED BY <1>1, <1>11 DEF right, part, N

(* What Greedy returns. *)
LEMMA GreedyFacts ==
    ASSUME NEW T, HasBytes(T), NEW units \in Seq(T), NEW separator \in Nat, NEW budget \in Nat,
           NEW before, Ordered(units, before)
    PROVE  /\ PartOf(Greedy(units, separator, budget).units, Len(units), units, T, before)
           /\ Greedy(units, separator, budget).bytes \in Nat
           /\ Greedy(units, separator, budget).bytes <= budget
           /\ Greedy(units, separator, budget).bytes
                = Joined(Greedy(units, separator, budget).units, separator)
<1>1. PICK kept : GreedyRun(kept, units, separator, budget, T)
    BY GreedyRunExists
<1>2. Greedy(units, separator, budget) = kept[Len(units)] /\ Len(units) \in 0 .. Len(units)
    BY <1>1 DEF GreedyRun
<1> QED BY <1>1, <1>2, GreedyKeeps

(* Of two elements, one at most comes before the other. *)
Strict(before, T) == \A p, q \in T : <<p, q>> \in before => <<q, p>> \notin before

(* What it leaves out. *)
LEMMA GreedyLeftOut ==
    ASSUME NEW T, HasBytes(T), NEW units \in Seq(T), NEW separator \in Nat, NEW budget \in Nat,
           NEW before, Ordered(units, before),
           Strict(before, T),
           NEW i \in 1 .. Len(units), NEW kept, kept = Greedy(units, separator, budget).units,
           units[i] \notin Elements(kept)
    PROVE  Joined(Append(Chosen(kept, {k \in Elements(kept) : <<k, units[i]>> \in before}),
                         units[i]), separator) > budget
<1> DEFINE N == Len(units)
<1>0. PICK B : B = {k \in Elements(kept) : <<k, units[i]>> \in before}
    OBVIOUS
<1>1. PICK run : GreedyRun(run, units, separator, budget, T)
    BY GreedyRunExists
<1>2. /\ N \in 0 .. N /\ i - 1 \in 0 .. N /\ N \in Nat /\ kept = run[N].units
      /\ \A j \in 1 .. N : units[j] \in T
    BY <1>1 DEF GreedyRun
<1>3. ~Fits(run[i - 1], units[i], separator, budget)
    <2>1. Fits(run[i - 1], units[i], separator, budget) => units[i] \in Elements(run[N].units)
        BY <1>1, <1>2, GreedyKeeps
    <2> QED BY <1>2, <2>1
<1>4. \A j \in 1 .. N : units[j] \in Elements(run[N].units) =>
          /\ j < i => units[j] \in B
          /\ j > i => units[j] \notin B
    <2> SUFFICES ASSUME NEW j \in 1 .. N, units[j] \in Elements(run[N].units)
                 PROVE  /\ j < i => units[j] \in B
                        /\ j > i => units[j] \notin B
        OBVIOUS
    <2>1. j < i => <<units[j], units[i]>> \in before
        BY DEF Ordered
    <2>2. j > i => <<units[i], units[j]>> \in before
        BY DEF Ordered
    <2>3. j > i => <<units[j], units[i]>> \notin before
        BY <1>2, <2>2 DEF Strict
    <2>4. units[j] \in Elements(kept)
        BY <1>2
    <2> QED BY <1>0, <2>1, <2>3, <2>4
<1>5. Chosen(kept, B) = run[i - 1].units
    <2>1. Chosen(run[N].units, B) = run[i - 1].units
        <3>1. Divides(B, i, units, run)
            BY <1>4 DEF Divides
        <3> QED BY <1>1, <1>3, <3>1, GreedyLeaves
    <2> QED BY <1>2, <2>1
<1> DEFINE u == run[i - 1].units
           x == units[i]
<1>6. /\ u \in Seq(T) /\ run[i - 1].bytes = Joined(u, separator) /\ x \in T /\ x.bytes \in Nat
      /\ run[i - 1].bytes \in Nat
    <2>1. /\ PartOf(u, i - 1, units, T, before) /\ run[i - 1].bytes = Joined(u, separator)
          /\ run[i - 1].bytes \in Nat
        BY <1>1, <1>2, GreedyKeeps
    <2> HIDE DEF u
    <2> QED BY <1>2, <2>1 DEF PartOf, HasBytes
<1>7. ~(run[i - 1].bytes + x.bytes + (IF u = <<>> THEN 0 ELSE separator) <= budget)
    BY <1>3 DEF Fits
<1> HIDE DEF u, x
<1>8. Joined(Append(u, x), separator)
        = Joined(u, separator) + x.bytes + (IF u = <<>> THEN 0 ELSE separator)
    BY <1>6, JoinedAppend
<1>9. Joined(Append(u, x), separator) > budget
    BY <1>6, <1>7, <1>8
<1>10. Joined(Append(Chosen(kept, B), x), separator) > budget
    BY <1>5, <1>9 DEF u
<1> QED BY <1>0, <1>10 DEF x

-----------------------------------------------------------------------------
(* The rules                                                               *)

(* Rules that were read, each once. *)
RulesRead(rules) ==
    /\ rules \in Seq(Elements(rules))
    /\ \A r \in Elements(rules) : IsRule(r)
    /\ \A i, j \in 1 .. Len(rules) : i < j => rules[i].name # rules[j].name

Comes(rules) == {p \in Elements(rules) \X Elements(rules) : compareRules(p[1], p[2])}

(* Those that match, in their order. *)
LEMMA SortedFacts ==
    ASSUME NEW rules, RulesRead(rules)
    PROVE  /\ sortRules(filterMatchingRules(rules)) \in Seq(Elements(rules))
           /\ Elements(sortRules(filterMatchingRules(rules)))
                = {r \in Elements(rules) : Matching(r, request.paths)}
           /\ Ordered(sortRules(filterMatchingRules(rules)), Comes(rules))
<1> DEFINE T == Elements(rules)
           A == {r \in T : Matching(r, request.paths)}
           names == {p \in T \X T : p[1].name # p[2].name}
           s == filterMatchingRules(rules)
           n == Len(s)
           first == {p \in (DOMAIN s) \X (DOMAIN s) :
                       \/ compareRules(s[p[1]], s[p[2]])
                       \/ ~compareRules(s[p[2]], s[p[1]]) /\ p[1] < p[2]}
<1>1. s = Chosen(rules, A)
    BY DEF filterMatchingRules, Matching
<1>2. rules \in Seq(T) /\ \A r \in T : IsRule(r)
    BY DEF RulesRead
<1>3. Ordered(rules, names)
    <2>1. \A i \in 1 .. Len(rules) : rules[i] \in T
        BY <1>2
    <2> QED BY <2>1 DEF RulesRead, Ordered
<1>4. PartOf(s, Len(rules), rules, T, names) /\ Elements(s) = T \cap A
    <2> HIDE DEF T, A, names
    <2>1. /\ PartOf(Chosen(rules, A), Len(rules), rules, T, names)
          /\ Elements(Chosen(rules, A)) = Elements(rules) \cap A
        BY <1>2, <1>3, ChosenKeeps
    <2> QED BY <1>1, <2>1 DEF T
<1>5. s \in Seq(T) /\ Ordered(s, names) /\ Elements(s) = A
    BY <1>4 DEF PartOf
<1> HIDE DEF s, T
<1>6. n \in Nat /\ DOMAIN s = 1 .. n /\ \A i \in 1 .. n : s[i] \in T /\ IsRule(s[i])
    BY <1>2, <1>5
<1>7. \A i, j \in 1 .. n : i # j => s[i].name # s[j].name
    <2> TAKE i, j \in 1 .. n
    <2>1. i < j => s[i].name # s[j].name
        BY <1>5 DEF Ordered
    <2>2. j < i => s[j].name # s[i].name
        BY <1>5 DEF Ordered
    <2> QED BY <1>6, <2>1, <2>2
<1>8. \A i, j \in 1 .. n : <<i, j>> \in first <=> compareRules(s[i], s[j])
    <2> TAKE i, j \in 1 .. n
    <2>1. <<i, j>> \in first <=>
              \/ compareRules(s[i], s[j])
              \/ ~compareRules(s[j], s[i]) /\ i < j
        BY <1>6
    <2>2. i < j => compareRules(s[i], s[j]) \/ compareRules(s[j], s[i])
        BY <1>6, <1>7, CompareOrders
    <2> QED BY <2>1, <2>2
<1>9. sortRules(s) = Arranged(s, first)
    BY DEF sortRules
<1> HIDE DEF first
<1>10. OrdersPositions(first, n)
    <2>1. ASSUME NEW i \in 1 .. n, NEW j \in 1 .. n, <<i, j>> \in first
          PROVE  <<j, i>> \notin first
        BY <1>6, <1>8, <2>1, CompareOrders
    <2>2. ASSUME NEW i \in 1 .. n, NEW j \in 1 .. n, i # j
          PROVE  <<i, j>> \in first \/ <<j, i>> \in first
        BY <1>6, <1>7, <1>8, <2>2, CompareOrders
    <2>3. ASSUME NEW i \in 1 .. n, NEW j \in 1 .. n, NEW k \in 1 .. n,
                 <<i, j>> \in first, <<j, k>> \in first
          PROVE  <<i, k>> \in first
        BY <1>6, <1>8, <2>3, CompareOrders
    <2> QED BY <2>1, <2>2, <2>3 DEF OrdersPositions
<1> DEFINE t == sortRules(s)
<1>11. t \in Seq(T) /\ Len(t) = n
    BY <1>5, <1>9, <1>10, ArrangedFacts
<1>12. PICK pos : Arranges(pos, s, first)
    BY <1>5, <1>10, ArrangedFacts
<1>13. /\ \A k \in 1 .. n : pos[k] \in 1 .. n /\ t[k] = s[pos[k]]
       /\ \A i \in 1 .. n : \E k \in 1 .. n : pos[k] = i
       /\ \A k, l \in 1 .. n : k < l => <<pos[k], pos[l]>> \in first
    BY <1>9, <1>12 DEF Arranges
<1> HIDE DEF t
<1>14. DOMAIN t = 1 .. n
    BY <1>6, <1>11
<1>15. Elements(t) = Elements(s)
    <2>1. ASSUME NEW k \in 1 .. n PROVE t[k] \in Elements(s)
        <3>1. pos[k] \in 1 .. n /\ t[k] = s[pos[k]]
            BY <1>13
        <3> QED BY <1>6, <3>1 DEF Elements
    <2>2. ASSUME NEW i \in 1 .. n PROVE s[i] \in Elements(t)
        <3>1. PICK k \in 1 .. n : pos[k] = i
            BY <1>13
        <3>2. t[k] = s[i]
            BY <1>13, <3>1
        <3> QED BY <1>14, <3>2 DEF Elements
    <2>3. Elements(t) = {t[k] : k \in 1 .. n} /\ Elements(s) = {s[i] : i \in 1 .. n}
        BY <1>6, <1>14 DEF Elements
    <2> QED BY <2>1, <2>2, <2>3
<1>16. \A k, l \in 1 .. n : k < l => compareRules(t[k], t[l])
    <2> TAKE k, l \in 1 .. n
    <2> DEFINE i == pos[k]
               j == pos[l]
    <2>1. i \in 1 .. n /\ j \in 1 .. n /\ t[k] = s[i] /\ t[l] = s[j] /\ (k < l => <<i, j>> \in first)
        BY <1>13
    <2> HIDE DEF i, j
    <2>2. <<i, j>> \in first <=> compareRules(s[i], s[j])
        BY <1>8, <2>1
    <2> QED BY <2>1, <2>2
<1>17. Ordered(t, Comes(rules))
    <2>1. \A k \in 1 .. n : t[k] \in T
        BY <1>11
    <2> QED BY <1>11, <1>16, <2>1 DEF Ordered, Comes, T
<1> QED BY <1>5, <1>11, <1>15, <1>17 DEF t, s, T

(* What keepRules keeps. *)
LEMMA KeptFacts ==
    ASSUME NEW rules, RulesRead(rules), request.paths \in SUBSET Segmented, NEW kept, kept = keepRules(rules)
    PROVE  /\ kept.bytes \in Nat /\ kept.bytes <= RULES_BUDGET_BYTES
           /\ kept.bytes = Joined(kept.units, 2)
           /\ \A i, j \in DOMAIN kept.units : i < j => compareRules(kept.units[i], kept.units[j])
           /\ \A r \in Elements(kept.units) : r \in Elements(rules) /\ Applies(r, request.paths)
           /\ \A r \in Elements(rules) \ Elements(kept.units) :
                Applies(r, Plain(request.paths)) =>
                    Joined(Append(Chosen(kept.units,
                                         {k \in Elements(kept.units) : compareRules(k, r)}), r), 2)
                      > RULES_BUDGET_BYTES
<1> DEFINE T == Elements(rules)
           s == sortRules(filterMatchingRules(rules))
           comes == Comes(rules)
<1>1. HasBytes(T) /\ RULES_BUDGET_BYTES \in Nat /\ 2 \in Nat
    BY AssemblyAssumption DEF RulesRead, HasBytes, IsRule
<1>2. s \in Seq(T) /\ Ordered(s, comes) /\ Elements(s) = {r \in T : Matching(r, request.paths)}
    BY SortedFacts
<1>3. \A r \in T : IsRule(r) /\ r.rule.globs \in Seq(Segmented)
    BY DEF RulesRead, IsRule
<1>4. \A p, q \in T : <<p, q>> \in comes <=> compareRules(p, q)
    BY DEF Comes
<1>5. Strict(comes, T)
    BY <1>3, <1>4, CompareOrders DEF Strict
<1>6. kept = Greedy(s, 2, RULES_BUDGET_BYTES)
    BY DEF keepRules
<1> HIDE DEF T, s, comes
<1>7. /\ PartOf(kept.units, Len(s), s, T, comes)
      /\ kept.bytes \in Nat /\ kept.bytes <= RULES_BUDGET_BYTES
      /\ kept.bytes = Joined(kept.units, 2)
    <2> DEFINE g == Greedy(s, 2, RULES_BUDGET_BYTES)
    <2>1. /\ PartOf(g.units, Len(s), s, T, comes)
          /\ g.bytes \in Nat /\ g.bytes <= RULES_BUDGET_BYTES
          /\ g.bytes = Joined(g.units, 2)
        BY <1>1, <1>2, GreedyFacts
    <2> QED BY <1>6, <2>1
<1> DEFINE u == kept.units
<1>8. /\ u \in Seq(T) /\ DOMAIN u = 1 .. Len(u) /\ \A i \in DOMAIN u : u[i] \in T /\ u[i] \in Elements(s)
    <2>1. u \in Seq(T) /\ \A k \in 1 .. Len(u) : \E i \in 1 .. Len(s) : u[k] = s[i]
        BY <1>7 DEF PartOf
    <2> HIDE DEF u
    <2>2. DOMAIN u = 1 .. Len(u) /\ DOMAIN s = 1 .. Len(s) /\ \A i \in DOMAIN u : u[i] \in T
        BY <1>2, <2>1
    <2> QED BY <2>1, <2>2 DEF Elements
<1>9. \A i, j \in DOMAIN u : i < j => compareRules(u[i], u[j])
    <2>1. Ordered(u, comes)
        BY <1>7 DEF PartOf
    <2> HIDE DEF u
    <2> QED BY <1>4, <1>8, <2>1 DEF Ordered
<1>10. \A r \in Elements(u) : r \in T /\ Applies(r, request.paths)
    <2> TAKE r \in Elements(u)
    <2>1. r \in T /\ r \in Elements(s)
        BY <1>8 DEF Elements
    <2>2. Matching(r, request.paths)
        BY <1>2, <2>1
    <2> QED BY <1>3, <2>1, <2>2, MatchingApplies
<1>11. ASSUME NEW r \in T \ Elements(u), Applies(r, Plain(request.paths))
       PROVE  Joined(Append(Chosen(u, {k \in Elements(u) : compareRules(k, r)}), r), 2) > RULES_BUDGET_BYTES
    <2>1. Matching(r, request.paths)
        BY <1>3, <1>11, MatchingApplies
    <2>2. r \in Elements(s)
        BY <1>2, <2>1
    <2>3. PICK i \in 1 .. Len(s) : r = s[i]
        BY <1>2, <2>2 DEF Elements
    <2> HIDE DEF u
    <2>4. u = Greedy(s, 2, RULES_BUDGET_BYTES).units
        BY <1>6 DEF u
    <2>5. Joined(Append(Chosen(u, {k \in Elements(u) : <<k, s[i]>> \in comes}), s[i]), 2) > RULES_BUDGET_BYTES
        BY <1>1, <1>2, <1>5, <1>11, <2>3, <2>4, GreedyLeftOut
    <2>6. {k \in Elements(u) : <<k, s[i]>> \in comes} = {k \in Elements(u) : compareRules(k, r)}
        BY <1>4, <1>10, <2>3
    <2> QED BY <2>3, <2>5, <2>6
<1> QED BY <1>7, <1>9, <1>10, <1>11 DEF u, T

(* A compacted catalog is within its budget. *)
LEMMA CatalogFits ==
    ASSUME NEW entries \in Seq([name : Nat, located : BOOLEAN, bytes : Nat])
    PROVE  /\ compactCatalog(entries).bytes \in Nat
           /\ compactCatalog(entries).bytes <= CATALOG_BUDGET_BYTES
           /\ compactCatalog(entries).bytes = Joined(compactCatalog(entries).units, 1)
<1> DEFINE T == [name : Nat, located : BOOLEAN, bytes : Nat]
           A == {e \in Elements(entries) : e.name # 0 /\ e.located}
           valid == Chosen(entries, A)
           n == Len(valid)
           first == {p \in (DOMAIN valid) \X (DOMAIN valid) :
                       \/ valid[p[1]].name < valid[p[2]].name
                       \/ valid[p[1]].name = valid[p[2]].name /\ p[1] < p[2]}
<1>1. HasBytes(T) /\ \A e \in T : e.name \in Nat
    BY DEF HasBytes
<1>2. valid \in Seq(T)
    <2> HIDE DEF T, A
    <2> QED BY ChosenType DEF T
<1>3. compactCatalog(entries) = Greedy(Arranged(valid, first), 1, CATALOG_BUDGET_BYTES)
    BY DEF compactCatalog
<1> HIDE DEF valid, T
<1>4. n \in Nat /\ DOMAIN valid = 1 .. n /\ \A i \in 1 .. n : valid[i].name \in Nat
    BY <1>1, <1>2
<1>5. \A i, j \in 1 .. n : <<i, j>> \in first <=>
          \/ valid[i].name < valid[j].name
          \/ valid[i].name = valid[j].name /\ i < j
    BY <1>4
<1> HIDE DEF first
<1>6. OrdersPositions(first, n)
    <2>1. ASSUME NEW i \in 1 .. n, NEW j \in 1 .. n, <<i, j>> \in first
          PROVE  <<j, i>> \notin first
        <3>1. valid[i].name \in Nat /\ valid[j].name \in Nat
            BY <1>4
        <3> QED BY <1>4, <1>5, <2>1, <3>1
    <2>2. ASSUME NEW i \in 1 .. n, NEW j \in 1 .. n, i # j
          PROVE  <<i, j>> \in first \/ <<j, i>> \in first
        BY <1>4, <1>5, <2>2
    <2>3. ASSUME NEW i \in 1 .. n, NEW j \in 1 .. n, NEW k \in 1 .. n,
                 <<i, j>> \in first, <<j, k>> \in first
          PROVE  <<i, k>> \in first
        <3>1. valid[i].name \in Nat /\ valid[j].name \in Nat /\ valid[k].name \in Nat
            BY <1>4
        <3>2. \/ valid[i].name < valid[j].name
              \/ valid[i].name = valid[j].name /\ i < j
            BY <1>5, <2>3
        <3>3. \/ valid[j].name < valid[k].name
              \/ valid[j].name = valid[k].name /\ j < k
            BY <1>5, <2>3
        <3>4. \/ valid[i].name < valid[k].name
              \/ valid[i].name = valid[k].name /\ i < k
            BY <1>4, <3>1, <3>2, <3>3
        <3> QED BY <1>5, <3>4
    <2> QED BY <2>1, <2>2, <2>3 DEF OrdersPositions
<1>7. Arranged(valid, first) \in Seq(T)
    BY <1>2, <1>6, ArrangedFacts
<1> DEFINE sorted == Arranged(valid, first)
           all == {p \in T \X T : TRUE}
<1> HIDE DEF sorted
<1>8. Ordered(sorted, all)
    <2>1. \A i \in 1 .. Len(sorted) : sorted[i] \in T
        BY <1>7 DEF sorted
    <2> QED BY <2>1 DEF Ordered
<1> HIDE DEF all
<1>9. CATALOG_BUDGET_BYTES \in Nat /\ 1 \in Nat /\ sorted \in Seq(T)
    BY <1>7, AssemblyAssumption DEF sorted
<1> DEFINE g == Greedy(sorted, 1, CATALOG_BUDGET_BYTES)
<1>10. g.bytes \in Nat /\ g.bytes <= CATALOG_BUDGET_BYTES /\ g.bytes = Joined(g.units, 1)
    BY <1>1, <1>8, <1>9, GreedyFacts
<1> QED BY <1>3, <1>10 DEF sorted

(* No section is dropped but a directive that is over its cap. *)
LEMMA AssembledFacts ==
    ASSUME NEW rules, NEW directive \in Nat, NEW catalog \in Nat, catalog <= CATALOG_BUDGET_BYTES,
           keepRules(rules).bytes \in Nat, keepRules(rules).bytes <= RULES_BUDGET_BYTES
    PROVE  /\ assembleRules(rules, directive, catalog).rules = keepRules(rules).units
           /\ assembleRules(rules, directive, catalog).catalog = catalog
           /\ assembleRules(rules, directive, catalog).total <= INJECTION_BUDGET_BYTES
<1> DEFINE kept == keepRules(rules)
           first == IF directive <= DIRECTIVE_BUDGET_BYTES THEN directive ELSE 0
           others == first + catalog
<1>1. /\ DIRECTIVE_BUDGET_BYTES \in Nat /\ CATALOG_BUDGET_BYTES \in Nat /\ RULES_BUDGET_BYTES \in Nat
      /\ INJECTION_BUDGET_BYTES
           = DIRECTIVE_BUDGET_BYTES + CATALOG_BUDGET_BYTES + RULES_BUDGET_BYTES
    BY AssemblyAssumption
<1>2. first \in Nat /\ first <= DIRECTIVE_BUDGET_BYTES
    BY <1>1
<1>3. kept.bytes \in Nat /\ kept.bytes <= RULES_BUDGET_BYTES
    OBVIOUS
<1> HIDE DEF kept, first
<1>4. others + kept.bytes <= INJECTION_BUDGET_BYTES /\ ~(others + kept.bytes > INJECTION_BUDGET_BYTES)
    BY <1>1, <1>2, <1>3
<1>5. assembleRules(rules, directive, catalog)
        = [rules |-> kept.units, catalog |-> catalog, total |-> others + kept.bytes]
    BY <1>4 DEF assembleRules, kept, first
<1> QED BY <1>4, <1>5 DEF kept

-----------------------------------------------------------------------------
(* Discovery                                                               *)

PlainFiles == {f \in Files : f.kind = "file"}

ReadRules == [name : FileNames, bytes : Nat, rule : UNION {f.rule : f \in PlainFiles}]

Discoveries ==
    [at : {"idle", "name", "realpath", "open", "read", "done"},
     listed : SUBSET FileNames, left : SUBSET FileNames, size : Nat,
     real : FileNames \cup {Outside}, opened : SUBSET PlainFiles,
     rules : Seq(ReadRules), rejections : SUBSET FileNames, ok : BOOLEAN]

NamesOf(rules) == {rules[i].name : i \in 1 .. Len(rules)}

(* Each name that was listed is a rule's, is rejected or is left to read,  *)
(* and is only one of these.                                               *)
Accounted(rules, rejections, left, listed) ==
    /\ \A i, j \in 1 .. Len(rules) : i < j => rules[i].name # rules[j].name
    /\ NamesOf(rules) \cup rejections \cup left = listed
    /\ NamesOf(rules) \cap rejections = {}
    /\ (NamesOf(rules) \cup rejections) \cap left = {}

Discovered(d) ==
    /\ d \in Discoveries
    /\ Accounted(d.rules, d.rejections, d.left, d.listed)
    /\ d.at \in {"realpath", "open", "read"} => d.left # {}
    /\ d.at = "open" => d.real \in FileNames
    /\ d.at = "done" => d.left = {}
    /\ d.at = "idle" => d = NoDiscovery

AssemblyInv ==
    /\ directory \in [FileNames -> Files \cup {Absent}]
    /\ request \in Requests
    /\ Discovered(discovery)

(* The name being read is one that is left. *)
LEMMA CurrentIsLeft ==
    ASSUME Discovered(discovery), discovery.left # {}
    PROVE  Current \in discovery.left /\ Current \in FileNames
<1>1. discovery.left \in SUBSET FileNames
    BY DEF Discovered, Discoveries
<1>2. discovery.left \in SUBSET Nat
    BY <1>1, AssemblyAssumption
<1>3. \E name \in discovery.left : \A other \in discovery.left : name <= other
    BY <1>2, LeastExists
<1>4. Current \in discovery.left
    BY <1>3 DEF Current
<1> QED BY <1>1, <1>4

(* A name moves from those that are left to the rejected ones, ... *)
LEMMA AccountRejected ==
    ASSUME NEW rules, NEW rejections, NEW left, NEW listed, Accounted(rules, rejections, left, listed),
           NEW name \in left
    PROVE  Accounted(rules, rejections \cup {name}, left \ {name}, listed)
<1> DEFINE names == NamesOf(rules)
<1>1. /\ \A i, j \in 1 .. Len(rules) : i < j => rules[i].name # rules[j].name
      /\ names \cup rejections \cup left = listed
      /\ names \cap rejections = {}
      /\ (names \cup rejections) \cap left = {}
    BY DEF Accounted
<1> HIDE DEF names
<1>2. /\ names \cup (rejections \cup {name}) \cup (left \ {name}) = listed
      /\ names \cap (rejections \cup {name}) = {}
      /\ (names \cup (rejections \cup {name})) \cap (left \ {name}) = {}
    BY <1>1
<1> QED BY <1>1, <1>2 DEF Accounted, names

(* ... or to those of the rules. *)
LEMMA AccountRead ==
    ASSUME NEW T, NEW rules \in Seq(T), NEW rejections, NEW left, NEW listed,
           Accounted(rules, rejections, left, listed), NEW r \in T, r.name \in left
    PROVE  Accounted(Append(rules, r), rejections, left \ {r.name}, listed)
<1> DEFINE names == NamesOf(rules)
           n == Len(rules)
           more == Append(rules, r)
<1>1. /\ \A i, j \in 1 .. n : i < j => rules[i].name # rules[j].name
      /\ names \cup rejections \cup left = listed
      /\ names \cap rejections = {}
      /\ (names \cup rejections) \cap left = {}
    BY DEF Accounted
<1>2. /\ n \in Nat /\ Len(more) = n + 1 /\ more[n + 1] = r
      /\ \A i \in 1 .. n : more[i] = rules[i]
      /\ \A i \in 1 .. (n + 1) : i \in 1 .. n \/ i = n + 1
    OBVIOUS
<1>3. \A i \in 1 .. n : rules[i].name \in names
    BY DEF NamesOf
<1>4. \A i \in 1 .. n : rules[i].name # r.name
    BY <1>1, <1>3
<1> HIDE DEF more
<1>5. NamesOf(more) = names \cup {r.name}
    <2>1. ASSUME NEW i \in 1 .. (n + 1) PROVE more[i].name \in names \cup {r.name}
        BY <1>2, <1>3
    <2>2. ASSUME NEW i \in 1 .. n PROVE rules[i].name \in NamesOf(more)
        <3>1. i \in 1 .. (n + 1) /\ more[i] = rules[i]
            BY <1>2
        <3> QED BY <1>2, <3>1 DEF NamesOf
    <2>3. r.name \in NamesOf(more)
        <3>1. n + 1 \in 1 .. (n + 1)
            BY <1>2
        <3> QED BY <1>2, <3>1 DEF NamesOf
    <2> QED BY <1>2, <2>1, <2>2, <2>3 DEF NamesOf
<1>6. \A i, j \in 1 .. Len(more) : i < j => more[i].name # more[j].name
    <2> SUFFICES ASSUME NEW i \in 1 .. (n + 1), NEW j \in 1 .. (n + 1), i < j
                 PROVE  more[i].name # more[j].name
        BY <1>2
    <2>1. i \in 1 .. n
        BY <1>2
    <2>2. CASE j \in 1 .. n
        BY <1>1, <1>2, <2>1, <2>2
    <2>3. CASE j = n + 1
        BY <1>2, <1>4, <2>1, <2>3
    <2> QED BY <1>2, <2>2, <2>3
<1> HIDE DEF names, n
<1>7. /\ names \cup {r.name} \cup rejections \cup (left \ {r.name}) = listed
      /\ (names \cup {r.name}) \cap rejections = {}
      /\ (names \cup {r.name} \cup rejections) \cap (left \ {r.name}) = {}
    BY <1>1
<1> QED BY <1>5, <1>6, <1>7 DEF Accounted, more

(* A file that cannot be read leaves discovery sound, ... *)
LEMMA RejectedIsDiscovered ==
    ASSUME Discovered(discovery), discovery.left # {}
    PROVE  Discovered(Rejected)
<1> DEFINE d == Rejected
<1>1. Current \in discovery.left /\ Current \in FileNames
    BY CurrentIsLeft
<1>2. discovery \in Discoveries
    BY DEF Discovered
<1>3. /\ d \in Discoveries
      /\ d.at = "name" /\ d.rules = discovery.rules /\ d.listed = discovery.listed
      /\ d.rejections = discovery.rejections \cup {Current} /\ d.left = discovery.left \ {Current}
    BY <1>1, <1>2 DEF Rejected, Discoveries
<1> HIDE DEF d
<1>4. Accounted(discovery.rules, discovery.rejections, discovery.left, discovery.listed)
    BY DEF Discovered
<1>5. Accounted(d.rules, d.rejections, d.left, d.listed)
    BY <1>1, <1>3, <1>4, AccountRejected
<1> QED BY <1>3, <1>5 DEF Discovered, d

(* What a directory's entry is. *)
LEMMA EntryFacts ==
    ASSUME NEW entry \in Files \cup {Absent}
    PROVE  /\ entry.kind = "link" => entry.to \in FileNames \cup {Outside}
           /\ entry.kind = "file" => entry \in PlainFiles /\ entry.size \in Nat
<1>1. Absent.kind = "absent"
    BY DEF Absent
<1> QED BY <1>1, AssemblyAssumption DEF PlainFiles

(* The links of a directory lead to one of its names or out of it, ... *)
LEMMA ResolvedFacts ==
    ASSUME directory \in [FileNames -> Files \cup {Absent}], NEW name \in FileNames
    PROVE  Resolved(name) \in FileNames \cup {Outside}
<1> DEFINE N == Cardinality(FileNames)
           S == FileNames \cup {Outside}
           step(n) == IF n \in FileNames /\ directory[n].kind = "link" THEN directory[n].to ELSE n
           body(f, k) == IF k = 0 THEN name ELSE step(f[k - 1])
           path == CHOOSE f : f = [k \in 0 .. N |-> body(f, k)]
<1>1. N \in Nat
    BY AssemblyAssumption, FS_CardinalityType
<1>2. name \in S
    OBVIOUS
<1>3. \A n \in S : step(n) \in S
    <2> SUFFICES ASSUME NEW n \in S PROVE step(n) \in S
        OBVIOUS
    <2>1. n \in FileNames => directory[n] \in Files \cup {Absent}
        OBVIOUS
    <2> QED BY <2>1, EntryFacts
<1>4. Resolved(name) = path[N]
    BY DEF Resolved
<1> HIDE DEF N, S, step
<1>5. \E f \in [0 .. N -> S] : f = [k \in 0 .. N |-> body(f, k)]
    <2> DEFINE next == [k \in 1 .. N |-> [n \in S |-> step(n)]]
    <2>1. next \in [1 .. N -> [S -> S]]
        BY <1>3
    <2>2. \A k \in 1 .. N, n \in S : next[k][n] = step(n)
        OBVIOUS
    <2> HIDE DEF next
    <2>3. PICK f : Iterates(f, N, S, name, next)
        BY <1>1, <1>2, <2>1, IterationExists
    <2>4. \A k \in 0 .. N : f[k] = body(f, k)
        <3> TAKE k \in 0 .. N
        <3>1. CASE k = 0
            BY <2>3, <3>1 DEF Iterates
        <3>2. CASE k # 0
            <4>1. k \in 1 .. N /\ f[k - 1] \in S
                BY <1>1, <2>3, <3>2 DEF Iterates
            <4> QED BY <2>2, <2>3, <3>2, <4>1 DEF Iterates
        <3> QED BY <3>1, <3>2
    <2>5. f \in [0 .. N -> S]
        BY <2>3 DEF Iterates
    <2> HIDE DEF body
    <2> QED BY <2>4, <2>5
<1>6. path = [k \in 0 .. N |-> body(path, k)]
    <2> HIDE DEF body
    <2> QED BY <1>5
<1>7. path[0] = name /\ \A k \in 1 .. N : path[k] = step(path[k - 1])
    <2> HIDE DEF path
    <2> QED BY <1>1, <1>6
<1> HIDE DEF path, body
<1>8. \A k \in 0 .. N : path[k] \in S
    <2> DEFINE wrong == {k \in 0 .. N : path[k] \notin S}
    <2>1. SUFFICES ASSUME wrong # {} PROVE FALSE
        OBVIOUS
    <2>2. PICK k \in wrong : \A m \in wrong : k <= m
        <3>1. wrong \in SUBSET Nat
            BY <1>1
        <3> HIDE DEF wrong
        <3> QED BY <2>1, <3>1, LeastExists
    <2>3. k # 0
        BY <1>2, <1>7
    <2>4. k \in 1 .. N /\ k - 1 \in 0 .. N
        BY <1>1, <2>3
    <2>5. path[k - 1] \in S
        BY <1>1, <2>2, <2>4
    <2> QED BY <1>3, <1>7, <2>4, <2>5
<1>9. N \in 0 .. N
    BY <1>1
<1> QED BY <1>4, <1>8, <1>9 DEF S

(* ... and what is opened there is one of the files. *)
LEMMA OpenedFacts ==
    ASSUME directory \in [FileNames -> Files \cup {Absent}], NEW target \in FileNames \cup {Outside},
           NEW entry \in FilesAt(target)
    PROVE  entry \in PlainFiles
<1>1. CASE target = Outside
    BY <1>1 DEF FilesAt, PlainFiles
<1>2. CASE target # Outside
    <2>1. entry = directory[target] /\ entry.kind = "file"
        BY <1>2 DEF FilesAt
    <2>2. entry \in Files \cup {Absent}
        BY <1>2, <2>1
    <2> QED BY <2>1, <2>2, EntryFacts
<1> QED BY <1>1, <1>2

(* ... and so does every step, whatever an editor does in between. *)
LEMMA AssemblyStep ==
    ASSUME AssemblyInv, [AssemblyNext]_assemblyVars
    PROVE  AssemblyInv'
<1>1. /\ directory \in [FileNames -> Files \cup {Absent}]
      /\ request \in Requests
      /\ Discovered(discovery)
      /\ discovery \in Discoveries
      /\ \A name \in FileNames : directory[name] \in Files \cup {Absent}
    BY DEF AssemblyInv, Discovered
<1>2. ASSUME Discovered(discovery'), UNCHANGED <<directory, request>>
      PROVE  AssemblyInv'
    BY <1>1, <1>2 DEF AssemblyInv
<1>3. discovery.left # {} => Discovered(Rejected) /\ Current \in FileNames /\ Current \in discovery.left
    BY <1>1, RejectedIsDiscovered, CurrentIsLeft
<1>4. CASE Edit
    <2>1. directory' \in [FileNames -> Files \cup {Absent}]
        BY <1>1, <1>4 DEF Edit
    <2> QED BY <1>1, <1>4, <2>1 DEF Edit, AssemblyInv
<1>5. CASE discoverRepositoryRules
    <2> DEFINE names == {name \in FileNames : directory[name] # Absent}
    <2>1. discovery = NoDiscovery
        BY <1>1, <1>5 DEF discoverRepositoryRules, Discovered
    <2>2. /\ discovery.rules = <<>> /\ discovery.rejections = {} /\ discovery.left = {}
          /\ discovery.listed = {}
        BY <2>1 DEF NoDiscovery
    <2>3. NamesOf(<<>>) = {} /\ Len(<<>>) = 0
        BY DEF NamesOf
    <2>4. \A some : Accounted(<<>>, {}, some, some)
        BY <2>3 DEF Accounted
    <2>5. CASE resolveRulesRoot = "ok"
        <3>1. discovery' = [discovery EXCEPT !.at = "name", !.listed = names, !.left = names]
            BY <1>5, <2>5 DEF discoverRepositoryRules
        <3>2. names \in SUBSET FileNames
            OBVIOUS
        <3> HIDE DEF names
        <3>3. /\ discovery' \in Discoveries /\ discovery'.at = "name" /\ discovery'.rules = <<>>
              /\ discovery'.rejections = {} /\ discovery'.left = names /\ discovery'.listed = names
            BY <1>1, <2>2, <3>1, <3>2 DEF Discoveries
        <3>4. Discovered(discovery')
            BY <2>4, <3>3 DEF Discovered
        <3> QED BY <1>2, <1>5, <3>4 DEF discoverRepositoryRules
    <2>6. CASE resolveRulesRoot # "ok"
        <3>1. discovery' = [discovery EXCEPT !.at = "done", !.ok = resolveRulesRoot = "absent"]
            BY <1>5, <2>6 DEF discoverRepositoryRules
        <3>2. /\ discovery' \in Discoveries /\ discovery'.at = "done" /\ discovery'.rules = <<>>
              /\ discovery'.rejections = {} /\ discovery'.left = {} /\ discovery'.listed = {}
            BY <1>1, <2>2, <3>1 DEF Discoveries
        <3>3. Discovered(discovery')
            BY <2>4, <3>2 DEF Discovered
        <3> QED BY <1>2, <1>5, <3>3 DEF discoverRepositoryRules
    <2> QED BY <2>5, <2>6
<1>6. CASE LstatRule
    <2> DEFINE entry == directory[Current]
    <2>1. discovery.left # {} /\ UNCHANGED <<directory, request>>
        BY <1>6 DEF LstatRule
    <2>2. CASE ~rejectedName(Current) /\ entry.kind = "file" /\ entry.size <= MAX_RULE_BYTES
        <3>1. discovery' = [discovery EXCEPT !.at = "realpath", !.size = entry.size]
            BY <1>6, <2>2 DEF LstatRule
        <3>2. entry.size \in Nat
            BY <1>1, <1>3, <2>1, <2>2, EntryFacts
        <3> HIDE DEF entry
        <3>3. /\ discovery' \in Discoveries /\ discovery'.at = "realpath"
              /\ discovery'.rules = discovery.rules /\ discovery'.rejections = discovery.rejections
              /\ discovery'.left = discovery.left /\ discovery'.listed = discovery.listed
            BY <1>1, <3>1, <3>2 DEF Discoveries
        <3>4. Discovered(discovery')
            BY <1>1, <2>1, <3>3 DEF Discovered
        <3> QED BY <1>2, <2>1, <3>4
    <2>3. CASE ~(~rejectedName(Current) /\ entry.kind = "file" /\ entry.size <= MAX_RULE_BYTES)
        <3>1. discovery' = Rejected
            BY <1>6, <2>3 DEF LstatRule
        <3> QED BY <1>2, <1>3, <2>1, <3>1
    <2> QED BY <2>2, <2>3
<1>7. CASE ResolveRule
    <2> DEFINE real == Resolved(Current)
               there == real # Outside /\ directory[real].kind \notin {"absent", "link"}
    <2>1. discovery.left # {} /\ UNCHANGED <<directory, request>>
        BY <1>1, <1>7 DEF ResolveRule, Discovered
    <2>2. CASE there
        <3>1. discovery' = [discovery EXCEPT !.at = "open", !.real = real]
            BY <1>7, <2>2 DEF ResolveRule
        <3>2. real \in FileNames
            BY <1>1, <1>3, <2>1, <2>2, ResolvedFacts
        <3> HIDE DEF real
        <3>3. /\ discovery' \in Discoveries /\ discovery'.at = "open" /\ discovery'.real = real
              /\ discovery'.rules = discovery.rules /\ discovery'.rejections = discovery.rejections
              /\ discovery'.left = discovery.left /\ discovery'.listed = discovery.listed
            BY <1>1, <3>1, <3>2 DEF Discoveries
        <3>4. Discovered(discovery')
            BY <1>1, <2>1, <3>2, <3>3 DEF Discovered
        <3> QED BY <1>2, <2>1, <3>4
    <2>3. CASE ~there
        <3>1. discovery' = Rejected
            BY <1>7, <2>3 DEF ResolveRule
        <3> QED BY <1>2, <1>3, <2>1, <3>1
    <2> QED BY <2>2, <2>3
<1>8. CASE OpenRule
    <2> DEFINE target == Resolved(discovery.real)
    <2>1. /\ discovery.left # {} /\ discovery.real \in FileNames /\ UNCHANGED <<directory, request>>
        <3>1. discovery.at = "open" /\ UNCHANGED <<directory, request>>
            BY <1>8, Zenon DEF OpenRule
        <3> QED BY <1>1, <3>1 DEF Discovered
    <2>2. target \in FileNames \cup {Outside}
        BY <1>1, <2>1, ResolvedFacts
    <2>3. \/ \E entry \in FilesAt(target) :
                discovery' = [discovery EXCEPT !.at = "read", !.real = target, !.opened = {entry}]
          \/ discovery' = Rejected
        BY <1>8, Zenon DEF OpenRule
    <2> HIDE DEF target
    <2>4. ASSUME NEW entry \in FilesAt(target),
                 discovery' = [discovery EXCEPT !.at = "read", !.real = target, !.opened = {entry}]
          PROVE  AssemblyInv'
        <3>1. entry \in PlainFiles
            BY <1>1, <2>2, OpenedFacts
        <3> DEFINE there == [discovery EXCEPT !.at = "read", !.real = target]
        <3>2. discovery' = [there EXCEPT !.opened = {entry}]
            BY <2>4, Zenon
        <3>3. /\ there \in Discoveries /\ there.at = "read"
              /\ there.rules = discovery.rules /\ there.rejections = discovery.rejections
              /\ there.left = discovery.left /\ there.listed = discovery.listed
            BY <1>1, <2>2 DEF Discoveries
        <3> HIDE DEF there
        <3>4. /\ discovery' \in Discoveries /\ discovery'.at = "read"
              /\ discovery'.rules = discovery.rules /\ discovery'.rejections = discovery.rejections
              /\ discovery'.left = discovery.left /\ discovery'.listed = discovery.listed
            BY <3>1, <3>2, <3>3 DEF Discoveries
        <3>5. Discovered(discovery')
            BY <1>1, <2>1, <3>4 DEF Discovered
        <3> QED BY <1>2, <2>1, <3>5
    <2>5. CASE discovery' = Rejected
        BY <1>2, <1>3, <2>1, <2>5
    <2> QED BY <2>3, <2>4, <2>5
<1>9. CASE ReadRule
    <2>1. discovery.left # {} /\ UNCHANGED <<directory, request>>
        <3>1. discovery.at = "read" /\ UNCHANGED <<directory, request>>
            BY <1>9, Zenon DEF ReadRule
        <3> QED BY <1>1, <3>1 DEF Discovered
    <2>2. PICK entry \in discovery.opened \cup FilesAt(discovery.real) :
            discovery' =
                IF entry.rule = {} THEN Rejected
                ELSE [discovery EXCEPT
                        !.at = "name", !.left = @ \ {Current}, !.opened = {},
                        !.rules = Append(@, [name |-> Current, bytes |-> entry.size,
                                             rule |-> CHOOSE rule \in entry.rule : TRUE])]
        BY <1>9 DEF ReadRule
    <2>3. entry \in PlainFiles /\ entry.size \in Nat
        <3>1. entry \in PlainFiles
            <4>1. discovery.opened \subseteq PlainFiles /\ discovery.real \in FileNames \cup {Outside}
                BY <1>1 DEF Discoveries
            <4> QED BY <1>1, <2>2, <4>1, OpenedFacts
        <3> QED BY <3>1, EntryFacts DEF PlainFiles
    <2>4. CASE entry.rule = {}
        <3>1. discovery' = Rejected
            BY <2>2, <2>4
        <3> QED BY <1>2, <1>3, <2>1, <3>1
    <2>5. CASE entry.rule # {}
        <3> DEFINE rule == CHOOSE rule \in entry.rule : TRUE
                   r == [name |-> Current, bytes |-> entry.size, rule |-> rule]
        <3>1. rule \in UNION {f.rule : f \in PlainFiles}
            BY <2>3, <2>5
        <3>2. discovery' = [discovery EXCEPT !.at = "name", !.left = discovery.left \ {Current},
                                             !.opened = {}, !.rules = Append(discovery.rules, r)]
            BY <2>2, <2>5
        <3> HIDE DEF rule
        <3>3. r \in ReadRules /\ r.name = Current
            BY <1>3, <2>1, <2>3, <3>1 DEF ReadRules
        <3> HIDE DEF r
        <3>4. discovery.rules \in Seq(ReadRules) /\ Append(discovery.rules, r) \in Seq(ReadRules)
            BY <1>1, <3>3 DEF Discoveries
        <3>5. /\ discovery' \in Discoveries /\ discovery'.at = "name"
              /\ discovery'.rules = Append(discovery.rules, r)
              /\ discovery'.rejections = discovery.rejections
              /\ discovery'.left = discovery.left \ {r.name} /\ discovery'.listed = discovery.listed
            BY <1>1, <3>2, <3>3, <3>4 DEF Discoveries
        <3>6. Accounted(discovery.rules, discovery.rejections, discovery.left, discovery.listed)
            BY <1>1 DEF Discovered
        <3>7. Accounted(Append(discovery.rules, r), discovery.rejections,
                        discovery.left \ {r.name}, discovery.listed)
            BY <1>3, <2>1, <3>3, <3>4, <3>6, AccountRead
        <3>8. Discovered(discovery')
            BY <3>5, <3>7 DEF Discovered
        <3> QED BY <1>2, <2>1, <3>8
    <2> QED BY <2>4, <2>5
<1>10. CASE DiscoveryDone
    <2>1. discovery.left = {} /\ discovery' = [discovery EXCEPT !.at = "done"]
        BY <1>10 DEF DiscoveryDone
    <2>2. /\ discovery' \in Discoveries /\ discovery'.at = "done"
          /\ discovery'.rules = discovery.rules /\ discovery'.rejections = discovery.rejections
          /\ discovery'.left = discovery.left /\ discovery'.listed = discovery.listed
        BY <1>1, <2>1 DEF Discoveries
    <2>3. Discovered(discovery')
        BY <1>1, <2>1, <2>2 DEF Discovered
    <2> QED BY <1>2, <1>10, <2>3 DEF DiscoveryDone
<1>11. CASE UNCHANGED assemblyVars
    BY <1>11 DEF assemblyVars, AssemblyInv, Discovered
<1> QED BY <1>4, <1>5, <1>6, <1>7, <1>8, <1>9, <1>10, <1>11 DEF AssemblyNext

(* Whatever the directory becomes while it is read (rules-discovery.ts     *)
(* reads each file in four awaited steps), each name that was listed is    *)
(* read once, rejected once or still to be read.                           *)
THEOREM AssemblyInvariant == AssemblySpec => []AssemblyInv
<1>1. AssemblyInit => AssemblyInv
    <2> SUFFICES ASSUME AssemblyInit PROVE AssemblyInv
        OBVIOUS
    <2>1. NoDiscovery \in Discoveries
        BY AssemblyAssumption DEF NoDiscovery, Discoveries, Outside
    <2>2. Accounted(<<>>, {}, {}, {})
        BY DEF Accounted, NamesOf
    <2>3. Discovered(NoDiscovery)
        BY <2>1, <2>2 DEF Discovered, NoDiscovery
    <2> QED BY <2>3 DEF AssemblyInit, AssemblyInv
<1>2. AssemblyInv /\ [AssemblyNext]_assemblyVars => AssemblyInv'
    BY AssemblyStep
<1> QED BY <1>1, <1>2, PTL DEF AssemblySpec

(* What was read can be assembled. *)
LEMMA ReadAreRules ==
    ASSUME AssemblyInv
    PROVE  RulesRead(discovery.rules)
<1> DEFINE rules == discovery.rules
<1>1. rules \in Seq(ReadRules) /\ \A i, j \in 1 .. Len(rules) : i < j => rules[i].name # rules[j].name
    BY DEF AssemblyInv, Discovered, Discoveries, Accounted
<1> HIDE DEF rules
<1>2. \A r \in ReadRules : IsRule(r)
    <2> TAKE r \in ReadRules
    <2>1. /\ r.name \in FileNames /\ r.bytes \in Nat
          /\ \E f \in Files : f.kind = "file" /\ r.rule \in f.rule
        BY DEF ReadRules, PlainFiles
    <2>2. r.name \in Nat
        BY <2>1, AssemblyAssumption
    <2>3. r.rule.order \in Int /\ r.rule.globs \in Seq(Segmented)
        BY <2>1, AssemblyAssumption
    <2> QED BY <2>1, <2>2, <2>3 DEF IsRule
<1>3. \A r \in Elements(rules) : r \in ReadRules
    BY <1>1 DEF Elements
<1>4. rules \in Seq(Elements(rules))
    <2>1. \A i \in 1 .. Len(rules) : rules[i] \in Elements(rules)
        BY <1>1 DEF Elements
    <2> QED BY <1>1, <2>1
<1> QED BY <1>1, <1>2, <1>3, <1>4 DEF RulesRead, rules

(* Names that differ are as many as the rules that have them. *)
LEMMA NamesCount ==
    ASSUME NEW T, NEW rules \in Seq(T),
           \A i, j \in 1 .. Len(rules) : i < j => rules[i].name # rules[j].name
    PROVE  Cardinality(NamesOf(rules)) = Len(rules)
<1> DEFINE n == Len(rules)
           f == [i \in 1 .. n |-> rules[i].name]
<1>1. n \in Nat
    OBVIOUS
<1>2. \A i \in 1 .. n : f[i] = rules[i].name
    OBVIOUS
<1>3. f \in [1 .. n -> NamesOf(rules)]
    BY DEF NamesOf
<1>4. \A name \in NamesOf(rules) : \E i \in 1 .. n : f[i] = name
    BY DEF NamesOf
<1> HIDE DEF f
<1>5. \A i, j \in 1 .. n : f[i] = f[j] => i = j
    <2> SUFFICES ASSUME NEW i \in 1 .. n, NEW j \in 1 .. n, i # j
                 PROVE  f[i] # f[j]
        OBVIOUS
    <2>1. i < j \/ j < i
        BY <1>1
    <2> QED BY <1>2, <2>1
<1> HIDE DEF n
<1>6. f \in Bijection(1 .. n, NamesOf(rules))
    <2> DEFINE names == NamesOf(rules)
               positions == 1 .. n
    <2>1. f \in [positions -> names]
        BY <1>3
    <2>2. \A name \in names : \E i \in positions : f[i] = name
        BY <1>4
    <2>3. \A i, j \in positions : f[i] = f[j] => i = j
        BY <1>5
    <2> HIDE DEF names, positions
    <2>4. f \in Bijection(positions, names)
        BY <2>1, <2>2, <2>3, Zenon DEF Bijection, Injection, Surjection, IsInjective
    <2> QED BY <2>4 DEF names, positions
<1>7. ExistsBijection(1 .. n, NamesOf(rules))
    BY <1>6 DEF ExistsBijection
<1> QED BY <1>1, <1>7, FS_CountingElements DEF n

(* When nothing is left, rules and rejections are as many as were listed. *)
LEMMA AllAreCounted ==
    ASSUME AssemblyInv, discovery.left = {}
    PROVE  /\ NamesOf(discovery.rules) \cup discovery.rejections = discovery.listed
           /\ Len(discovery.rules) + Cardinality(discovery.rejections) = Cardinality(discovery.listed)
<1> DEFINE rules == discovery.rules
           names == NamesOf(rules)
           rejected == discovery.rejections
           listed == discovery.listed
<1>1. /\ rules \in Seq(ReadRules) /\ \A i, j \in 1 .. Len(rules) : i < j => rules[i].name # rules[j].name
      /\ names \cup rejected = listed /\ names \cap rejected = {}
      /\ listed \in SUBSET FileNames /\ rejected \in SUBSET FileNames
    BY DEF AssemblyInv, Discovered, Discoveries, Accounted
<1>2. Cardinality(names) = Len(rules) /\ Len(rules) \in Nat
    BY <1>1, NamesCount
<1> HIDE DEF names, rejected, listed, rules
<1>3. IsFiniteSet(FileNames)
    BY AssemblyAssumption
<1>4. names \in SUBSET FileNames
    BY <1>1
<1>5. IsFiniteSet(names) /\ IsFiniteSet(rejected)
    BY <1>1, <1>3, <1>4, FS_Subset
<1>6. Cardinality(rejected) \in Nat /\ Cardinality({}) = 0
    BY <1>5, FS_CardinalityType, FS_EmptySet
<1>7. Cardinality(names \cup rejected)
        = Cardinality(names) + Cardinality(rejected) - Cardinality(names \cap rejected)
    BY <1>5, FS_Union
<1>8. Cardinality(listed) = Len(rules) + Cardinality(rejected)
    <2>1. names \cup rejected = listed /\ Cardinality(names \cap rejected) = 0
        BY <1>1, <1>6
    <2>2. Cardinality(listed) = Cardinality(names) + Cardinality(rejected) - Cardinality(names \cap rejected)
        BY <1>7, <2>1
    <2> QED BY <1>2, <1>6, <2>1, <2>2
<1> QED BY <1>1, <1>8 DEF names, rejected, listed, rules

(* Every file that was listed is a rule or is reported, and assembly keeps *)
(* the rules that apply in priority order and within the budgets, leaves   *)
(* one out only when it does not fit and never drops a compacted catalog   *)
(* (rules-discovery.ts, rules-assembly.ts, catalog-compaction.ts).         *)
THEOREM RulesAreWholeHolds == AssemblySpec => []RulesAreWhole
<1>1. AssemblyInv => RulesAreWhole
    <2> SUFFICES ASSUME AssemblyInv, discovery.at = "done"
                 PROVE  RulesAreWhole
        BY DEF RulesAreWhole
    <2> DEFINE read == discovery.rules
               catalog == compactCatalog(request.entries)
               assembled == assembleRules(read, request.directive, catalog.bytes)
               kept == keepRules(read)
    <2>1. /\ request.directive \in Nat /\ request.paths \in SUBSET Segmented
          /\ request.entries \in Seq([name : Nat, located : BOOLEAN, bytes : Nat])
        BY AssemblyAssumption DEF AssemblyInv
    <2>2. RulesRead(read)
        BY ReadAreRules
    <2>3. discovery.left = {}
        BY DEF AssemblyInv, Discovered
    <2>4. /\ NamesOf(read) \cup discovery.rejections = discovery.listed
          /\ Len(read) + Cardinality(discovery.rejections) = Cardinality(discovery.listed)
        BY <2>3, AllAreCounted
    <2>5. {r.name : r \in Elements(read)} = NamesOf(read)
        <3>1. read \in Seq(Elements(read))
            BY <2>2 DEF RulesRead
        <3>2. DOMAIN read = 1 .. Len(read)
            BY <3>1
        <3> QED BY <3>2 DEF Elements, NamesOf
    <2>6. /\ catalog.bytes \in Nat /\ catalog.bytes <= CATALOG_BUDGET_BYTES
          /\ catalog.bytes = Joined(catalog.units, 1)
        BY <2>1, CatalogFits
    <2> HIDE DEF catalog
    <2>7. /\ kept.bytes \in Nat /\ kept.bytes <= RULES_BUDGET_BYTES
          /\ kept.bytes = Joined(kept.units, 2)
          /\ \A i, j \in DOMAIN kept.units : i < j => compareRules(kept.units[i], kept.units[j])
          /\ \A r \in Elements(kept.units) : r \in Elements(read) /\ Applies(r, request.paths)
          /\ \A r \in Elements(read) \ Elements(kept.units) :
                Applies(r, Plain(request.paths)) =>
                    Joined(Append(Chosen(kept.units,
                                         {k \in Elements(kept.units) : compareRules(k, r)}), r), 2)
                      > RULES_BUDGET_BYTES
        <3> HIDE DEF read, kept
        <3>1. kept = keepRules(read)
            BY DEF kept
        <3> QED BY <2>1, <2>2, <3>1, KeptFacts
    <2>8. /\ assembled.rules = kept.units /\ assembled.catalog = catalog.bytes
          /\ assembled.total <= INJECTION_BUDGET_BYTES
        BY <2>1, <2>6, <2>7, AssembledFacts
    <2> HIDE DEF kept, read, assembled
    <2>9. Joined(kept.units, 2) <= RULES_BUDGET_BYTES /\ Joined(catalog.units, 1) <= CATALOG_BUDGET_BYTES
        BY <2>6, <2>7
    <2> QED BY <2>4, <2>5, <2>7, <2>8, <2>9, Zenon DEF RulesAreWhole, read, catalog, assembled
<1> QED BY <1>1, AssemblyInvariant, PTL
=============================================================================

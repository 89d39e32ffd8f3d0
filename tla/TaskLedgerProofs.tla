-------------------------- MODULE TaskLedgerProofs --------------------------
(***************************************************************************)
(* Proofs about TaskLedger, for any sessions, runs, tool calls and host    *)
(* results: what the handlers append to a ledger, whoever else they meet   *)
(* between the reads and the transaction, can be read back, is the current *)
(* owner's, and names only workers and authorizations of its newest task.  *)
(*                                                                         *)
(* A decision's facts are of one of two kinds (Dispatches, Quiet), and     *)
(* whether a batch of the kind keeps the invariant does not depend on      *)
(* which decision made it: each decision is shown to be Good, and one      *)
(* lemma about the merge does the rest.                                    *)
(***************************************************************************)
EXTENDS TaskLedger, FiniteSetTheorems, SequenceTheorems, WellFoundedInduction, TLAPS

-----------------------------------------------------------------------------
(* Operators                                                               *)

(* Induction: a set of numbers that is not empty has a least. *)
LEMMA LeastExists ==
    ASSUME NEW I \in SUBSET Nat, I # {}
    PROVE  \E least \in I : \A i \in I : least <= i
<1> DEFINE R == {ss \in Nat \X Nat : ss[1] < ss[2]}
<1>1. IsWellFoundedOn(R, Nat)
    <2>1. R = OpToRel(<, Nat) BY Zenon DEF OpToRel
    <2> QED BY <2>1, NatLessThanWellFounded
<1> HIDE DEF R
<1>2. PICK least \in I : \A i \in I : ~(<<i, least>> \in R)
    BY <1>1, WFMin
<1>3. \A i \in I : least <= i
    <2> TAKE i \in I
    <2>1. ~(<<i, least>> \in R) BY <1>2
    <2> QED BY <2>1 DEF R
<1> QED BY <1>3

(* The largest of a bounded set, which taskGeneration is. *)
LEMMA MaxIsMember ==
    ASSUME NEW n \in Nat, NEW S \in SUBSET (0 .. n), S # {}
    PROVE  Max(S) \in S /\ \A y \in S : y <= Max(S)
<1> DEFINE T == {n - i : i \in S}
<1>1. T \in SUBSET Nat
    OBVIOUS
<1>2. T # {}
    <2>1. PICK i \in S : TRUE OBVIOUS
    <2>2. n - i \in T BY <2>1
    <2> QED BY <2>2
<1> HIDE DEF T
<1>3. PICK t \in T : \A y \in T : t <= y
    BY <1>1, <1>2, LeastExists
<1>4. PICK x \in S : t = n - x
    BY DEF T
<1>5. \A y \in S : x >= y
    <2> TAKE y \in S
    <2>1. n - y \in T BY DEF T
    <2>2. t <= n - y BY <1>3, <2>1
    <2> QED BY <1>4, <2>2
<1>6. Max(S) \in S /\ \A y \in S : Max(S) >= y
    BY <1>5 DEF Max
<1> QED BY <1>6

(* A finite set as a sequence. *)
LEMMA SetToSeqTyped ==
    ASSUME NEW S, IsFiniteSet(S)
    PROVE  SetToSeq(S) \in Seq(S)
<1>1. Cardinality(S) \in Nat /\ ExistsBijection(1 .. Cardinality(S), S)
    BY FS_CardinalityType
<1>2. PICK f \in [1 .. Cardinality(S) -> S] : IsInjective(f)
    BY <1>1 DEF ExistsBijection, Bijection, Injection
<1>3. SetToSeq(S) \in [1 .. Cardinality(S) -> S]
    BY <1>2 DEF SetToSeq
<1> QED BY <1>1, <1>3

(* What the loop of #merge leaves of a batch: facts of the batch that are  *)
(* not in the ledger.                                                      *)
LEMMA NovelFacts ==
    ASSUME NEW r, NEW T, NEW facts \in Seq(T)
    PROVE  /\ Novel(r, facts) \in Seq(T)
           /\ \A i \in 1 .. Len(Novel(r, facts)) :
                /\ \E k \in 1 .. Len(facts) : Novel(r, facts)[i] = facts[k]
                /\ Novel(r, facts)[i] \notin {e.fact : e \in Current(r)}
<1> DEFINE known == {e.fact : e \in Current(r)}
           body(f, n) == IF n = 0 THEN <<>>
                         ELSE IF facts[n] \in known THEN f[n - 1] ELSE Append(f[n - 1], facts[n])
           upTo(n, f) == f = [m \in 0 .. n |-> body(f, m)]
           novel == CHOOSE f : upTo(Len(facts), f)
<1>1. Novel(r, facts) = novel[Len(facts)]
    BY DEF Novel
<1> HIDE DEF known
<1>2. \E f : upTo(Len(facts), f)
    <2> DEFINE wrong == {n \in 0 .. Len(facts) : ~\E f : upTo(n, f)}
    <2>1. SUFFICES ASSUME wrong # {} PROVE FALSE
        <3>1. Len(facts) \in 0 .. Len(facts)
            OBVIOUS
        <3> HIDE DEF upTo
        <3> QED BY <3>1
    <2>2. PICK n \in wrong : \A m \in wrong : n <= m
        <3>1. wrong \in SUBSET Nat
            OBVIOUS
        <3> HIDE DEF wrong
        <3> QED BY <2>1, <3>1, LeastExists
    <2>3. n # 0
        <3> DEFINE f == [m \in 0 .. 0 |-> <<>>]
        <3>1. upTo(0, f)
            OBVIOUS
        <3> HIDE DEF f, upTo
        <3> QED BY <3>1
    <2>4. PICK f : upTo(n - 1, f)
        <3>1. n - 1 \notin wrong /\ n - 1 \in 0 .. Len(facts)
            <4> HIDE DEF upTo
            <4> QED BY <2>2, <2>3
        <3> HIDE DEF upTo
        <3> QED BY <3>1
    <2> DEFINE g == [m \in 0 .. n |-> IF m = n THEN body(f, n) ELSE f[m]]
    <2>5. n \in Nat /\ n > 0
        BY <2>3
    <2>6. \A m \in 0 .. (n - 1) : f[m] = body(f, m)
        BY <2>4, <2>5
    <2>7. \A m \in 0 .. n : g[m] = body(g, m)
        <3> SUFFICES ASSUME NEW m \in 0 .. n PROVE g[m] = body(g, m)
            OBVIOUS
        <3>1. CASE m = n
            BY <2>5, <3>1
        <3>2. CASE m # n
            <4>1. g[m] = f[m] /\ (m # 0 => g[m - 1] = f[m - 1])
                BY <2>5, <3>2
            <4>2. f[m] = body(f, m)
                BY <2>5, <2>6, <3>2
            <4> HIDE DEF g
            <4> QED BY <4>1, <4>2
        <3> QED BY <3>1, <3>2
    <2>8. upTo(n, g)
        <3> HIDE DEF body
        <3> QED BY <2>7
    <2> HIDE DEF upTo, g
    <2> QED BY <2>8
<1>3. \A n \in 0 .. Len(facts) : novel[n] = body(novel, n)
    <2>1. upTo(Len(facts), novel)
        <3> HIDE DEF upTo
        <3> QED BY <1>2
    <2> HIDE DEF novel, body
    <2> QED BY <2>1
<1> HIDE DEF novel
<1> DEFINE right(s) == /\ s \in Seq(T)
                       /\ \A i \in 1 .. Len(s) : /\ \E k \in 1 .. Len(facts) : s[i] = facts[k]
                                                 /\ s[i] \notin known
<1>4. \A n \in 0 .. Len(facts) : right(novel[n])
    <2> DEFINE wrong == {n \in 0 .. Len(facts) : ~right(novel[n])}
    <2>1. SUFFICES ASSUME wrong # {} PROVE FALSE
        OBVIOUS
    <2>2. PICK n \in wrong : \A m \in wrong : n <= m
        <3>1. wrong \in SUBSET Nat
            OBVIOUS
        <3> HIDE DEF wrong
        <3> QED BY <2>1, <3>1, LeastExists
    <2>3. n \in 0 .. Len(facts) /\ ~right(novel[n])
        OBVIOUS
    <2>4. n # 0
        <3>1. right(<<>>)
            OBVIOUS
        <3> HIDE DEF right
        <3> QED BY <1>3, <2>3, <3>1
    <2>5. right(novel[n - 1])
        <3>1. n - 1 \notin wrong /\ n - 1 \in 0 .. Len(facts)
            <4> HIDE DEF right
            <4> QED BY <2>2, <2>3, <2>4
        <3> HIDE DEF right
        <3> QED BY <3>1
    <2>6. facts[n] \in T
        BY <2>3, <2>4
    <2>7. facts[n] \notin known => right(Append(novel[n - 1], facts[n]))
        BY <2>3, <2>4, <2>5, <2>6
    <2> HIDE DEF right, wrong
    <2> QED BY <1>3, <2>3, <2>4, <2>5, <2>7
<1> QED BY <1>1, <1>4 DEF known

-----------------------------------------------------------------------------
(* The ledgers                                                             *)

IsSeq(s) == \E S : s \in Seq(S)

(* The properties, of one ledger. *)
Apart(l, low, high) ==
    \A i \in low + 1 .. high - 1 :
       l[i].owner = l[high].owner => l[i].fact.kind \notin Dispatching

Reached(l, e) ==
    LET g == l[e.fact.generation]
    IN  /\ e.fact.generation \in 1 .. Len(l)
        /\ e.fact.generation < e.sequence /\ g.owner = e.owner
        /\ g.fact.kind \in Dispatching
        /\ Apart(l, e.fact.generation, e.sequence)
        /\ e.fact.targets # {} =>
              /\ g.fact.kind = "task_identities_bound"
              /\ e.fact.targets \subseteq {b.agent : b \in ToSet(g.fact.bindings)}

Backed(l, e) ==
    \E a \in ToSet(l) :
       /\ a.fact.kind = "task_control_authorized" /\ a.fact.call = e.fact.call
       /\ a.owner = e.owner /\ a.sequence < e.sequence
       /\ Apart(l, a.sequence, e.sequence)

Readable(l) ==
    /\ IsSeq(l) /\ ledgerIsOrdered(l)
    /\ \A e \in ToSet(l) : e.fact.kind = "task_control_authorized" => Reached(l, e)
    /\ \A e \in ToSet(l) : e.fact.kind = "task_receipt_observed" => Backed(l, e)

(* No owner has more reserved than one may. *)
Limited(l) == \A o : ReservedItems(l, o) \in 0 .. MaxFanOut

LedgerInv ==
    /\ ledger = [r \in Runs |-> ledger[r]]
    /\ \A r \in Runs : Readable(ledger[r]) /\ Limited(ledger[r])

(* What a control may say when it is authorized: the workers of the newest *)
(* dispatch of the run's owner.                                            *)
Reaches(r, f) ==
    LET g == taskGeneration(r)
    IN  /\ f.generation = g /\ g # 0
        /\ f.targets # {} =>
             /\ ledger[r][g].fact.kind = "task_identities_bound"
             /\ f.targets \subseteq {b.agent : b \in ToSet(ledger[r][g].fact.bindings)}

(* What stands behind a receipt: an authorization of the newest dispatch.  *)
Matched(r, f) ==
    \E a \in Current(r) :
        /\ a.fact.kind = "task_control_authorized" /\ a.fact.call = f.call
        /\ a.fact.generation = taskGeneration(r)

Dispatches(facts) ==
    \A i \in 1 .. Len(facts) :
        facts[i].kind \notin {"task_control_authorized", "task_receipt_observed"}

Quiet(r, facts) ==
    \A i \in 1 .. Len(facts) :
        /\ facts[i].kind \notin Dispatching
        /\ facts[i].kind = "task_control_authorized" => Reaches(r, facts[i])
        /\ facts[i].kind = "task_receipt_observed" => Matched(r, facts[i])

(* A reservation is alone in its batch, and leaves the owner within the    *)
(* limit.                                                                  *)
Spares(r, facts) ==
    \A i \in 1 .. Len(facts) : facts[i].kind = "task_reserved" =>
        /\ Len(facts) = 1 /\ facts[i].items \in Nat
        /\ facts[i].items + ReservedItems(ledger[r], Owner(r)) <= MaxFanOut

Good(r, facts) == IsSeq(facts) /\ (Dispatches(facts) \/ Quiet(r, facts)) /\ Spares(r, facts)

(* The elements of a sequence. *)
LEMMA ElementsOf ==
    ASSUME NEW s, IsSeq(s)
    PROVE  /\ Len(s) \in Nat /\ DOMAIN s = 1 .. Len(s)
           /\ \A x : x \in ToSet(s) <=> \E i \in 1 .. Len(s) : x = s[i]
BY DEF IsSeq, ToSet

(* The newest dispatch of the owner: it is the owner's, and it is the last. *)
LEMMA GenerationFacts ==
    ASSUME NEW r \in Runs, Readable(ledger[r])
    PROVE  /\ taskGeneration(r) \in 0 .. Len(ledger[r])
           /\ taskGeneration(r) # 0 =>
                /\ ledger[r][taskGeneration(r)].owner = Owner(r)
                /\ ledger[r][taskGeneration(r)].fact.kind \in Dispatching
           /\ \A i \in 1 .. Len(ledger[r]) :
                ledger[r][i].owner = Owner(r) /\ ledger[r][i].fact.kind \in Dispatching
                    => i <= taskGeneration(r)
<1> DEFINE dispatched == {i \in 1 .. Len(ledger[r]) :
                ledger[r][i].owner = Owner(r) /\ ledger[r][i].fact.kind \in Dispatching}
           sequences == {e.sequence : e \in Facts(r, "task_reserved")
                                              \cup Facts(r, "task_identities_bound")}
<1>1. /\ Len(ledger[r]) \in Nat /\ DOMAIN ledger[r] = 1 .. Len(ledger[r])
      /\ \A x : x \in ToSet(ledger[r]) <=> \E i \in 1 .. Len(ledger[r]) : x = ledger[r][i]
    BY ElementsOf DEF Readable
<1>2. \A i \in 1 .. Len(ledger[r]) : ledger[r][i].sequence = i
    BY <1>1 DEF Readable, ledgerIsOrdered
<1>3. sequences = dispatched
    <2>1. \A x \in sequences : x \in dispatched
        BY <1>1, <1>2 DEF Facts, Current, Dispatching
    <2>2. \A x \in dispatched : x \in sequences
        <3> TAKE x \in dispatched
        <3>1. ledger[r][x] \in Facts(r, "task_reserved") \cup Facts(r, "task_identities_bound")
            BY <1>1 DEF Facts, Current, Dispatching
        <3>2. ledger[r][x].sequence = x
            BY <1>2
        <3> QED BY <3>1, <3>2
    <2> HIDE DEF dispatched, sequences
    <2> QED BY <2>1, <2>2
<1>4. taskGeneration(r) = Max({0} \cup dispatched)
    BY <1>3 DEF taskGeneration
<1>5. {0} \cup dispatched \in SUBSET (0 .. Len(ledger[r])) /\ {0} \cup dispatched # {}
    BY <1>1
<1>6. taskGeneration(r) \in {0} \cup dispatched /\ \A y \in {0} \cup dispatched : y <= taskGeneration(r)
    <2> HIDE DEF dispatched
    <2> QED BY <1>1, <1>4, <1>5, MaxIsMember
<1> HIDE DEF sequences
<1> QED BY <1>1, <1>6

(* The ledger after a merge: what it was, then facts of the batch, each    *)
(* new, under the owner's name and the next number.                        *)
LEMMA MergedFacts ==
    ASSUME NEW r \in Runs, IsSeq(ledger[r]), NEW facts, IsSeq(facts)
    PROVE  LET old == ledger[r]
               new == Novel(r, facts)
               all == Merged(r, facts)
           IN  /\ IsSeq(new) /\ IsSeq(all) /\ Len(all) = Len(old) + Len(new)
               /\ \A i \in 1 .. Len(old) : all[i] = old[i]
               /\ \A i \in 1 .. Len(new) :
                    /\ all[Len(old) + i] =
                         [sequence |-> Len(old) + i, owner |-> Owner(r), fact |-> new[i]]
                    /\ \E k \in 1 .. Len(facts) : new[i] = facts[k]
                    /\ new[i] \notin {e.fact : e \in Current(r)}
<1> DEFINE old == ledger[r]
           new == Novel(r, facts)
           entries == [i \in DOMAIN new |-> [sequence |-> Len(old) + i, owner |-> Owner(r),
                                             fact |-> new[i]]]
<1>1. PICK T : facts \in Seq(T)
    BY DEF IsSeq
<1>2. /\ new \in Seq(T)
      /\ \A i \in 1 .. Len(new) : /\ \E k \in 1 .. Len(facts) : new[i] = facts[k]
                                   /\ new[i] \notin {e.fact : e \in Current(r)}
    BY <1>1, NovelFacts
<1>3. PICK S : old \in Seq(S)
    BY DEF IsSeq
<1> DEFINE U == S \cup {entries[i] : i \in 1 .. Len(new)}
<1> HIDE DEF new
<1>4. Len(new) \in Nat /\ DOMAIN new = 1 .. Len(new)
    BY <1>2
<1>5. \A i \in 1 .. Len(new) :
        entries[i] = [sequence |-> Len(old) + i, owner |-> Owner(r), fact |-> new[i]]
    BY <1>4
<1>6. entries \in Seq(U) /\ Len(entries) = Len(new)
    <2>1. entries \in [1 .. Len(new) -> U]
        BY <1>4
    <2> HIDE DEF entries, U
    <2> QED BY <1>4, <2>1
<1>7. old \in Seq(U)
    BY <1>3
<1>8. Merged(r, facts) = old \o entries
    BY DEF Merged, new
<1> HIDE DEF entries, U
<1>9. /\ old \o entries \in Seq(U) /\ Len(old \o entries) = Len(old) + Len(new)
      /\ \A i \in 1 .. Len(old) : (old \o entries)[i] = old[i]
      /\ \A i \in 1 .. Len(new) : (old \o entries)[Len(old) + i] = entries[i]
    BY <1>6, <1>7
<1> QED BY <1>2, <1>5, <1>8, <1>9 DEF new, IsSeq

(* A good batch that #merge accepts keeps the ledger what it should be. *)
LEMMA MergeReadable ==
    ASSUME NEW r \in Runs, Readable(ledger[r]), NEW facts, Good(r, facts), Merges(r, facts)
    PROVE  Readable(Merged(r, facts))
<1> DEFINE old == ledger[r]
           new == Novel(r, facts)
           all == Merged(r, facts)
           n == Len(old)
           g == taskGeneration(r)
<1>1. /\ IsSeq(new) /\ IsSeq(all) /\ Len(all) = n + Len(new)
      /\ \A i \in 1 .. n : all[i] = old[i]
      /\ \A i \in 1 .. Len(new) :
            /\ all[n + i] = [sequence |-> n + i, owner |-> Owner(r), fact |-> new[i]]
            /\ \E k \in 1 .. Len(facts) : new[i] = facts[k]
            /\ new[i] \notin {e.fact : e \in Current(r)}
    BY MergedFacts DEF Readable, Good
<1>2. /\ n \in Nat /\ DOMAIN old = 1 .. n
      /\ \A x : x \in ToSet(old) <=> \E i \in 1 .. n : x = old[i]
    BY ElementsOf DEF Readable
<1>3. /\ Len(new) \in Nat /\ DOMAIN new = 1 .. Len(new) /\ DOMAIN all = 1 .. Len(all)
      /\ \A x : x \in ToSet(all) <=> \E i \in 1 .. Len(all) : x = all[i]
    BY <1>1, ElementsOf
<1>4. \A x : x \in ToSet(facts) <=> \E i \in 1 .. Len(facts) : x = facts[i]
    BY ElementsOf DEF Good
<1>5. /\ g \in 0 .. n
      /\ g # 0 => old[g].owner = Owner(r) /\ old[g].fact.kind \in Dispatching
      /\ \A i \in 1 .. n : old[i].owner = Owner(r) /\ old[i].fact.kind \in Dispatching => i <= g
    BY GenerationFacts
<1>6. \A i \in 1 .. n : old[i].sequence = i
    BY <1>2 DEF Readable, ledgerIsOrdered
<1>7. \A i \in 1 .. n : old[i].owner = Owner(r) => old[i] \in Current(r)
    BY <1>2 DEF Current
<1>8. \A x \in Current(r) : x.owner = Owner(r) /\ \E i \in 1 .. n : x = old[i]
    BY <1>2 DEF Current
<1>9. Merges(r, facts) =>
        /\ \A f \in ToSet(facts), e \in Current(r) : taskFactKey(f) = taskFactKey(e.fact) => f = e.fact
        /\ \A i, j \in 1 .. Len(new) : taskFactKey(new[i]) = taskFactKey(new[j]) => i = j
    BY <1>3 DEF Merges
<1>10. \A i \in 1 .. Len(all) : \/ i \in 1 .. n
                                \/ i - n \in 1 .. Len(new) /\ i = n + (i - n)
    BY <1>1, <1>2, <1>3
<1> HIDE DEF new, all, g, n, old
<1>11. \A i \in 1 .. Len(all) : i \notin 1 .. n =>
        /\ i > n /\ all[i].sequence = i /\ all[i].owner = Owner(r)
        /\ all[i].fact = new[i - n]
        /\ \E k \in 1 .. Len(facts) : all[i].fact = facts[k]
        /\ all[i].fact \notin {e.fact : e \in Current(r)}
    <2> TAKE i \in 1 .. Len(all)
    <2> HAVE i \notin 1 .. n
    <2>1. i - n \in 1 .. Len(new) /\ i = n + (i - n) /\ i > n
        BY <1>2, <1>10
    <2>2. all[i] = [sequence |-> i, owner |-> Owner(r), fact |-> new[i - n]]
        BY <1>1, <2>1
    <2> QED BY <1>1, <2>1, <2>2
<1>12. ledgerIsOrdered(all)
    <2>1. \A i \in 1 .. Len(all) : all[i].sequence = i
        BY <1>1, <1>6, <1>11
    <2>2. ASSUME NEW i \in 1 .. Len(all), NEW j \in 1 .. Len(all), i \in 1 .. n, j \notin 1 .. n,
                 all[i].owner = all[j].owner, taskFactKey(all[i].fact) = taskFactKey(all[j].fact)
          PROVE  FALSE
        <3>1. all[i] \in Current(r)
            BY <1>1, <1>7, <1>11, <2>2
        <3>2. all[j].fact \in ToSet(facts)
            BY <1>4, <1>11, <2>2
        <3>3. all[j].fact = all[i].fact
            BY <1>9, <2>2, <3>1, <3>2
        <3> QED BY <1>11, <2>2, <3>1, <3>3
    <2>3. ASSUME NEW i \in 1 .. Len(all), NEW j \in 1 .. Len(all),
                 all[i].owner = all[j].owner, taskFactKey(all[i].fact) = taskFactKey(all[j].fact)
          PROVE  i = j
        <3>1. CASE i \in 1 .. n /\ j \in 1 .. n
            BY <1>1, <1>2, <2>3, <3>1 DEF Readable, ledgerIsOrdered, old
        <3>2. CASE i \notin 1 .. n /\ j \notin 1 .. n
            <4>1. i - n \in 1 .. Len(new) /\ j - n \in 1 .. Len(new)
                BY <1>10, <3>2
            <4>2. i - n = j - n
                BY <1>9, <1>11, <2>3, <3>2, <4>1
            <4> QED BY <1>2, <4>2
        <3> QED BY <2>2, <2>3, <3>1, <3>2
    <2> QED BY <1>3, <2>1, <2>3 DEF ledgerIsOrdered
<1>13. ASSUME NEW i \in 1 .. n, NEW low \in Nat, Apart(old, low, i)
       PROVE  Apart(all, low, i)
    BY <1>1, <1>2, <1>13 DEF Apart
(* No dispatch lies between what is at least the newest one and a new      *)
(* entry of a quiet batch.                                                 *)
<1>14. ASSUME NEW i \in 1 .. Len(all), i \notin 1 .. n, NEW low \in Nat, low >= g, Quiet(r, facts)
       PROVE  Apart(all, low, i)
    <2> SUFFICES ASSUME NEW m \in low + 1 .. i - 1, all[m].owner = all[i].owner
                 PROVE  all[m].fact.kind \notin Dispatching
        BY DEF Apart
    <2>1. m \in 1 .. Len(all)
        BY <1>1, <1>2, <1>3
    <2>2. CASE m \in 1 .. n
        <3>1. ~(m <= g)
            BY <1>2, <1>5, <1>14
        <3> QED BY <1>1, <1>5, <1>11, <1>14, <2>2, <3>1
    <2>3. CASE m \notin 1 .. n
        BY <1>11, <1>14, <2>1, <2>3 DEF Quiet
    <2> QED BY <2>2, <2>3
<1>15. ASSUME NEW i \in 1 .. Len(all), all[i].fact.kind = "task_control_authorized"
       PROVE  Reached(all, all[i])
    <2>1. CASE i \in 1 .. n
        <3>1. Reached(old, old[i]) /\ old[i].sequence = i /\ all[i] = old[i]
            BY <1>1, <1>2, <1>6, <1>15, <2>1 DEF Readable, old
        <3>2. old[i].fact.generation \in 1 .. n /\ Apart(old, old[i].fact.generation, i)
            BY <3>1 DEF Reached, n
        <3>3. old[i].fact.generation \in 1 .. Len(all) /\ all[old[i].fact.generation] = old[old[i].fact.generation]
            BY <1>1, <1>2, <1>3, <3>2
        <3>4. Apart(all, old[i].fact.generation, i)
            BY <1>13, <2>1, <3>2
        <3> QED BY <3>1, <3>3, <3>4 DEF Reached
    <2>2. CASE i \notin 1 .. n
        <3>1. PICK k \in 1 .. Len(facts) : all[i].fact = facts[k]
            BY <1>11, <2>2
        <3>2. Quiet(r, facts) /\ Reaches(r, all[i].fact)
            BY <1>15, <3>1 DEF Good, Dispatches, Quiet
        <3>3. all[i].sequence = i /\ i > n /\ all[i].owner = Owner(r)
            BY <1>11, <2>2
        <3>4. all[i].fact.generation = g /\ g \in 1 .. n /\ all[g] = old[g] /\ g \in 1 .. Len(all)
            BY <1>1, <1>2, <1>3, <1>5, <3>2 DEF Reaches, g
        <3>5. Apart(all, g, i)
            BY <1>2, <1>14, <2>2, <3>2, <3>4
        <3> QED BY <1>2, <1>5, <3>2, <3>3, <3>4, <3>5 DEF Reached, Reaches, g, old
    <2> QED BY <2>1, <2>2
<1>16. ASSUME NEW i \in 1 .. Len(all), all[i].fact.kind = "task_receipt_observed"
       PROVE  Backed(all, all[i])
    <2>1. CASE i \in 1 .. n
        <3>1. Backed(old, old[i]) /\ old[i].sequence = i /\ all[i] = old[i]
            BY <1>1, <1>2, <1>6, <1>16, <2>1 DEF Readable, old
        <3>2. PICK m \in 1 .. n :
                /\ old[m].fact.kind = "task_control_authorized" /\ old[m].fact.call = old[i].fact.call
                /\ old[m].owner = old[i].owner /\ old[m].sequence < i
                /\ Apart(old, old[m].sequence, i)
            BY <1>2, <3>1 DEF Backed
        <3>3. all[m] \in ToSet(all) /\ all[m] = old[m] /\ old[m].sequence = m
            BY <1>1, <1>2, <1>3, <1>6
        <3>4. Apart(all, m, i)
            BY <1>2, <1>13, <2>1, <3>2, <3>3
        <3> QED BY <3>1, <3>2, <3>3, <3>4 DEF Backed
    <2>2. CASE i \notin 1 .. n
        <3>1. PICK k \in 1 .. Len(facts) : all[i].fact = facts[k]
            BY <1>11, <2>2
        <3>2. Quiet(r, facts) /\ Matched(r, all[i].fact)
            BY <1>16, <3>1 DEF Good, Dispatches, Quiet
        <3>3. all[i].sequence = i /\ i > n /\ all[i].owner = Owner(r)
            BY <1>11, <2>2
        <3>4. PICK m \in 1 .. n :
                /\ old[m].owner = Owner(r) /\ old[m].fact.kind = "task_control_authorized"
                /\ old[m].fact.call = all[i].fact.call /\ old[m].fact.generation = g
            BY <1>8, <3>2 DEF Matched, g
        <3>5. all[m] \in ToSet(all) /\ all[m] = old[m] /\ old[m].sequence = m
            BY <1>1, <1>2, <1>3, <1>6
        <3>6. Reached(old, old[m])
            BY <1>2, <3>4 DEF Readable, old
        <3>7. m >= g /\ m \in Nat /\ m < i
            BY <1>2, <1>5, <3>3, <3>4, <3>5, <3>6 DEF Reached
        <3>8. Apart(all, m, i)
            BY <1>14, <2>2, <3>2, <3>7
        <3> QED BY <3>3, <3>4, <3>5, <3>7, <3>8 DEF Backed
    <2> QED BY <2>1, <2>2
<1>17. \A e \in ToSet(all) :
        /\ e.fact.kind = "task_control_authorized" => Reached(all, e)
        /\ e.fact.kind = "task_receipt_observed" => Backed(all, e)
    BY <1>3, <1>15, <1>16
<1> QED BY <1>1, <1>12, <1>17 DEF Readable, all

-----------------------------------------------------------------------------
(* What is reserved                                                        *)

(* The sum as it grows along a ledger. *)
Counts(l, o, sum, n) ==
    sum[n] = IF n = 0 THEN 0
             ELSE IF l[n].owner = o /\ l[n].fact.kind = "task_reserved"
             THEN sum[n - 1] + l[n].fact.items ELSE sum[n - 1]

(* ReservedItems is the sum up to the last fact: one more step per fact. *)
LEMMA SumFacts ==
    ASSUME NEW l, IsSeq(l), NEW o
    PROVE  \E sum : /\ ReservedItems(l, o) = sum[Len(l)]
                    /\ \A n \in 0 .. Len(l) : Counts(l, o, sum, n)
<1> DEFINE body(f, n) == IF n = 0 THEN 0
                         ELSE IF l[n].owner = o /\ l[n].fact.kind = "task_reserved"
                         THEN f[n - 1] + l[n].fact.items ELSE f[n - 1]
           upTo(n, f) == f = [m \in 0 .. n |-> body(f, m)]
           sum == CHOOSE f : upTo(Len(l), f)
<1>1. ReservedItems(l, o) = sum[Len(l)]
    BY DEF ReservedItems
<1>2. Len(l) \in Nat
    BY ElementsOf
<1>3. \E f : upTo(Len(l), f)
    <2> DEFINE wrong == {n \in 0 .. Len(l) : ~\E f : upTo(n, f)}
    <2>1. SUFFICES ASSUME wrong # {} PROVE FALSE
        <3>1. Len(l) \in 0 .. Len(l)
            BY <1>2
        <3> HIDE DEF upTo
        <3> QED BY <3>1
    <2>2. PICK n \in wrong : \A m \in wrong : n <= m
        <3>1. wrong \in SUBSET Nat
            BY <1>2
        <3> HIDE DEF wrong
        <3> QED BY <2>1, <3>1, LeastExists
    <2>3. n # 0
        <3> DEFINE f == [m \in 0 .. 0 |-> 0]
        <3>1. upTo(0, f)
            OBVIOUS
        <3> HIDE DEF f, upTo
        <3> QED BY <3>1
    <2>4. PICK f : upTo(n - 1, f)
        <3>1. n - 1 \notin wrong /\ n - 1 \in 0 .. Len(l)
            <4> HIDE DEF upTo
            <4> QED BY <1>2, <2>2, <2>3
        <3> HIDE DEF upTo
        <3> QED BY <3>1
    <2> DEFINE g == [m \in 0 .. n |-> IF m = n THEN body(f, n) ELSE f[m]]
    <2>5. n \in Nat /\ n > 0
        BY <1>2, <2>3
    <2>6. \A m \in 0 .. (n - 1) : f[m] = body(f, m)
        BY <2>4, <2>5
    <2>7. \A m \in 0 .. n : g[m] = body(g, m)
        <3> SUFFICES ASSUME NEW m \in 0 .. n PROVE g[m] = body(g, m)
            OBVIOUS
        <3>1. CASE m = n
            <4>1. g[n] = body(f, n) /\ g[n - 1] = f[n - 1]
                BY <2>5
            <4>2. n # 0
                BY <2>5
            <4> HIDE DEF g
            <4> QED BY <3>1, <4>1, <4>2
        <3>2. CASE m # n
            <4>1. g[m] = f[m] /\ (m # 0 => g[m - 1] = f[m - 1])
                BY <2>5, <3>2
            <4>2. f[m] = body(f, m)
                <5>1. m \in 0 .. (n - 1)
                    BY <2>5, <3>2
                <5> HIDE DEF body
                <5> QED BY <2>6, <5>1
            <4> HIDE DEF g
            <4> QED BY <4>1, <4>2
        <3> QED BY <3>1, <3>2
    <2>8. upTo(n, g)
        <3> HIDE DEF body
        <3> QED BY <2>7
    <2> HIDE DEF upTo, g
    <2> QED BY <2>8
<1>4. \A n \in 0 .. Len(l) : sum[n] = body(sum, n)
    <2>1. upTo(Len(l), sum)
        <3> HIDE DEF upTo
        <3> QED BY <1>3
    <2> HIDE DEF sum, body
    <2> QED BY <2>1
<1> HIDE DEF sum
<1>5. \A n \in 0 .. Len(l) : Counts(l, o, sum, n)
    BY <1>4 DEF Counts
<1> QED BY <1>1, <1>5

(* Entries that reserve nothing for an owner leave its sum as it was; a    *)
(* reservation adds its tasks.                                             *)
LEMMA SumExtends ==
    ASSUME NEW l, IsSeq(l), NEW k, IsSeq(k), Len(l) <= Len(k),
           \A i \in 1 .. Len(l) : k[i] = l[i], NEW o
    PROVE  /\ (\A i \in Len(l) + 1 .. Len(k) :
                  ~(k[i].owner = o /\ k[i].fact.kind = "task_reserved"))
                => ReservedItems(k, o) = ReservedItems(l, o)
           /\ Len(k) = Len(l) + 1 /\ k[Len(k)].owner = o /\ k[Len(k)].fact.kind = "task_reserved"
                => ReservedItems(k, o) = ReservedItems(l, o) + k[Len(k)].fact.items
<1>1. Len(l) \in Nat /\ Len(k) \in Nat
    BY ElementsOf
<1>2. PICK old : ReservedItems(l, o) = old[Len(l)] /\ \A n \in 0 .. Len(l) : Counts(l, o, old, n)
    BY SumFacts
<1>3. PICK new : ReservedItems(k, o) = new[Len(k)] /\ \A n \in 0 .. Len(k) : Counts(k, o, new, n)
    BY SumFacts
<1>4. \A n \in 0 .. Len(l) : new[n] = old[n]
    <2> DEFINE wrong == {n \in 0 .. Len(l) : new[n] # old[n]}
    <2>1. SUFFICES ASSUME wrong # {} PROVE FALSE
        OBVIOUS
    <2>2. PICK n \in wrong : \A m \in wrong : n <= m
        <3>1. wrong \in SUBSET Nat
            BY <1>1
        <3> HIDE DEF wrong
        <3> QED BY <2>1, <3>1, LeastExists
    <2>3. n \in 0 .. Len(l) /\ n \in 0 .. Len(k) /\ new[n] # old[n]
        BY <1>1
    <2>4. n = 0 \/ (n - 1 \in 0 .. Len(l) /\ new[n - 1] = old[n - 1] /\ k[n] = l[n])
        BY <1>1, <2>2, <2>3
    <2>5. Counts(l, o, old, n) /\ Counts(k, o, new, n)
        BY <1>2, <1>3, <2>3
    <2> QED BY <2>3, <2>4, <2>5 DEF Counts
<1>5. ASSUME \A i \in Len(l) + 1 .. Len(k) : ~(k[i].owner = o /\ k[i].fact.kind = "task_reserved")
      PROVE  new[Len(k)] = old[Len(l)]
    <2> DEFINE wrong == {n \in Len(l) .. Len(k) : new[n] # old[Len(l)]}
    <2>1. SUFFICES ASSUME wrong # {} PROVE FALSE
        BY <1>1
    <2>2. PICK n \in wrong : \A m \in wrong : n <= m
        <3>1. wrong \in SUBSET Nat
            BY <1>1
        <3> HIDE DEF wrong
        <3> QED BY <2>1, <3>1, LeastExists
    <2>3. n \in Len(l) .. Len(k) /\ n \in 0 .. Len(k) /\ new[n] # old[Len(l)]
        BY <1>1
    <2>4. n # Len(l)
        BY <1>1, <1>4, <2>3
    <2>5. n - 1 \in Len(l) .. Len(k) /\ new[n - 1] = old[Len(l)]
        BY <1>1, <2>2, <2>3, <2>4
    <2>6. Counts(k, o, new, n)
        BY <1>3, <2>3
    <2> QED BY <1>1, <1>5, <2>3, <2>4, <2>5, <2>6 DEF Counts
<1>6. ASSUME Len(k) = Len(l) + 1, k[Len(k)].owner = o, k[Len(k)].fact.kind = "task_reserved"
      PROVE  new[Len(k)] = old[Len(l)] + k[Len(k)].fact.items
    <2>1. Counts(k, o, new, Len(k)) /\ Len(k) # 0 /\ Len(k) - 1 = Len(l)
        BY <1>1, <1>3, <1>6
    <2> QED BY <1>1, <1>4, <1>6, <2>1 DEF Counts
<1> QED BY <1>2, <1>3, <1>5, <1>6

(* A good batch that #merge accepts keeps every owner within the limit. *)
LEMMA MergeLimited ==
    ASSUME NEW r \in Runs, Readable(ledger[r]), Limited(ledger[r]),
           NEW facts, Good(r, facts), Merges(r, facts)
    PROVE  Limited(Merged(r, facts))
<1> DEFINE old == ledger[r]
           new == Novel(r, facts)
           all == Merged(r, facts)
<1>1. /\ IsSeq(old) /\ IsSeq(new) /\ IsSeq(all) /\ Len(all) = Len(old) + Len(new)
      /\ \A i \in 1 .. Len(old) : all[i] = old[i]
      /\ \A i \in 1 .. Len(new) :
            /\ all[Len(old) + i] = [sequence |-> Len(old) + i, owner |-> Owner(r), fact |-> new[i]]
            /\ \E k \in 1 .. Len(facts) : new[i] = facts[k]
    BY MergedFacts DEF Readable, Good
<1>2. Len(old) \in Nat /\ Len(new) \in Nat /\ DOMAIN new = 1 .. Len(new) /\ Len(facts) \in Nat
    BY <1>1, ElementsOf DEF Good
<1>3. \A i, j \in 1 .. Len(new) : taskFactKey(new[i]) = taskFactKey(new[j]) => i = j
    BY <1>2 DEF Merges
<1> HIDE DEF old, new, all
<1>4. \A i \in Len(old) + 1 .. Len(all) :
        \E m \in 1 .. Len(new) : all[i].owner = Owner(r) /\ all[i].fact = new[m]
    <2> TAKE i \in Len(old) + 1 .. Len(all)
    <2>1. PICK m \in 1 .. Len(new) : i = Len(old) + m
        <3>1. i - Len(old) \in 1 .. Len(new) /\ i = Len(old) + (i - Len(old))
            BY <1>1, <1>2
        <3> QED BY <3>1
    <2>2. all[i] = [sequence |-> Len(old) + m, owner |-> Owner(r), fact |-> new[m]]
        BY <1>1, <2>1
    <2> QED BY <2>2
<1>5. Len(old) <= Len(all)
    BY <1>1, <1>2
<1> SUFFICES ASSUME NEW o PROVE ReservedItems(all, o) \in 0 .. MaxFanOut
    BY DEF Limited, all
<1>6. ReservedItems(old, o) \in 0 .. MaxFanOut /\ MaxFanOut \in Nat
    BY TaskAssumption DEF Limited, old
<1>7. CASE \A i \in Len(old) + 1 .. Len(all) :
              ~(all[i].owner = o /\ all[i].fact.kind = "task_reserved")
    <2>1. ReservedItems(all, o) = ReservedItems(old, o)
        BY <1>1, <1>5, <1>7, SumExtends
    <2> QED BY <1>6, <2>1
<1>8. CASE \E i \in Len(old) + 1 .. Len(all) :
              all[i].owner = o /\ all[i].fact.kind = "task_reserved"
    <2>1. PICK i \in Len(old) + 1 .. Len(all) :
              all[i].owner = o /\ all[i].fact.kind = "task_reserved"
        BY <1>8
    <2>2. PICK m \in 1 .. Len(new) : all[i].owner = Owner(r) /\ all[i].fact = new[m]
        BY <1>4
    <2>3. PICK k \in 1 .. Len(facts) : new[m] = facts[k]
        BY <1>1
    <2>4. /\ Len(facts) = 1 /\ facts[k].items \in Nat
          /\ facts[k].items + ReservedItems(old, o) <= MaxFanOut
        BY <2>1, <2>2, <2>3 DEF Good, Spares, old
    <2>5. \A j \in 1 .. Len(new) : new[j] = new[m]
        <3> TAKE j \in 1 .. Len(new)
        <3>1. PICK h \in 1 .. Len(facts) : new[j] = facts[h]
            BY <1>1
        <3>2. h = k
            BY <2>4
        <3> QED BY <2>3, <3>1, <3>2
    <2>6. Len(new) = 1
        <3>1. 1 \in 1 .. Len(new) /\ Len(new) \in 1 .. Len(new)
            BY <1>2
        <3> QED BY <1>3, <2>5, <3>1
    <2>7. Len(all) = Len(old) + 1 /\ i = Len(all)
        BY <1>1, <1>2, <2>6
    <2>8. ReservedItems(all, o) = ReservedItems(old, o) + all[i].fact.items
        BY <1>1, <1>5, <2>1, <2>7, SumExtends
    <2> QED BY <1>6, <2>2, <2>3, <2>4, <2>8
<1> QED BY <1>7, <1>8

-----------------------------------------------------------------------------
(* The decisions                                                           *)

(* A decision without facts. *)
LEMMA ReturnGood ==
    ASSUME NEW r, NEW value
    PROVE  Good(r, Return(value).facts)
BY DEF Good, IsSeq, Dispatches, Spares, Return

(* Facts that neither authorize a control nor are receipts. *)
LEMMA DispatchGood ==
    ASSUME NEW r, NEW S, NEW s \in Seq(S),
           \A x \in S : x.kind \notin {"task_control_authorized", "task_receipt_observed", "task_reserved"}
    PROVE  Good(r, s)
<1>1. \A i \in 1 .. Len(s) : s[i] \in S
    OBVIOUS
<1> QED BY <1>1 DEF Good, IsSeq, Dispatches, Spares

(* A task is reserved. *)
LEMMA ReserveGood ==
    ASSUME NEW r, Limited(ledger[r]), NEW c, NEW items \in Nat
    PROVE  Good(r, reserve(r, c, items).facts)
<1> DEFINE f == Reserved(c, items)
<1>1. f.kind = "task_reserved" /\ f.items = items
    BY DEF Reserved
<1>2. ReservedItems(ledger[r], Owner(r)) \in Nat /\ MaxFanOut \in Nat
    BY TaskAssumption DEF Limited
<1>3. \/ reserve(r, c, items).facts = <<>>
      \/ /\ reserve(r, c, items).facts = <<f>>
         /\ ~(items + ReservedItems(ledger[r], Owner(r)) > MaxFanOut)
    BY DEF reserve, Return, Adds
<1> HIDE DEF f
<1>4. <<f>> \in Seq({f}) /\ Len(<<f>>) = 1 /\ \A i \in 1 .. 1 : <<f>>[i] = f
    OBVIOUS
<1>5. IsSeq(<<f>>)
    BY <1>4 DEF IsSeq
<1>6. Dispatches(<<f>>)
    BY <1>1, <1>4 DEF Dispatches
<1>7. ~(items + ReservedItems(ledger[r], Owner(r)) > MaxFanOut) => Spares(r, <<f>>)
    BY <1>1, <1>2, <1>4 DEF Spares
<1>8. Good(r, <<>>)
    BY ReturnGood DEF Return
<1> QED BY <1>3, <1>5, <1>6, <1>7, <1>8 DEF Good

(* Its workers are bound, with a job or without. *)
LEMMA BindGood ==
    ASSUME NEW r, NEW c, NEW bindings, NEW async
    PROVE  Good(r, bind(r, c, bindings, async).facts)
<1> DEFINE bound == Bound(c, bindings)
           blocked == Capability(c, Len(ledger[r]) + 1, "blocked")
           S == {bound, blocked}
<1>1. bound.kind = "task_identities_bound" /\ blocked.kind = "async_capability_observed"
    BY DEF Bound, Capability
<1>2. bind(r, c, bindings, async).facts \in {<<>>, <<bound>> \o <<>>, <<bound>> \o <<blocked>>}
    BY DEF bind, Return, Adds
<1> HIDE DEF bound, blocked
<1>3. \A x \in S :
        x.kind \notin {"task_control_authorized", "task_receipt_observed", "task_reserved"}
    BY <1>1
<1>4. <<bound>> \in Seq(S) /\ <<blocked>> \in Seq(S) /\ <<>> \in Seq(S)
    OBVIOUS
<1> HIDE DEF S
<1>5. \A s, t \in Seq(S) : s \o t \in Seq(S)
    OBVIOUS
<1>6. bind(r, c, bindings, async).facts \in Seq(S)
    BY <1>2, <1>4, <1>5
<1> QED BY <1>3, <1>6, DispatchGood

(* The workers a run owns are those its newest dispatch is bound to. *)
LEMMA OwnedAreBound ==
    ASSUME NEW r \in Runs, Readable(ledger[r]),
           NEW targets, targets \subseteq OwnedAgents(r), targets # {}
    PROVE  LET f == ledger[r][taskGeneration(r)].fact
           IN  f.kind = "task_identities_bound" /\ targets \subseteq {b.agent : b \in ToSet(f.bindings)}
<1> DEFINE g == taskGeneration(r)
<1>1. /\ DOMAIN ledger[r] = 1 .. Len(ledger[r])
      /\ \A x : x \in ToSet(ledger[r]) <=> \E i \in 1 .. Len(ledger[r]) : x = ledger[r][i]
    BY ElementsOf DEF Readable
<1>2. \A i \in 1 .. Len(ledger[r]) : ledger[r][i].sequence = i
    BY <1>1 DEF Readable, ledgerIsOrdered
<1>3. \A e \in Facts(r, "task_identities_bound") : e.sequence = g =>
        e = ledger[r][g] /\ e.fact.kind = "task_identities_bound"
    BY <1>1, <1>2 DEF Facts, Current
<1>4. ASSUME NEW t \in targets
      PROVE  ledger[r][g].fact.kind = "task_identities_bound"
             /\ \E b \in ToSet(ledger[r][g].fact.bindings) : t = b.agent
    <2>1. PICK b \in Bindings(r) : t = b.agent
        BY DEF OwnedAgents
    <2>2. PICK e \in Facts(r, "task_identities_bound") : e.sequence = g /\ b \in ToSet(e.fact.bindings)
        BY DEF Bindings
    <2> QED BY <1>3, <2>1, <2>2
<1>5. PICK t \in targets : TRUE
    OBVIOUS
<1> HIDE DEF g
<1>6. ledger[r][g].fact.kind = "task_identities_bound"
    BY <1>4, <1>5
<1>7. targets \subseteq {b.agent : b \in ToSet(ledger[r][g].fact.bindings)}
    BY <1>4
<1> QED BY <1>6, <1>7 DEF g

(* A job a session may control is the job of an agent it may control. *)
LEMMA JobsAreAgents ==
    ASSUME NEW r
    PROVE  OwnedJobs(r) \subseteq OwnedAgents(r)
BY DEF OwnedJobs, OwnedAgents

(* A control that is authorized. *)
LEMMA AuthorizedGood ==
    ASSUME NEW r \in Runs, Readable(ledger[r]), NEW c, NEW control, NEW targets, NEW key,
           taskGeneration(r) # 0, targets \subseteq OwnedAgents(r)
    PROVE  Good(r, <<Authorized(c, control, targets, key, taskGeneration(r))>>)
<1> DEFINE f == Authorized(c, control, targets, key, taskGeneration(r))
<1>1. f.kind = "task_control_authorized" /\ f.targets = targets /\ f.generation = taskGeneration(r)
    BY DEF Authorized
<1> HIDE DEF f
<1>2. Reaches(r, f)
    BY <1>1, OwnedAreBound DEF Reaches
<1>3. <<f>> \in Seq({f})
    OBVIOUS
<1>4. Quiet(r, <<f>>)
    BY <1>1, <1>2 DEF Quiet, Dispatching
<1>5. Spares(r, <<f>>)
    BY <1>1 DEF Spares
<1> QED BY <1>3, <1>4, <1>5 DEF Good, IsSeq, f

(* A control is authorized, or nothing is appended. *)
LEMMA AuthorizeGood ==
    ASSUME NEW r \in Runs, Readable(ledger[r]), NEW c, NEW i
    PROVE  Good(r, authorize(r, c, i).facts)
<1>1. Good(r, <<>>)
    BY ReturnGood DEF Return
<1>2. CASE authorize(r, c, i).facts = <<>>
    BY <1>1, <1>2
<1>3. CASE authorize(r, c, i).facts # <<>>
    <2>1. /\ taskGeneration(r) # 0 /\ i.targets \subseteq OwnedAgents(r)
          /\ authorize(r, c, i).facts = <<Authorized(c, i.control, i.targets, i, taskGeneration(r))>>
        BY <1>3, JobsAreAgents DEF authorize, Return, Adds
    <2> QED BY <2>1, AuthorizedGood
<1> QED BY <1>2, <1>3

(* The same of a wait for jobs. *)
LEMMA AuthorizeHubWaitGood ==
    ASSUME NEW r \in Runs, Readable(ledger[r]), NEW c, NEW i
    PROVE  Good(r, authorizeHubWait(r, c, i).facts)
<1>1. Good(r, <<>>)
    BY ReturnGood DEF Return
<1>2. CASE authorizeHubWait(r, c, i).facts = <<>>
    BY <1>1, <1>2
<1>3. CASE authorizeHubWait(r, c, i).facts # <<>>
    <2>1. /\ taskGeneration(r) # 0 /\ i.jobs \subseteq OwnedAgents(r)
          /\ authorizeHubWait(r, c, i).facts
               = <<Authorized(c, "job_snapshot", i.jobs, i, taskGeneration(r))>>
        BY <1>3, JobsAreAgents DEF authorizeHubWait, Return, Adds
    <2> QED BY <2>1, AuthorizedGood
<1> QED BY <1>2, <1>3

(* A call whose authorization matches has one of the newest dispatch. *)
LEMMA MatchingIsMatched ==
    ASSUME NEW r, NEW c, NEW control, matchingAuthorization(r, c, control) = "matched",
           NEW f, f.call = c
    PROVE  Matched(r, f)
<1> DEFINE found == {a \in FactsOf(r, "task_control_authorized", c) :
                       a.fact.control = control /\ a.fact.inputKey = call[c].input}
<1>1. matchingAuthorization(r, c, control) =
        IF found = {} THEN "uncorrelated"
        ELSE IF \E a \in found : a.fact.generation # taskGeneration(r) THEN "stale_generation"
        ELSE "matched"
    BY DEF matchingAuthorization
<1> HIDE DEF found
<1>2. found # {} /\ \A a \in found : a.fact.generation = taskGeneration(r)
    BY <1>1
<1>3. PICK a \in found : a.fact.generation = taskGeneration(r)
    BY <1>2
<1> QED BY <1>3 DEF found, FactsOf, Facts, Matched

(* Receipts of a call that is matched, and what is said of its capability. *)
LEMMA RecordGood ==
    ASSUME NEW r, NEW c, NEW control, matchingAuthorization(r, c, control) = "matched", NEW S,
           \A x \in S : x.kind \in {"task_receipt_observed", "async_capability_observed"} /\ x.call = c,
           NEW s \in Seq(S)
    PROVE  Good(r, s)
<1>1. \A i \in 1 .. Len(s) : s[i] \in S
    OBVIOUS
<1>2. \A x \in S : Matched(r, x)
    BY MatchingIsMatched
<1> QED BY <1>1, <1>2 DEF Good, IsSeq, Quiet, Dispatching, Spares

(* The receipts of one result. *)
Receipts(c, kind, X, status) == {Receipt(c, kind, t, status) : t \in X}

(* The receipts of one result, put in some order. *)
LEMMA ReceiptsOf ==
    ASSUME NEW c, NEW kind, NEW X, IsFiniteSet(X), NEW status
    PROVE  /\ SetToSeq(Receipts(c, kind, X, status)) \in Seq(Receipts(c, kind, X, status))
           /\ \A x \in Receipts(c, kind, X, status) :
                 x.kind \in {"task_receipt_observed", "async_capability_observed"} /\ x.call = c
<1> DEFINE S == Receipts(c, kind, X, status)
<1>1. IsFiniteSet(S)
    <2> DEFINE f == [t \in X |-> Receipt(c, kind, t, status)]
    <2>1. f \in [X -> S] /\ \A x \in S : \E t \in X : f[t] = x
        BY DEF Receipts
    <2> HIDE DEF f, S
    <2>2. f \in Surjection(X, S)
        BY <2>1 DEF Surjection
    <2> QED BY <2>2, FS_Surjection
<1>2. \A x \in S : x.kind = "task_receipt_observed" /\ x.call = c
    BY DEF Receipt, Receipts
<1>3. SetToSeq(S) \in Seq(S)
    <2> HIDE DEF S
    <2> QED BY <1>1, SetToSeqTyped
<1> QED BY <1>2, <1>3

(* What the results of a job, a cancellation and a message leave. *)
LEMMA RecordJobSnapshotGood ==
    ASSUME NEW r, NEW c, NEW jobs, IsFiniteSet(jobs), NEW status
    PROVE  Good(r, recordJobSnapshot(r, c, jobs, status).facts)
<1> DEFINE g == taskGeneration(r)
           receipts == Receipts(c, "job", jobs, status)
<1>1. Good(r, <<>>)
    BY ReturnGood DEF Return
<1>2. CASE matchingAuthorization(r, c, "job_snapshot") # "matched"
    BY <1>1, <1>2 DEF recordJobSnapshot, Return
<1>3. CASE matchingAuthorization(r, c, "job_snapshot") = "matched"
    <2> DEFINE blocked == Capability(c, g, "blocked")
               proven == Capability(c, g, "proven")
               S == receipts \cup {blocked, proven}
    <2>1. recordJobSnapshot(r, c, jobs, status).facts
            \in {<<blocked>>, Append(SetToSeq(receipts), proven)}
        BY <1>3 DEF recordJobSnapshot, Adds, Receipts
    <2>2. /\ SetToSeq(receipts) \in Seq(receipts)
          /\ \A x \in receipts :
                x.kind \in {"task_receipt_observed", "async_capability_observed"} /\ x.call = c
        BY ReceiptsOf
    <2>3. \A x \in {blocked, proven} : x.kind = "async_capability_observed" /\ x.call = c
        BY DEF Capability
    <2> HIDE DEF receipts, blocked, proven
    <2>4. <<blocked>> \in Seq(S) /\ Append(SetToSeq(receipts), proven) \in Seq(S)
        BY <2>2
    <2>5. \A x \in S : x.kind \in {"task_receipt_observed", "async_capability_observed"} /\ x.call = c
        BY <2>2, <2>3
    <2> HIDE DEF S
    <2>6. recordJobSnapshot(r, c, jobs, status).facts \in Seq(S)
        BY <2>1, <2>4
    <2> QED BY <1>3, <2>5, <2>6, RecordGood
<1> QED BY <1>2, <1>3

(* The receipts of a cancellation. *)
LEMMA RecordCancellationGood ==
    ASSUME NEW r, NEW c, NEW cancelled, IsFiniteSet(cancelled)
    PROVE  Good(r, recordCancellation(r, c, cancelled).facts)
<1> DEFINE targets == AuthorizedTargets(r, c)
           receipts == Receipts(c, "job_cancel", targets, "cancelled")
<1>1. Good(r, <<>>)
    BY ReturnGood DEF Return
<1>2. CASE matchingAuthorization(r, c, "job_cancel") # "matched" \/ ~(targets \subseteq cancelled)
    BY <1>1, <1>2 DEF recordCancellation, Return
<1>3. CASE matchingAuthorization(r, c, "job_cancel") = "matched" /\ targets \subseteq cancelled
    <2>1. recordCancellation(r, c, cancelled).facts = SetToSeq(receipts)
        BY <1>3 DEF recordCancellation, Adds, Receipts
    <2> HIDE DEF targets
    <2>2. IsFiniteSet(targets)
        BY <1>3, FS_Subset
    <2>3. /\ SetToSeq(receipts) \in Seq(receipts)
          /\ \A x \in receipts :
                x.kind \in {"task_receipt_observed", "async_capability_observed"} /\ x.call = c
        BY <2>2, ReceiptsOf
    <2> HIDE DEF receipts
    <2> QED BY <1>3, <2>1, <2>3, RecordGood
<1> QED BY <1>2, <1>3

(* The receipts of a message. *)
LEMMA RecordIrcReceiptsGood ==
    ASSUME NEW r, NEW c, NEW answered, IsFiniteSet(answered), NEW outcome
    PROVE  Good(r, recordIrcReceipts(r, c, answered, outcome).facts)
<1> DEFINE receipts == Receipts(c, "irc", answered, outcome)
<1>1. Good(r, <<>>)
    BY ReturnGood DEF Return
<1>2. CASE matchingAuthorization(r, c, "irc_send") # "matched" \/ answered # AuthorizedTargets(r, c)
    BY <1>1, <1>2 DEF recordIrcReceipts, Return
<1>3. CASE matchingAuthorization(r, c, "irc_send") = "matched" /\ answered = AuthorizedTargets(r, c)
    <2>1. recordIrcReceipts(r, c, answered, outcome).facts = SetToSeq(receipts)
        BY <1>3 DEF recordIrcReceipts, Adds, Receipts
    <2>2. /\ SetToSeq(receipts) \in Seq(receipts)
          /\ \A x \in receipts :
                x.kind \in {"task_receipt_observed", "async_capability_observed"} /\ x.call = c
        BY ReceiptsOf
    <2> HIDE DEF receipts
    <2> QED BY <1>3, <2>1, <2>2, RecordGood
<1> QED BY <1>2, <1>3

-----------------------------------------------------------------------------
(* The handlers                                                            *)

(* A result that is kept is about workers the host may report on; the call *)
(* of a task needs no more.                                                *)
Sound(h) ==
    /\ "at" \in DOMAIN h
    /\ h.at \in {"recording", "done"} => "result" \in DOMAIN h
    /\ "result" \in DOMAIN h =>
          "input" \in DOMAIN h /\ (h.input \in TaskInputs \/ h.result.report \in Reports)

CallInv == call = [c \in Calls |-> call[c]] /\ \A c \in Calls : Sound(call[c])

Inv == LedgerInv /\ CallInv

(* What OnlyOwnerAppends says of a step. *)
Appends ==
    \A r \in Runs : ledger'[r] # ledger[r] =>
       /\ commit = {}
       /\ Listed(run[r].owner) = {r} /\ run[r] = entry[r]
       /\ \A i \in Len(ledger[r]) + 1 .. Len(ledger'[r]) : ledger'[r][i].owner = Owner(r)

(* A step that moves one call. *)
LEMMA OnlyCallMoves ==
    ASSUME CallInv, NEW c \in Calls, NEW h, Sound(h), call' = [call EXCEPT ![c] = h]
    PROVE  CallInv'
BY DEF CallInv

(* A call that only moves on stays sound. *)
LEMMA GotoSound ==
    ASSUME CallInv, NEW c \in Calls, NEW l, l \notin {"recording", "done"}, Goto(c, l)
    PROVE  CallInv'
<1> DEFINE h == [call[c] EXCEPT !.at = l]
<1>1. Sound(call[c])
    BY DEF CallInv
<1>2. Sound(h)
    BY <1>1 DEF Sound
<1>3. call' = [call EXCEPT ![c] = h]
    BY DEF Goto
<1> HIDE DEF h
<1> QED BY <1>2, <1>3, OnlyCallMoves

(* A call that is not under way. *)
LEMMA IdleSound == Sound(Idle)
BY DEF Sound, Idle

(* A call that ends, its result kept for another delivery or not. *)
LEMMA FinishedSound ==
    ASSUME CallInv, NEW c \in Calls, Finished(c)
    PROVE  CallInv'
<1> DEFINE h == IF "result" \in DOMAIN call[c] /\ deliveries < MaxDeliveries
                THEN [call[c] EXCEPT !.at = "done"] ELSE Idle
<1>1. Sound(call[c])
    BY DEF CallInv
<1>2. "result" \in DOMAIN call[c] => Sound([call[c] EXCEPT !.at = "done"])
    BY <1>1 DEF Sound
<1>3. Sound(h)
    BY <1>2, IdleSound
<1>4. call' = [call EXCEPT ![c] = h]
    BY DEF Finished
<1> HIDE DEF h
<1> QED BY <1>3, <1>4, OnlyCallMoves

(* A result that comes back. *)
LEMMA ObserveSound ==
    ASSUME CallInv, NEW c \in Calls, NEW result, Observe(c, result),
           ~result.usable \/ call[c].input \in TaskInputs \/ result.report \in Reports
    PROVE  CallInv'
<1> DEFINE h == IF Observed(c, result) = "done" THEN Idle
                ELSE [at |-> Observed(c, result), session |-> call[c].session,
                      input |-> call[c].input, result |-> result]
<1>1. ~result.usable => Observed(c, result) = "done"
    BY DEF Observed
<1>2. Sound(h)
    BY <1>1, IdleSound DEF Sound
<1>3. call' = [call EXCEPT ![c] = h]
    BY DEF Observe
<1> HIDE DEF h
<1> QED BY <1>2, <1>3, OnlyCallMoves

(* A transaction whose decision is good for every run: what was read       *)
(* before it does not matter.                                              *)
LEMMA TransactStep ==
    ASSUME Inv, NEW c \in Calls, NEW decide, NEW passing,
           \A r \in Runs : Good(r, decide[r].facts), Transact(c, decide, passing)
    PROVE  Inv' /\ Appends
<1> DEFINE s == call[c].session
<1>1. commit = {} /\ CallInv /\ LedgerInv
    BY DEF Transact, Inv
<1>2. CASE UNCHANGED ledger /\ Finished(c)
    <2>1. CallInv'
        BY <1>1, <1>2, FinishedSound
    <2>2. LedgerInv' /\ Appends
        BY <1>1, <1>2 DEF LedgerInv, Appends
    <2> QED BY <2>1, <2>2 DEF Inv
<1>3. CASE \E r \in ScopeOf(s) :
            /\ Merges(r, decide[r].facts)
            /\ ledger' = [ledger EXCEPT ![r] = Merged(r, decide[r].facts)]
            /\ Goto(c, "running") \/ Finished(c)
    <2>1. PICK r \in ScopeOf(s) :
            /\ Merges(r, decide[r].facts)
            /\ ledger' = [ledger EXCEPT ![r] = Merged(r, decide[r].facts)]
            /\ Goto(c, "running") \/ Finished(c)
        BY <1>3
    <2> DEFINE facts == decide[r].facts
               all == Merged(r, facts)
    <2>2. r \in Runs /\ Listed(run[r].owner) = {r} /\ run[r] = entry[r]
        BY DEF ScopeOf, Listed
    <2>3. Readable(ledger[r]) /\ Limited(ledger[r]) /\ Good(r, facts)
        BY <1>1, <2>2 DEF LedgerInv
    <2> HIDE DEF facts
    <2>4. Readable(all) /\ Limited(all)
        BY <2>1, <2>2, <2>3, MergeReadable, MergeLimited DEF facts
    <2>5. \A i \in Len(ledger[r]) + 1 .. Len(all) : all[i].owner = Owner(r)
        <3> SUFFICES ASSUME NEW i \in Len(ledger[r]) + 1 .. Len(all) PROVE all[i].owner = Owner(r)
            OBVIOUS
        <3>1. /\ IsSeq(Novel(r, facts)) /\ Len(all) = Len(ledger[r]) + Len(Novel(r, facts))
              /\ \A k \in 1 .. Len(Novel(r, facts)) :
                   all[Len(ledger[r]) + k] = [sequence |-> Len(ledger[r]) + k, owner |-> Owner(r),
                                              fact |-> Novel(r, facts)[k]]
            <4>1. IsSeq(ledger[r]) /\ IsSeq(facts)
                BY <2>3 DEF Readable, Good
            <4> QED BY <2>2, <4>1, MergedFacts
        <3>2. Len(ledger[r]) \in Nat /\ Len(Novel(r, facts)) \in Nat
            BY <2>3, <3>1, ElementsOf DEF Readable
        <3>3. PICK k \in 1 .. Len(Novel(r, facts)) : i = Len(ledger[r]) + k
            <4>1. i - Len(ledger[r]) \in 1 .. Len(Novel(r, facts))
                  /\ i = Len(ledger[r]) + (i - Len(ledger[r]))
                BY <3>1, <3>2
            <4> QED BY <4>1
        <3>4. all[i] = [sequence |-> Len(ledger[r]) + k, owner |-> Owner(r), fact |-> Novel(r, facts)[k]]
            BY <3>1, <3>3
        <3> HIDE DEF all
        <3> QED BY <3>4
    <2>6. ledger' = [ledger EXCEPT ![r] = all]
        BY <2>1 DEF facts
    <2> HIDE DEF all
    <2>7. \A q \in Runs : ledger'[q] = IF q = r THEN all ELSE ledger[q]
        BY <1>1, <2>6 DEF LedgerInv
    <2>8. LedgerInv'
        BY <1>1, <2>2, <2>4, <2>6, <2>7 DEF LedgerInv
    <2>9. Appends
        BY <1>1, <2>2, <2>5, <2>7 DEF Appends
    <2>10. CallInv'
        BY <1>1, <2>1, GotoSound, FinishedSound
    <2> QED BY <2>8, <2>9, <2>10 DEF Inv
<1>4. \/ ScopeOf(s) = {} /\ Finished(c) /\ UNCHANGED ledger
      \/ \E r \in ScopeOf(s) :
            IF Merges(r, decide[r].facts)
            THEN /\ ledger' = [ledger EXCEPT ![r] = Merged(r, decide[r].facts)]
                 /\ IF decide[r].value \in passing THEN Goto(c, "running") ELSE Finished(c)
            ELSE Finished(c) /\ UNCHANGED ledger
    BY DEF Transact
<1> HIDE DEF s
<1> QED BY <1>2, <1>3, <1>4

(* The decisions of the gate and of the observer are good for every run. *)
LEMMA HandleStep ==
    ASSUME Inv, NEW c \in Calls, Handle(c)
    PROVE  Inv' /\ Appends
<1>1. /\ CallInv /\ LedgerInv /\ Sound(call[c])
      /\ \A r \in Runs : Readable(ledger[r]) /\ Limited(ledger[r])
    BY DEF Inv, CallInv, LedgerInv
<1>2. ASSUME UNCHANGED ledger, CallInv' PROVE Inv' /\ Appends
    BY <1>1, <1>2 DEF Inv, LedgerInv, Appends
<1>3. CASE FindLedger(c)
    <2> DEFINE h == [at |-> "guarding", session |-> call[c].session, input |-> call[c].input]
    <2>1. Sound(h)
        BY DEF Sound
    <2>2. UNCHANGED ledger /\ (call' = [call EXCEPT ![c] = h] \/ Finished(c))
        BY <1>3 DEF FindLedger
    <2> HIDE DEF h
    <2>3. CallInv'
        BY <1>1, <2>1, <2>2, OnlyCallMoves, FinishedSound
    <2> QED BY <1>2, <2>2, <2>3
<1>4. CASE LockTimeout(c) \/ handleDenied(c)
    <2>1. UNCHANGED ledger /\ Finished(c)
        BY <1>4 DEF LockTimeout, handleDenied
    <2> QED BY <1>1, <1>2, <2>1, FinishedSound
<1>5. CASE handleTask(c)
    <2> DEFINE decide == [r \in Runs |-> reserve(r, c, call[c].input.items)]
    <2>1. \A r \in Runs : Good(r, decide[r].facts)
        <3>1. call[c].input.items \in Nat
            BY <1>5, TaskAssumption DEF handleTask, TaskInputs
        <3> QED BY <1>1, <3>1, ReserveGood
    <2>2. Transact(c, decide, {"reserved", "replayed"})
        BY <1>5 DEF handleTask
    <2> HIDE DEF decide
    <2> QED BY <2>1, <2>2, TransactStep
<1>6. CASE handleJob(c)
    <2> DEFINE decide == [r \in Runs |-> authorize(r, c, call[c].input)]
               passing == {"authorized"} \cup IF call[c].input.targets = {} THEN {"no_generation"} ELSE {}
    <2>1. \A r \in Runs : Good(r, decide[r].facts)
        BY <1>1, AuthorizeGood
    <2>2. Transact(c, decide, passing)
        BY <1>6 DEF handleJob
    <2> HIDE DEF decide, passing
    <2> QED BY <2>1, <2>2, TransactStep
<1>7. CASE handleIrc(c)
    <2> DEFINE decide == [r \in Runs |-> authorize(r, c, call[c].input)]
    <2>1. \A r \in Runs : Good(r, decide[r].facts)
        BY <1>1, AuthorizeGood
    <2>2. Transact(c, decide, {"authorized"}) \/ (UNCHANGED ledger /\ Goto(c, "running"))
        BY <1>7 DEF handleIrc
    <2> HIDE DEF decide
    <2>3. CASE Transact(c, decide, {"authorized"})
        BY <2>1, <2>3, TransactStep
    <2>4. CASE UNCHANGED ledger /\ Goto(c, "running")
        <3>1. CallInv'
            BY <1>1, <2>4, GotoSound
        <3> QED BY <1>2, <2>4, <3>1
    <2> QED BY <2>2, <2>3, <2>4
<1>8. CASE handleHubWait(c)
    <2> DEFINE decide == [r \in Runs |-> authorizeHubWait(r, c, call[c].input)]
    <2>1. \A r \in Runs : Good(r, decide[r].facts)
        BY <1>1, AuthorizeHubWaitGood
    <2>2. Transact(c, decide, {"authorized"})
        BY <1>8 DEF handleHubWait
    <2> HIDE DEF decide
    <2> QED BY <2>1, <2>2, TransactStep
<1>9. CASE Bind(c)
    <2> DEFINE decide == [r \in Runs |-> bind(r, c, Binding(c), call[c].result.async)]
    <2>1. \A r \in Runs : Good(r, decide[r].facts)
        BY BindGood
    <2>2. Transact(c, decide, {})
        BY <1>9 DEF Bind
    <2> HIDE DEF decide
    <2> QED BY <2>1, <2>2, TransactStep
<1>10. ASSUME At(c, "recording"), call[c].input \notin TaskInputs
       PROVE  IsFiniteSet(call[c].result.report.about)
    <2>1. call[c].result.report \in Reports
        BY <1>1, <1>10 DEF Sound, At
    <2> QED BY <2>1, TaskAssumption
<1>11. \A i \in JobInputs \cup HubWaitInputs \cup IrcInputs : i \notin TaskInputs
    BY DEF JobInputs, HubWaitInputs, IrcInputs, TaskInputs
<1>12. CASE observeJob(c)
    <2> DEFINE about == call[c].result.report.about
               status == call[c].result.report.status
               cancels == call[c].input \in JobInputs /\ call[c].input.control = "job_cancel"
               decide == [r \in Runs |-> IF cancels THEN recordCancellation(r, c, about)
                                                    ELSE recordJobSnapshot(r, c, about, status)]
    <2>1. IsFiniteSet(about)
        BY <1>10, <1>11, <1>12 DEF observeJob
    <2>2. Transact(c, decide, {})
        BY <1>12 DEF observeJob
    <2> HIDE DEF about, status, cancels
    <2>3. \A r \in Runs : Good(r, decide[r].facts)
        <3> SUFFICES ASSUME NEW r \in Runs PROVE Good(r, decide[r].facts)
            OBVIOUS
        <3>1. Good(r, recordCancellation(r, c, about).facts)
            BY <2>1, RecordCancellationGood
        <3>2. Good(r, recordJobSnapshot(r, c, about, status).facts)
            BY <2>1, RecordJobSnapshotGood
        <3> QED BY <3>1, <3>2
    <2> HIDE DEF decide
    <2> QED BY <2>2, <2>3, TransactStep
<1>13. CASE observeIrc(c)
    <2> DEFINE about == call[c].result.report.about
               status == call[c].result.report.status
               decide == [r \in Runs |-> recordIrcReceipts(r, c, about, status)]
    <2>1. IsFiniteSet(about)
        BY <1>10, <1>11, <1>13 DEF observeIrc
    <2>2. Transact(c, decide, {})
        BY <1>13 DEF observeIrc
    <2> HIDE DEF about, status
    <2>3. \A r \in Runs : Good(r, decide[r].facts)
        BY <2>1, RecordIrcReceiptsGood
    <2> HIDE DEF decide
    <2> QED BY <2>2, <2>3, TransactStep
<1> QED BY <1>3, <1>4, <1>5, <1>6, <1>7, <1>8, <1>9, <1>12, <1>13 DEF Handle

(* Empty ledgers and no call. *)
LEMMA InitInv == Init => Inv
<1> SUFFICES ASSUME Init PROVE Inv
    OBVIOUS
<1>1. Readable(<<>>)
    <2>1. <<>> \in Seq({})
        OBVIOUS
    <2>2. ToSet(<<>>) = {}
        BY DEF ToSet
    <2> QED BY <2>1, <2>2 DEF Readable, IsSeq, ledgerIsOrdered
<1>2. Limited(<<>>)
    <2> SUFFICES ASSUME NEW o PROVE ReservedItems(<<>>, o) \in 0 .. MaxFanOut
        BY DEF Limited
    <2>1. IsSeq(<<>>) /\ Len(<<>>) = 0
        BY <1>1 DEF Readable
    <2>2. PICK sum : ReservedItems(<<>>, o) = sum[0] /\ Counts(<<>>, o, sum, 0)
        BY <2>1, SumFacts
    <2> QED BY <2>2, TaskAssumption DEF Counts
<1>3. LedgerInv
    BY <1>1, <1>2 DEF Init, LedgerInv
<1>4. CallInv
    BY IdleSound DEF Init, CallInv
<1> QED BY <1>3, <1>4 DEF Inv

(* Every step keeps the invariant, and adds to one ledger only. *)
LEMMA StepInv ==
    ASSUME Inv, [Next]_vars
    PROVE  Inv' /\ Appends
<1>1. CallInv /\ LedgerInv
    BY DEF Inv
<1>2. ASSUME UNCHANGED ledger, CallInv' PROVE Inv' /\ Appends
    BY <1>1, <1>2 DEF Inv, LedgerInv, Appends
<1>3. CASE UNCHANGED <<ledger, call>>
    <2>1. CallInv'
        BY <1>1, <1>3 DEF CallInv
    <2> QED BY <1>2, <1>3, <2>1
<1>4. ASSUME NEW r \in Runs, CommitSnapshot(r) \/ CommitIndex(r) \/ Repair(r) PROVE Inv' /\ Appends
    BY <1>3, <1>4 DEF CommitSnapshot, CommitIndex, Repair
<1>5. CASE Crash
    BY <1>3, <1>5 DEF Crash
<1>6. ASSUME NEW c \in Calls, NEW s \in Sessions, NEW i \in Offers[c], Call(c, s, i)
      PROVE  Inv' /\ Appends
    <2> DEFINE entered == [at |-> "running", session |-> s, input |-> i]
    <2>1. UNCHANGED ledger
        BY <1>6 DEF Call
    <2>2. CASE UNCHANGED call
        BY <1>3, <2>1, <2>2
    <2>3. CASE call' = [call EXCEPT ![c] = entered]
        <3>1. Sound(entered)
            BY DEF Sound
        <3> HIDE DEF entered
        <3> QED BY <1>1, <1>2, <2>1, <2>3, <3>1, OnlyCallMoves
    <2>4. ASSUME NEW r \in ScopeOf(s),
                 call' = [call EXCEPT ![c] = [at |-> "found", session |-> s, input |-> i,
                                              seen |-> <<r, run[r]>>]]
          PROVE  Inv' /\ Appends
        <3> DEFINE h == [at |-> "found", session |-> s, input |-> i, seen |-> <<r, run[r]>>]
        <3>1. Sound(h)
            BY DEF Sound
        <3>2. call' = [call EXCEPT ![c] = h]
            BY <2>4
        <3> HIDE DEF h
        <3> QED BY <1>1, <1>2, <2>1, <3>1, <3>2, OnlyCallMoves
    <2> QED BY <1>6, <2>2, <2>3, <2>4 DEF Call
<1>7. ASSUME NEW c \in Calls, Deliver(c) PROVE Inv' /\ Appends
    <2>1. PICK result \in Results(c) : Observe(c, result)
        BY <1>7 DEF Deliver
    <2>2. ~result.usable \/ call[c].input \in TaskInputs \/ result.report \in Reports
        BY DEF Results, IrcResults, JobResults
    <2>3. CallInv'
        BY <1>1, <2>1, <2>2, ObserveSound
    <2>4. UNCHANGED ledger
        BY <2>1 DEF Observe
    <2> QED BY <1>2, <2>3, <2>4
<1>8. ASSUME NEW c \in Calls, Redeliver(c) PROVE Inv' /\ Appends
    <2>1. Sound(call[c]) /\ At(c, "done") /\ Observe(c, call[c].result)
        BY <1>1, <1>8 DEF CallInv, Redeliver
    <2>2. call[c].input \in TaskInputs \/ call[c].result.report \in Reports
        BY <2>1 DEF Sound, At
    <2>3. CallInv'
        BY <1>1, <2>1, <2>2, ObserveSound
    <2>4. UNCHANGED ledger
        BY <2>1 DEF Observe
    <2> QED BY <1>2, <2>3, <2>4
<1>9. CASE UNCHANGED vars
    BY <1>3, <1>9 DEF vars
<1> QED BY <1>4, <1>5, <1>6, <1>7, <1>8, <1>9, HandleStep DEF Next

-----------------------------------------------------------------------------
(* Theorems                                                                *)

(* The invariant, of every run's ledger: in order, under distinct keys,    *)
(* every control within its owner's newest dispatch and every receipt      *)
(* behind its authorization.                                               *)
THEOREM LedgerInvariant == Spec => []Inv
BY InitInv, StepInv, PTL DEF Spec

(* The properties of the runs are parts of the invariant. *)
LEMMA InvGives ==
    Inv => LedgersDecode /\ FanOutHeld /\ ControlsReachOwnWorkers /\ ReceiptsAreCurrent
<1> SUFFICES ASSUME Inv
             PROVE  LedgersDecode /\ FanOutHeld /\ ControlsReachOwnWorkers /\ ReceiptsAreCurrent
    OBVIOUS
<1>1. \A r \in Runs : Readable(ledger[r])
    BY DEF Inv, LedgerInv
<1>2. \A r, low, high : Apart(ledger[r], low, high) <=> SameGeneration(r, low, high)
    BY DEF Apart, SameGeneration
<1>3. LedgersDecode
    BY <1>1 DEF LedgersDecode, Readable
<1>4. ControlsReachOwnWorkers
    BY <1>1, <1>2 DEF ControlsReachOwnWorkers, Readable, Reached
<1>5. ReceiptsAreCurrent
    BY <1>1, <1>2 DEF ReceiptsAreCurrent, Readable, Backed
<1>6. FanOutHeld
    BY TaskAssumption DEF Inv, LedgerInv, Limited, FanOutHeld
<1> QED BY <1>3, <1>4, <1>5, <1>6

(* Whatever calls and results come twice, late or out of order, a ledger   *)
(* the handlers wrote passes taskLedgerSchema when it is read again.       *)
THEOREM LedgersDecodeHolds == Spec => []LedgersDecode
BY LedgerInvariant, InvGives, PTL

(* Calls that are answered at the same time never together reserve more    *)
(* tasks for one owner than the limit, whatever the limit is.              *)
THEOREM FanOutHolds == Spec => []FanOutHeld
BY LedgerInvariant, InvGives, PTL

(* A control reaches only the workers of its own owner's newest dispatch.  *)
THEOREM ControlsReachOwnWorkersHolds == Spec => []ControlsReachOwnWorkers
BY LedgerInvariant, InvGives, PTL

(* A late result of an earlier dispatch leaves no receipt. *)
THEOREM ReceiptsAreCurrentHolds == Spec => []ReceiptsAreCurrent
BY LedgerInvariant, InvGives, PTL

(* Only the owner of a run appends to its ledger, and only while it is     *)
(* that session's one run.                                                 *)
THEOREM OnlyOwnerAppendsHolds == Spec => OnlyOwnerAppends
<1>1. Inv /\ [Next]_vars => [Appends]_vars
    BY StepInv
<1>2. OnlyOwnerAppends <=> [][Appends]_vars
    BY DEF OnlyOwnerAppends, Appends
<1> QED BY <1>1, <1>2, LedgerInvariant, PTL DEF Spec
=============================================================================

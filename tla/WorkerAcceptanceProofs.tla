----------------------- MODULE WorkerAcceptanceProofs -----------------------
(***************************************************************************)
(* Proofs about WorkerAcceptance, for any processes, readers, workers and  *)
(* results.                                                                *)
(*                                                                         *)
(* The argument is that the write-ahead log is the ledger: it is numbered  *)
(* from one without a gap, and the snapshot, in the file or in the hands   *)
(* of a reader, is a prefix of it, so that laying the log over the         *)
(* snapshot yields the log.  That takes the lock: from the look into the   *)
(* ledger to the write of the snapshot nobody else appends, and from the   *)
(* check of the cap to the append neither the attempt nor the dispatch nor *)
(* the count of rejections changes.                                        *)
(***************************************************************************)
EXTENDS WorkerAcceptance, WellFoundedInduction, TLAPS

Records == [sequence : Nat, idempotencyKey : (1 .. MaxAttempt) \X Agents \X Artifacts,
            agent : Agents, attempt : 1 .. MaxAttempt, taskGeneration : 1 .. MaxGeneration,
            captureCommit : Heads, decision : {"none", "retry_worker", "accept_after_review"}]

Numbered(w) == \A i \in 1 .. Len(w) : w[i].sequence = i

Keyed(w) ==
    \A i, j \in 1 .. Len(w) : w[i].idempotencyKey = w[j].idempotencyKey => i = j

Begins(s, w) == Len(s) <= Len(w) /\ \A i \in 1 .. Len(s) : s[i] = w[i]

LogInv ==
    /\ wal \in Seq(Records) /\ snap \in Seq(Records)
    /\ Numbered(wal) /\ Keyed(wal) /\ Begins(snap, wal)

RunInv ==
    /\ LockTypeOK
    /\ rejections \in [Scopes -> 0 .. RejectionLimit]
    /\ attempt \in 1 .. MaxAttempt /\ generation \in 0 .. MaxGeneration /\ head \in Heads

Inside == {"entered", "git", "evidence", "final_git", "reject", "ledger", "append", "snapshot",
           "leaving"}
Verdicts == {"none", "accepted", "replayed", "rejected", "needs_parent_decision",
             "duplicate_receipt", "thrown"}

InCall == [at : Inside \cup {"waiting"}, result : Verdicts, input : Offers,
           head : Heads \cup {"none"}, entries : Seq(Records)]
Remembered == [at : {"idle"}, result : {"accepted", "replayed"}, input : Offers]

CallType == call \in [Procs -> InCall \cup Remembered \cup {Idle}]

(* Inside the lock a call has it. *)
Held(p) == call[p].at \in Inside => owner = p

(* The worker's scope is below the cap, or its parent has reviewed it. *)
BelowCap(p) ==
    /\ generation # 0
    /\ \/ rejections[<<call[p].input.agent, generation>>] < RejectionLimit
       \/ call[p].input.decision = "accept_after_review"

Bound(p) == call[p].input.attempt = attempt /\ call[p].input.generation = generation

(* What a call knows of the ledgers at each of its steps. *)
Knows(p) ==
    /\ call[p].at \in {"git", "evidence", "final_git", "ledger", "append"} => BelowCap(p)
    /\ call[p].at \in {"final_git", "ledger", "append"} => Bound(p)
    /\ call[p].at = "append" =>
        /\ call[p].entries = wal
        /\ \A i \in 1 .. Len(wal) : wal[i].idempotencyKey # Key(call[p].input)
    /\ call[p].at = "snapshot" => wal = Append(call[p].entries, Candidate(p))

Told(p) ==
    call[p].result \in {"accepted", "replayed"} =>
       \E i \in 1 .. Len(wal) : wal[i] = Entry(call[p].input, i)

CallInv == CallType /\ \A p \in Procs : Held(p) /\ Knows(p) /\ Told(p)

Halfway == [at : {"half"}, snap : Seq(Records), known : Seq(Records)]
HasRead == [at : {"done"}, got : Seq(Records), known : Seq(Records), decodes : {TRUE}]

ReaderInv ==
    /\ reader \in [Readers -> Halfway \cup HasRead \cup {NotReading}]
    /\ \A r \in Readers :
        /\ reader[r].at = "half" => Begins(reader[r].snap, wal) /\ Begins(reader[r].known, wal)
        /\ reader[r].at = "done" =>
            Begins(reader[r].known, reader[r].got) /\ Begins(reader[r].got, wal)

IInv == LogInv /\ RunInv /\ CallInv /\ ReaderInv

-----------------------------------------------------------------------------
(* Operators                                                               *)

(* Two sequences of the same length and elements are the same. *)
LEMMA SameSequence ==
    ASSUME NEW S, NEW s \in Seq(S), NEW t \in Seq(S),
           Len(s) = Len(t), \A i \in 1 .. Len(s) : s[i] = t[i]
    PROVE  s = t
<1>1. s = [i \in 1 .. Len(s) |-> s[i]] /\ t = [i \in 1 .. Len(t) |-> t[i]]
    OBVIOUS
<1> QED BY <1>1

(* IsPrefix of the library compares the elements. *)
LEMMA PrefixIsBegins ==
    ASSUME NEW S, NEW s \in Seq(S), NEW t \in Seq(S)
    PROVE  IsPrefix(s, t) <=> Begins(s, t)
<1>1. CASE Len(s) <= Len(t)
    <2> DEFINE front == SubSeq(t, 1, Len(s))
    <2>1. SubSeq(s, 1, Len(s)) = s
        BY SameSequence
    <2>2. front \in Seq(S) /\ Len(front) = Len(s) /\ \A i \in 1 .. Len(s) : front[i] = t[i]
        BY <1>1
    <2>3. s = front <=> \A i \in 1 .. Len(s) : s[i] = t[i]
        <3> HIDE DEF front
        <3>1. ASSUME \A i \in 1 .. Len(s) : s[i] = t[i] PROVE s = front
            BY <3>1, <2>2, SameSequence
        <3> QED BY <3>1, <2>2
    <2> QED BY <2>1, <2>3, <1>1 DEF IsPrefix, Begins
<1>2. CASE ~(Len(s) <= Len(t))
    BY <1>2 DEF IsPrefix, Begins
<1> QED BY <1>1, <1>2

(* Induction: a set of numbers that is not empty has a least. *)
LEMMA LeastExists ==
    ASSUME NEW I \in SUBSET Nat, I # {}
    PROVE  \E least \in I : \A i \in I : least <= i
<1> DEFINE R == {ss \in Nat \X Nat : ss[1] < ss[2]}
<1>1. IsWellFoundedOn(R, Nat)
    <2>1. R = OpToRel(<, Nat) BY Zenon DEF OpToRel
    <2> QED BY <2>1, NatLessThanWellFounded
<1> HIDE DEF R
<1>2. PICK least \in I : \A i \in I : ~(<<i, least>> \in R)
    BY <1>1, WFMin
<1>3. \A i \in I : least <= i
    <2> TAKE i \in I
    <2>1. ~(<<i, least>> \in R) BY <1>2
    <2> QED BY <2>1 DEF R
<1> QED BY <1>3

(* SelectInSeq finds an entry by the least of its places. *)
LEMMA MinIsMember ==
    ASSUME NEW I \in SUBSET Nat, I # {}
    PROVE  Min(I) \in I
BY LeastExists DEF Min

(* Laid over a prefix of itself, a log without a gap is what it was. *)
LEMMA MergedIsLog ==
    ASSUME NEW S, NEW w \in Seq(S), NEW s \in Seq(S), Numbered(w), Begins(s, w)
    PROVE  Merged(s, w) = w
<1> DEFINE body(f, n) == IF n = 0 THEN s
                         ELSE IF w[n].sequence \in DOMAIN f[n - 1] THEN f[n - 1]
                         ELSE Append(f[n - 1], w[n])
           laid == CHOOSE f : f = [n \in 0 .. Len(w) |-> body(f, n)]
           grown == [n \in 0 .. Len(w) |-> IF n <= Len(s) THEN s ELSE SubSeq(w, 1, n)]
<1>1. Merged(s, w) = laid[Len(w)]
    BY DEF Merged
<1>2. \A n \in 0 .. Len(w) : grown[n] = body(grown, n)
    <2> SUFFICES ASSUME NEW n \in 0 .. Len(w) PROVE grown[n] = body(grown, n)
        OBVIOUS
    <2>1. CASE n = 0
        BY <2>1
    <2>2. CASE n # 0 /\ n <= Len(s)
        BY <2>2 DEF Numbered, Begins
    <2>3. CASE n # 0 /\ n > Len(s)
        <3>1. grown[n - 1] = SubSeq(w, 1, n - 1)
            <4>1. CASE n - 1 = Len(s)
                <5>1. s = SubSeq(w, 1, n - 1)
                    BY <4>1, SameSequence DEF Begins
                <5> QED BY <4>1, <5>1
            <4>2. CASE n - 1 # Len(s)
                <5>1. n - 1 \in 0 .. Len(w) /\ ~(n - 1 <= Len(s))
                    BY <2>3, <4>2
                <5> QED BY <5>1
            <4> QED BY <4>1, <4>2
        <3>2. w[n].sequence \notin DOMAIN SubSeq(w, 1, n - 1)
            BY <2>3 DEF Numbered
        <3>3. Append(SubSeq(w, 1, n - 1), w[n]) = SubSeq(w, 1, n)
            BY <2>3, SameSequence
        <3>4. grown[n] = SubSeq(w, 1, n)
            BY <2>3
        <3> HIDE DEF grown
        <3> QED BY <2>3, <3>1, <3>2, <3>3, <3>4
    <2> QED BY <2>1, <2>2, <2>3
<1>3. grown = [n \in 0 .. Len(w) |-> body(grown, n)]
    <2> HIDE DEF body
    <2> QED BY <1>2
<1>4. laid = [n \in 0 .. Len(w) |-> body(laid, n)]
    <2> HIDE DEF grown, body
    <2> QED BY <1>3
<1>5. \A n \in 0 .. Len(w) : laid[n] = grown[n]
    <2> DEFINE wrong == {n \in 0 .. Len(w) : laid[n] # grown[n]}
    <2> HIDE DEF laid, grown
    <2>1. SUFFICES ASSUME wrong # {} PROVE FALSE
        OBVIOUS
    <2>2. wrong \in SUBSET Nat
        OBVIOUS
    <2>3. PICK n \in wrong : \A m \in wrong : n <= m
        BY <2>1, <2>2, LeastExists
    <2>4. n \in 0 .. Len(w) /\ laid[n] # grown[n]
        OBVIOUS
    <2>5. n # 0 => laid[n - 1] = grown[n - 1]
        <3> SUFFICES ASSUME n # 0, laid[n - 1] # grown[n - 1] PROVE FALSE
            OBVIOUS
        <3>1. n - 1 \in wrong
            BY <2>4
        <3> HIDE DEF wrong
        <3> QED BY <2>3, <2>4, <3>1
    <2>6. laid[n] = body(laid, n) /\ grown[n] = body(grown, n)
        <3> HIDE DEF body, wrong
        <3> QED BY <1>3, <1>4, <2>4
    <2> HIDE DEF wrong
    <2> QED BY <2>4, <2>5, <2>6
<1>6. grown[Len(w)] = w
    BY SameSequence DEF Begins
<1> HIDE DEF laid, grown
<1> QED BY <1>1, <1>5, <1>6

(* Such a log decodes. *)
LEMMA LogDecodes ==
    ASSUME NEW S, NEW w \in Seq(S), NEW s \in Seq(S), Numbered(w), Keyed(w), Begins(s, w)
    PROVE  Merged(s, w) = w /\ Decodes(s, w) = TRUE
<1>1. Merged(s, w) = w
    BY MergedIsLog
<1>2. \A i \in DOMAIN w : w[i].sequence \in DOMAIN w /\ w[w[i].sequence] = w[i]
    BY DEF Numbered
<1>3. DOMAIN w = 1 .. Len(w)
    OBVIOUS
<1>4. Decodes(s, w)
    BY <1>1, <1>2, <1>3 DEF Decodes, Numbered, Keyed
<1>5. Decodes(s, w) \in BOOLEAN
    BY DEF Decodes
<1> QED BY <1>1, <1>4, <1>5

(* The ledger is the write-ahead log. *)
LEMMA LedgerIsWal == LogInv => Ledger = wal /\ Decodes(snap, wal)
BY LogDecodes DEF LogInv, Ledger

(* The same after a step. *)
LEMMA LedgerIsWalNext == LogInv' => Ledger' = wal'
BY LogDecodes DEF LogInv, Ledger

(* What is appended keeps what was there. *)
LEMMA AppendKeeps ==
    ASSUME NEW S, NEW w \in Seq(S), NEW e \in S
    PROVE  /\ Append(w, e) \in Seq(S) /\ Len(Append(w, e)) = Len(w) + 1
           /\ Append(w, e)[Len(w) + 1] = e
           /\ \A i \in 1 .. Len(w) : Append(w, e)[i] = w[i]
           /\ \A s \in Seq(S) : Begins(s, w) => Begins(s, Append(w, e))
BY DEF Begins

(* What a call appends is a record. *)
LEMMA EntryTyped ==
    ASSUME NEW input \in Offers, NEW n \in Nat
    PROVE  Entry(input, n) \in Records
BY AcceptanceAssumption DEF Entry, Key, Records, Inputs

-----------------------------------------------------------------------------
(* The invariant                                                           *)

(* It holds of empty files and no call. *)
LEMMA InitIInv == Init => IInv
<1> SUFFICES ASSUME Init PROVE IInv
    OBVIOUS
<1> USE DEF Init
<1>1. LogInv
    BY DEF LogInv, Numbered, Keyed, Begins
<1>2. RunInv
    BY AcceptanceAssumption DEF RunInv, LockTypeOK, LockInit, RejectionLimit
<1>3. CallInv
    BY DEF CallInv, CallType, Idle, Held, Knows, Told, Inside
<1>4. ReaderInv
    BY DEF ReaderInv, NotReading
<1> QED BY <1>1, <1>2, <1>3, <1>4 DEF IInv

(* A process that is not idle is in a call. *)
LEMMA BusyIsInCall ==
    ASSUME CallType, NEW p \in Procs, call[p].at # "idle"
    PROVE  call[p] \in InCall
BY DEF CallType, Remembered, Idle

(* A call that goes on and writes nothing. *)
LEMMA OnlyCallMoves ==
    ASSUME IInv, NEW p \in Procs, NEW c \in InCall \cup Remembered \cup {Idle},
           call' = [call EXCEPT ![p] = c], UNCHANGED <<ledgers, run, reader>>,
           LockTypeOK', \A q \in Procs \ {p} : owner = q => owner' = q,
           Held(p)', Knows(p)', Told(p)'
    PROVE  IInv'
<1> USE DEF ledgers, run
<1>1. LogInv' /\ RunInv' /\ ReaderInv'
    BY DEF IInv, LogInv, RunInv, ReaderInv
<1>2. CallType'
    BY DEF IInv, CallInv, CallType
<1>3. ASSUME NEW q \in Procs, q # p PROVE Held(q)' /\ Knows(q)' /\ Told(q)'
    <2>1. call'[q] = call[q]
        BY <1>3 DEF IInv, CallInv, CallType
    <2> QED BY <1>3, <2>1 DEF IInv, CallInv, Held, Knows, Told, BelowCap, Bound, Candidate
<1> QED BY <1>1, <1>2, <1>3 DEF IInv, CallInv

(* The steps up to the look into the ledger. *)
LEMMA CallStep ==
    ASSUME IInv, NEW p \in Procs, NEW input \in Offers, Call(p, input)
    PROVE  IInv'
<1> DEFINE c == [at |-> "waiting", result |-> "none", input |-> input, head |-> "none",
                 entries |-> <<>>]
<1>1. c \in InCall
    BY DEF InCall, Verdicts
<1>2. call' = [call EXCEPT ![p] = c] /\ UNCHANGED <<owner, ledgers, run, reader>>
    BY DEF Call
<1>3. call'[p] = c
    BY <1>2 DEF IInv, CallInv, CallType
<1>4. Held(p)' /\ Knows(p)' /\ Told(p)'
    BY <1>3 DEF Held, Knows, Told, Inside
<1>5. LockTypeOK'
    BY <1>2 DEF IInv, RunInv, LockTypeOK
<1> HIDE DEF c
<1> QED BY <1>1, <1>2, <1>4, <1>5, OnlyCallMoves

(* A process drops out of its call. *)
LEMMA DropStep ==
    ASSUME IInv, NEW p \in Procs, NoLock(p) \/ Crash(p)
    PROVE  IInv'
<1>1. call' = [call EXCEPT ![p] = Idle] /\ UNCHANGED <<ledgers, run, reader>>
    BY DEF NoLock, Crash
<1>2. /\ LockTypeOK' /\ \A q \in Procs \ {p} : owner = q => owner' = q
    BY DEF NoLock, Crash, Abandon, IInv, RunInv, LockTypeOK
<1>3. call'[p] = Idle
    BY <1>1 DEF IInv, CallInv, CallType
<1>4. Held(p)' /\ Knows(p)' /\ Told(p)'
    BY <1>3 DEF Held, Knows, Told, Idle, Inside
<1> QED BY <1>1, <1>2, <1>4, OnlyCallMoves

(* A call moves to a place inside the lock, where it knows what it should. *)
LEMMA GotoStep ==
    ASSUME IInv, NEW p \in Procs, call[p].at \in Inside, owner = p,
           NEW l \in Inside, Goto(p, l), UNCHANGED <<owner, ledgers, run, reader>>,
           l \in {"git", "evidence", "final_git", "ledger", "append"} => BelowCap(p),
           l \in {"final_git", "ledger", "append"} => Bound(p),
           l \notin {"append", "snapshot"}
    PROVE  IInv'
<1> DEFINE c == [call[p] EXCEPT !.at = l]
<1>1. call[p] \in InCall
    BY BusyIsInCall DEF IInv, CallInv, Inside
<1>2. c \in InCall /\ c.at = l /\ c.input = call[p].input /\ c.result = call[p].result
    BY <1>1 DEF InCall
<1>3. call' = [call EXCEPT ![p] = c] /\ call'[p] = c
    BY DEF Goto, IInv, CallInv, CallType
<1> HIDE DEF c
<1>4. Held(p)'
    BY DEF Held
<1>5. Knows(p)'
    BY <1>2, <1>3 DEF Knows, BelowCap, Bound, ledgers, run
<1>6. Told(p)'
    BY <1>2, <1>3 DEF Told, ledgers, IInv, CallInv
<1>7. LockTypeOK'
    BY DEF IInv, RunInv, LockTypeOK
<1> QED BY <1>2, <1>3, <1>4, <1>5, <1>6, <1>7, OnlyCallMoves

(* A call has its answer. *)
LEMMA AnswerStep ==
    ASSUME IInv, NEW p \in Procs, call[p].at \in Inside, owner = p,
           NEW result \in Verdicts, Answer(p, result), UNCHANGED <<owner, ledgers, run, reader>>,
           result \in {"accepted", "replayed"} =>
               \E i \in 1 .. Len(wal) : wal[i] = Entry(call[p].input, i)
    PROVE  IInv'
<1> DEFINE c == [call[p] EXCEPT !.at = "leaving", !.result = result]
<1>1. call[p] \in InCall
    BY BusyIsInCall DEF IInv, CallInv, Inside
<1>2. c \in InCall /\ c.at = "leaving" /\ c.input = call[p].input /\ c.result = result
    BY <1>1 DEF InCall, Inside
<1>3. call' = [call EXCEPT ![p] = c] /\ call'[p] = c
    BY DEF Answer, IInv, CallInv, CallType
<1> HIDE DEF c
<1>4. Held(p)'
    BY DEF Held
<1>5. Knows(p)'
    BY <1>2, <1>3 DEF Knows
<1>6. Told(p)'
    BY <1>2, <1>3 DEF Told, ledgers
<1>7. LockTypeOK'
    BY DEF IInv, RunInv, LockTypeOK
<1> QED BY <1>2, <1>3, <1>4, <1>5, <1>6, <1>7, OnlyCallMoves

(* The lock is taken. *)
LEMMA EnterStep ==
    ASSUME IInv, NEW p \in Procs, Enter(p)
    PROVE  IInv'
<1> DEFINE c == [call[p] EXCEPT !.at = "entered"]
<1>1. call[p] \in InCall
    BY BusyIsInCall DEF Enter, At, IInv, CallInv
<1>2. c \in InCall /\ c.at = "entered" /\ c.input = call[p].input /\ c.result = call[p].result
    BY <1>1 DEF InCall, Inside
<1>3. call' = [call EXCEPT ![p] = c] /\ call'[p] = c /\ UNCHANGED <<ledgers, run, reader>>
    BY DEF Enter, Goto, IInv, CallInv, CallType
<1> HIDE DEF c
<1>4. Held(p)'
    BY DEF Held, Enter, Acquire
<1>5. Knows(p)'
    BY <1>2, <1>3 DEF Knows
<1>6. Told(p)'
    BY <1>2, <1>3 DEF Told, ledgers, IInv, CallInv
<1>7. LockTypeOK' /\ \A q \in Procs \ {p} : owner = q => owner' = q
    BY ProcsAssumption DEF Enter, Acquire, LockTypeOK, Free
<1> QED BY <1>2, <1>3, <1>4, <1>5, <1>6, <1>7, OnlyCallMoves

(* The lock is given back, and what was accepted is remembered. *)
LEMMA LeaveStep ==
    ASSUME IInv, NEW p \in Procs, Leave(p)
    PROVE  IInv'
<1> DEFINE c == IF call[p].result \in {"accepted", "replayed"}
                THEN [at |-> "idle", result |-> call[p].result, input |-> call[p].input]
                ELSE Idle
<1>1. call[p] \in InCall
    BY BusyIsInCall DEF Leave, At, IInv, CallInv
<1>2. /\ c \in Remembered \cup {Idle} /\ c.at = "idle"
      /\ c.result \in {"accepted", "replayed"} =>
            c.result = call[p].result /\ c.input = call[p].input
    BY <1>1 DEF InCall, Remembered, Idle
<1>3. call' = [call EXCEPT ![p] = c] /\ call'[p] = c /\ UNCHANGED <<ledgers, run, reader>>
    BY DEF Leave, Return, IInv, CallInv, CallType
<1> HIDE DEF c
<1>4. Held(p)'
    BY <1>2, <1>3 DEF Held, Inside
<1>5. Knows(p)'
    BY <1>2, <1>3 DEF Knows
<1>6. Told(p)'
    BY <1>2, <1>3 DEF Told, ledgers, IInv, CallInv
<1>7. LockTypeOK' /\ \A q \in Procs \ {p} : owner = q => owner' = q
    BY DEF Leave, Release, LockTypeOK
<1> QED BY <1>2, <1>3, <1>4, <1>5, <1>6, <1>7, OnlyCallMoves

(* The checks, each of which moves the call on or ends it. *)
LEMMA CheckStep ==
    ASSUME IInv, NEW p \in Procs,
           OutOfScope(p) \/ CheckScope(p) \/ Validate(p) \/ FinalGit(p) \/ Interrupt(p) \/ WriteFails(p)
    PROVE  IInv'
<1>1. call[p].at \in Inside /\ UNCHANGED <<owner, ledgers, run, reader>>
    BY DEF OutOfScope, CheckScope, Validate, FinalGit, Interrupt, WriteFails, At, Inside
<1>2. owner = p /\ Knows(p)
    BY <1>1 DEF IInv, CallInv, Held
<1>3. call[p] \in InCall
    BY <1>1, BusyIsInCall DEF IInv, CallInv, Inside
<1>4. ASSUME NEW result \in {"rejected", "needs_parent_decision", "thrown"}, Answer(p, result)
      PROVE  IInv'
    BY <1>1, <1>2, <1>4, AnswerStep DEF Verdicts
<1>5. ASSUME Goto(p, "reject") PROVE IInv'
    BY <1>1, <1>2, <1>5, GotoStep DEF Inside
<1>6. CASE OutOfScope(p) \/ WriteFails(p)
    BY <1>4, <1>6 DEF OutOfScope, WriteFails
<1>7. CASE Interrupt(p)
    BY <1>5, <1>7 DEF Interrupt
<1>8. CASE CheckScope(p)
    <2>1. CASE Goto(p, "git") /\ generation # 0
               /\ (Prior(p) # RejectionLimit \/ call[p].input.decision = "accept_after_review")
        <3>1. generation \in 1 .. MaxGeneration /\ call[p].input.agent \in Agents
            BY <2>1, <1>3, AcceptanceAssumption DEF IInv, RunInv, InCall, Inputs
        <3>2. Prior(p) \in 0 .. RejectionLimit
            BY <3>1 DEF Prior, Scope, Scopes, IInv, RunInv
        <3>3. BelowCap(p)
            BY <2>1, <3>2 DEF BelowCap, Prior, Scope, RejectionLimit
        <3> QED BY <2>1, <3>3, <1>1, <1>2, GotoStep DEF Inside
    <2> QED BY <1>4, <1>8, <2>1 DEF CheckScope
<1>9. CASE Validate(p)
    <2>1. CASE Goto(p, "final_git") /\ Binds(call[p].input, call[p].head)
        <3>1. BelowCap(p) /\ Bound(p)
            BY <1>2, <1>9, <2>1 DEF Validate, At, Knows, Binds, Bound
        <3> QED BY <2>1, <3>1, <1>1, <1>2, GotoStep DEF Inside
    <2> QED BY <1>5, <1>9, <2>1 DEF Validate
<1>10. CASE FinalGit(p)
    <2>1. CASE Goto(p, "ledger")
        <3>1. BelowCap(p) /\ Bound(p)
            BY <1>2, <1>10 DEF FinalGit, At, Knows
        <3> QED BY <2>1, <3>1, <1>1, <1>2, GotoStep DEF Inside
    <2> QED BY <1>5, <1>10, <2>1 DEF FinalGit
<1> QED BY <1>6, <1>7, <1>8, <1>9, <1>10

(* The call has read HEAD a first time. *)
LEMMA ReadGitStep ==
    ASSUME IInv, NEW p \in Procs, ReadGit(p)
    PROVE  IInv'
<1> DEFINE c == [call[p] EXCEPT !.at = "evidence", !.head = head]
<1>1. call[p] \in InCall /\ owner = p /\ BelowCap(p)
    BY BusyIsInCall DEF ReadGit, At, IInv, CallInv, Held, Inside, Knows
<1>2. c \in InCall /\ c.at = "evidence" /\ c.input = call[p].input /\ c.result = call[p].result
    BY <1>1 DEF InCall, Inside, IInv, RunInv
<1>3. call' = [call EXCEPT ![p] = c] /\ call'[p] = c /\ UNCHANGED <<owner, ledgers, run, reader>>
    BY DEF ReadGit, IInv, CallInv, CallType
<1> HIDE DEF c
<1>4. Held(p)'
    BY <1>1, <1>3 DEF Held
<1>5. Knows(p)'
    BY <1>1, <1>2, <1>3 DEF Knows, BelowCap, ledgers, run
<1>6. Told(p)'
    BY <1>2, <1>3 DEF Told, ledgers, IInv, CallInv
<1>7. LockTypeOK'
    BY <1>3 DEF IInv, RunInv, LockTypeOK
<1> QED BY <1>2, <1>3, <1>4, <1>5, <1>6, <1>7, OnlyCallMoves

(* The look into the ledger: a key that is there, or the ledger as it is. *)
LEMMA LookupStep ==
    ASSUME IInv, NEW p \in Procs, Lookup(p)
    PROVE  IInv'
<1> DEFINE places == {i \in 1 .. Len(wal) : wal[i].idempotencyKey = Key(call[p].input)}
           found == IF places # {} THEN Min(places) ELSE 0
           c == [call[p] EXCEPT !.at = "append", !.entries = wal]
<1>1. Ledger = wal /\ Decodes(snap, wal) /\ wal \in Seq(Records)
    BY LedgerIsWal DEF IInv, LogInv
<1>2. /\ call[p].at = "ledger" /\ UNCHANGED <<owner, ledgers, run, reader>>
      /\ \/ found = 0 /\ call' = [call EXCEPT ![p].at = "append", ![p].entries = wal]
         \/ found # 0 /\ Answer(p, IF wal[found] = Entry(call[p].input, found) THEN "replayed"
                                   ELSE "duplicate_receipt")
    BY <1>1 DEF Lookup, At, SelectInSeq
<1>3. call[p] \in InCall /\ owner = p /\ BelowCap(p) /\ Bound(p)
    BY <1>2, BusyIsInCall DEF IInv, CallInv, Held, Inside, Knows
<1>4. places # {} => Min(places) \in places
    <2>1. places \in SUBSET Nat
        BY <1>1
    <2> HIDE DEF places
    <2> QED BY <2>1, MinIsMember
<1>5. /\ found # 0 => found \in 1 .. Len(wal)
      /\ found = 0 => \A i \in 1 .. Len(wal) : wal[i].idempotencyKey # Key(call[p].input)
    <2>1. CASE places = {}
        BY <2>1
    <2>2. CASE places # {}
        <3>1. found \in 1 .. Len(wal)
            BY <1>4, <2>2
        <3> HIDE DEF found
        <3> QED BY <3>1
    <2> QED BY <2>1, <2>2
<1> HIDE DEF places, found
<1>6. CASE found # 0
    <2>1. PICK result \in {"replayed", "duplicate_receipt"} :
            /\ Answer(p, result)
            /\ result = "replayed" => wal[found] = Entry(call[p].input, found)
        BY <1>2, <1>6
    <2> QED BY <2>1, <1>2, <1>3, <1>5, <1>6, AnswerStep DEF Inside, Verdicts
<1>7. CASE found = 0
    <2>1. c \in InCall /\ c.at = "append" /\ c.input = call[p].input /\ c.result = call[p].result
          /\ c.entries = wal
        BY <1>1, <1>3 DEF InCall, Inside
    <2>2. call' = [call EXCEPT ![p] = c] /\ call'[p] = c
        BY <1>2, <1>7 DEF IInv, CallInv, CallType
    <2> HIDE DEF c
    <2>3. Held(p)'
        BY <1>2, <1>3, <2>2 DEF Held
    <2>4. Knows(p)'
        BY <1>2, <1>3, <1>5, <1>7, <2>1, <2>2 DEF Knows, BelowCap, Bound, ledgers, run
    <2>5. Told(p)'
        BY <1>2, <2>1, <2>2 DEF Told, ledgers, IInv, CallInv
    <2>6. LockTypeOK'
        BY <1>2 DEF IInv, RunInv, LockTypeOK
    <2> QED BY <1>2, <2>1, <2>2, <2>3, <2>4, <2>5, <2>6, OnlyCallMoves
<1> QED BY <1>6, <1>7

-----------------------------------------------------------------------------
(* The steps that write                                                    *)

(* While p has the lock, nobody else is inside it. *)
LEMMA OthersOutside ==
    ASSUME IInv, NEW p \in Procs, call[p].at \in Inside, NEW q \in Procs, q # p
    PROVE  call[q].at \notin Inside /\ owner = p
BY DEF IInv, CallInv, Held

(* One rejection more, which the scope's cap may be reached by. *)
LEMMA RejectStep ==
    ASSUME IInv, NEW p \in Procs, Reject(p)
    PROVE  IInv'
<1> DEFINE count == Min({Prior(p) + 1, RejectionLimit})
           result == IF count = RejectionLimit THEN "needs_parent_decision" ELSE "rejected"
           c == [call[p] EXCEPT !.at = "leaving", !.result = result]
<1>1. /\ call[p].at = "reject" /\ UNCHANGED <<owner, snap, wal, run, reader>>
      /\ rejections' = [rejections EXCEPT ![Scope(call[p].input.agent)] = count]
      /\ call' = [call EXCEPT ![p] = c] /\ call'[p] = c
    BY DEF Reject, At, Answer, IInv, CallInv, CallType
<1>2. call[p] \in InCall /\ owner = p
    BY <1>1, BusyIsInCall DEF IInv, CallInv, Held, Inside
<1>3. c \in InCall /\ c.at = "leaving" /\ c.result \notin {"accepted", "replayed"}
    BY <1>2 DEF InCall, Inside, Verdicts
<1>4. rejections' \in [Scopes -> 0 .. RejectionLimit]
    <2>1. CASE Scope(call[p].input.agent) \in Scopes
        <3>1. Prior(p) \in 0 .. RejectionLimit
            BY <2>1 DEF Prior, IInv, RunInv
        <3>2. count \in {Prior(p) + 1, RejectionLimit} /\ count <= RejectionLimit
            BY <3>1 DEF Min, RejectionLimit
        <3>3. count \in 0 .. RejectionLimit
            BY <3>1, <3>2 DEF RejectionLimit
        <3> HIDE DEF count
        <3> QED BY <1>1, <2>1, <3>3 DEF IInv, RunInv
    <2>2. CASE Scope(call[p].input.agent) \notin Scopes
        BY <1>1, <2>2 DEF IInv, RunInv
    <2> QED BY <2>1, <2>2
<1> HIDE DEF c, count, result
<1>5. LogInv' /\ RunInv' /\ ReaderInv'
    BY <1>1, <1>4 DEF IInv, LogInv, RunInv, LockTypeOK, ReaderInv, run
<1>6. CallType'
    BY <1>1, <1>3 DEF IInv, CallInv, CallType
<1>7. Held(p)' /\ Knows(p)' /\ Told(p)'
    BY <1>1, <1>2, <1>3 DEF Held, Knows, Told
<1>8. ASSUME NEW q \in Procs, q # p PROVE Held(q)' /\ Knows(q)' /\ Told(q)'
    <2>1. call'[q] = call[q] /\ call[q].at \notin Inside
        BY <1>1, <1>8, OthersOutside DEF IInv, CallInv, CallType, Inside
    <2> QED BY <1>1, <2>1 DEF IInv, CallInv, Held, Knows, Told, Inside
<1> QED BY <1>5, <1>6, <1>7, <1>8 DEF IInv, CallInv

(* What a reader holds are sequences of entries. *)
LEMMA ReaderTyped ==
    ASSUME ReaderInv, NEW r \in Readers
    PROVE  /\ reader[r].at = "half" =>
                reader[r].snap \in Seq(Records) /\ reader[r].known \in Seq(Records)
           /\ reader[r].at = "done" =>
                /\ reader[r].got \in Seq(Records) /\ reader[r].known \in Seq(Records)
                /\ reader[r].decodes = TRUE
<1>1. reader[r] \in Halfway \cup HasRead \cup {NotReading}
    BY DEF ReaderInv
<1>2. CASE reader[r] \in Halfway
    BY <1>2 DEF Halfway
<1>3. CASE reader[r] \in HasRead
    BY <1>3 DEF HasRead
<1>4. CASE reader[r] = NotReading
    BY <1>4 DEF NotReading
<1> QED BY <1>1, <1>2, <1>3, <1>4

(* The next entry of the log: the one place where the ledger grows. *)
LEMMA AppendStep ==
    ASSUME IInv, NEW p \in Procs, AppendWal(p), wal' # wal
    PROVE  /\ IInv'
           /\ wal' = Append(wal, Entry(call[p].input, Len(wal) + 1))
           /\ BelowCap(p) /\ Bound(p) /\ call[p].input \in Offers
           /\ \A i \in 1 .. Len(wal) : wal[i].idempotencyKey # Key(call[p].input)
           /\ UNCHANGED <<run, rejections>>
<1> DEFINE e == Entry(call[p].input, Len(wal) + 1)
           c == [call[p] EXCEPT !.at = "snapshot"]
<1>1. call[p].at = "append" /\ UNCHANGED <<owner, snap, rejections, run, reader>>
    BY DEF AppendWal, At
<1>2. call[p] \in InCall /\ owner = p /\ Knows(p)
    BY <1>1, BusyIsInCall DEF IInv, CallInv, Held, Inside
<1>3. /\ call[p].entries = wal /\ BelowCap(p) /\ Bound(p) /\ call[p].input \in Offers
      /\ \A i \in 1 .. Len(wal) : wal[i].idempotencyKey # Key(call[p].input)
    BY <1>1, <1>2 DEF Knows, InCall
<1>4. wal' = Append(wal, e) /\ call' = [call EXCEPT ![p] = c]
    BY <1>3 DEF AppendWal, Goto, Candidate
<1>5. wal \in Seq(Records) /\ e \in Records /\ e.sequence = Len(wal) + 1
      /\ e.idempotencyKey = Key(call[p].input)
    BY <1>3, EntryTyped DEF IInv, LogInv, Entry
<1>6. c \in InCall /\ c.at = "snapshot" /\ c.input = call[p].input /\ c.result = call[p].result
      /\ c.entries = wal /\ call'[p] = c
    BY <1>2, <1>3, <1>4 DEF InCall, Inside, IInv, CallInv, CallType
<1>7. /\ wal' \in Seq(Records) /\ Len(wal') = Len(wal) + 1 /\ wal'[Len(wal) + 1] = e
      /\ \A i \in 1 .. Len(wal) : wal'[i] = wal[i]
      /\ \A s \in Seq(Records) : Begins(s, wal) => Begins(s, wal')
    <2> HIDE DEF e
    <2> QED BY <1>4, <1>5, AppendKeeps
<1>8. wal' = Append(c.entries, Entry(c.input, Len(c.entries) + 1))
    BY <1>4, <1>6
<1> HIDE DEF c, e
<1>9. LogInv'
    <2>1. Numbered(wal')
        BY <1>5, <1>7 DEF IInv, LogInv, Numbered
    <2>2. Keyed(wal')
        BY <1>3, <1>5, <1>7 DEF IInv, LogInv, Keyed
    <2> QED BY <2>1, <2>2, <1>1, <1>7 DEF IInv, LogInv
<1>10. RunInv'
    BY <1>1 DEF IInv, RunInv, LockTypeOK, run
<1>11. ReaderInv'
    <2>1. ASSUME NEW r \in Readers
          PROVE  /\ reader[r].at = "half" => Begins(reader[r].snap, wal') /\ Begins(reader[r].known, wal')
                 /\ reader[r].at = "done" => Begins(reader[r].got, wal')
        <3>1. /\ reader[r].at = "half" => reader[r].snap \in Seq(Records) /\ reader[r].known \in Seq(Records)
              /\ reader[r].at = "done" => reader[r].got \in Seq(Records)
            BY ReaderTyped DEF IInv
        <3> QED BY <3>1, <1>7 DEF IInv, ReaderInv
    <2> QED BY <2>1, <1>1 DEF IInv, ReaderInv
<1>12. CallType'
    BY <1>4, <1>6 DEF IInv, CallInv, CallType
<1>13. ASSUME NEW q \in Procs, Told(q), call'[q].input = call[q].input, call'[q].result = call[q].result
       PROVE  Told(q)'
    BY <1>7, <1>13, <1>5 DEF Told
<1>14. Held(p)' /\ Knows(p)' /\ Told(p)'
    <2>1. Held(p)'
        BY <1>1, <1>2 DEF Held
    <2>2. Knows(p)'
        BY <1>6, <1>8 DEF Knows, Candidate
    <2> QED BY <2>1, <2>2, <1>6, <1>13 DEF IInv, CallInv
<1>15. ASSUME NEW q \in Procs, q # p PROVE Held(q)' /\ Knows(q)' /\ Told(q)'
    <2>1. call'[q] = call[q] /\ call[q].at \notin Inside
        BY <1>1, <1>4, <1>15, OthersOutside DEF IInv, CallInv, CallType, Inside
    <2>2. Told(q)'
        BY <1>13, <2>1 DEF IInv, CallInv
    <2> QED BY <2>1, <2>2 DEF Held, Knows, Inside
<1>16. IInv'
    BY <1>9, <1>10, <1>11, <1>12, <1>14, <1>15 DEF IInv, CallInv
<1> QED BY <1>1, <1>3, <1>4, <1>16 DEF e

(* The snapshot becomes the log. *)
LEMMA SnapshotStep ==
    ASSUME IInv, NEW p \in Procs, WriteSnapshot(p)
    PROVE  IInv'
<1> DEFINE c == [call[p] EXCEPT !.at = "leaving", !.result = "accepted"]
<1>1. /\ call[p].at = "snapshot" /\ UNCHANGED <<owner, wal, rejections, run, reader>>
      /\ snap' = Append(call[p].entries, Candidate(p))
      /\ call' = [call EXCEPT ![p] = c] /\ call'[p] = c
    BY DEF WriteSnapshot, At, Answer, IInv, CallInv, CallType
<1>2. call[p] \in InCall /\ owner = p /\ Knows(p)
    BY <1>1, BusyIsInCall DEF IInv, CallInv, Held, Inside
<1>3. snap' = wal
    BY <1>1, <1>2 DEF Knows
<1>4. \E i \in 1 .. Len(wal) : wal[i] = Entry(call[p].input, i)
    <2>1. call[p].entries \in Seq(Records) /\ Candidate(p) \in Records
        BY <1>2, EntryTyped DEF InCall, Candidate
    <2>2. Len(wal) = Len(call[p].entries) + 1 /\ wal[Len(call[p].entries) + 1] = Candidate(p)
        BY <1>1, <1>2, <2>1, AppendKeeps DEF Knows
    <2> QED BY <2>1, <2>2 DEF Candidate
<1>5. c \in InCall /\ c.at = "leaving" /\ c.input = call[p].input
    BY <1>2 DEF InCall, Inside, Verdicts
<1> HIDE DEF c
<1>6. LogInv'
    BY <1>1, <1>3 DEF IInv, LogInv, Begins
<1>7. RunInv' /\ ReaderInv'
    BY <1>1 DEF IInv, RunInv, LockTypeOK, ReaderInv, run
<1>8. CallType'
    BY <1>1, <1>5 DEF IInv, CallInv, CallType
<1>9. Held(p)' /\ Knows(p)' /\ Told(p)'
    BY <1>1, <1>2, <1>4, <1>5 DEF Held, Knows, Told
<1>10. ASSUME NEW q \in Procs, q # p PROVE Held(q)' /\ Knows(q)' /\ Told(q)'
    <2>1. call'[q] = call[q] /\ call[q].at \notin Inside
        BY <1>1, <1>10, OthersOutside DEF IInv, CallInv, CallType, Inside
    <2> QED BY <1>1, <2>1 DEF IInv, CallInv, Held, Knows, Told, Inside
<1> QED BY <1>6, <1>7, <1>8, <1>9, <1>10 DEF IInv, CallInv

(* The run moves on, or the lock of a dead process is cleared. *)
LEMMA RunStep ==
    ASSUME IInv, Progress \/ Dispatch \/ MoveHead \/ ClearStaleLock
    PROVE  IInv'
<1>1. UNCHANGED <<ledgers, call, reader>>
    BY DEF Progress, Dispatch, MoveHead, ClearStaleLock
<1>2. LogInv' /\ ReaderInv' /\ CallType'
    BY <1>1 DEF IInv, LogInv, ReaderInv, CallInv, CallType, ledgers
<1>3. RunInv'
    <2> USE <1>1 DEF IInv, RunInv, LockTypeOK, ledgers
    <2>1. CASE Progress
        BY <2>1, AcceptanceAssumption DEF Progress
    <2>2. CASE Dispatch
        BY <2>2, AcceptanceAssumption DEF Dispatch
    <2>3. CASE MoveHead
        BY <2>3 DEF MoveHead
    <2>4. CASE ClearStaleLock
        BY <2>4 DEF ClearStaleLock, Clear, run
    <2> QED BY <2>1, <2>2, <2>3, <2>4
<1>4. ASSUME NEW q \in Procs PROVE Held(q)' /\ Knows(q)' /\ Told(q)'
    <2>1. call'[q] = call[q] /\ wal' = wal /\ rejections' = rejections
        BY <1>1 DEF ledgers
    <2>2. CASE MoveHead
        BY <2>1, <2>2 DEF MoveHead, IInv, CallInv, Held, Knows, Told, BelowCap, Bound, Candidate
    <2>3. CASE Progress \/ Dispatch \/ ClearStaleLock
        <3>1. owner \notin Procs
            BY <2>3, ProcsAssumption DEF Progress, Dispatch, ClearStaleLock, Clear
        <3>2. call[q].at \notin Inside
            BY <3>1 DEF IInv, CallInv, Held
        <3> QED BY <2>1, <3>2 DEF IInv, CallInv, Held, Knows, Told, Inside
    <2> QED BY <2>2, <2>3
<1> QED BY <1>2, <1>3, <1>4 DEF IInv, CallInv

(* A reader takes the snapshot and the log at different moments. *)
LEMMA ReadStep ==
    ASSUME IInv, NEW r \in Readers, ReadSnapshot(r) \/ ReadWal(r) \/ EndRead(r)
    PROVE  IInv'
<1>1. UNCHANGED <<owner, ledgers, run, call>>
    BY DEF ReadSnapshot, ReadWal, EndRead
<1>2. LogInv' /\ RunInv' /\ CallType'
    BY <1>1 DEF IInv, LogInv, RunInv, LockTypeOK, CallInv, CallType, ledgers, run
<1>3. \A q \in Procs : Held(q)' /\ Knows(q)' /\ Told(q)'
    BY <1>1 DEF IInv, CallInv, Held, Knows, Told, BelowCap, Bound, Candidate, ledgers, run
<1>4. wal' = wal /\ wal \in Seq(Records) /\ snap \in Seq(Records)
      /\ Begins(snap, wal) /\ Begins(wal, wal) /\ Numbered(wal) /\ Keyed(wal)
    BY <1>1 DEF IInv, LogInv, ledgers, Begins
<1>5. ASSUME NEW c \in Halfway \cup HasRead \cup {NotReading}, reader' = [reader EXCEPT ![r] = c],
             c.at = "half" => Begins(c.snap, wal) /\ Begins(c.known, wal),
             c.at = "done" => Begins(c.known, c.got) /\ Begins(c.got, wal)
      PROVE  ReaderInv'
    BY <1>4, <1>5 DEF IInv, ReaderInv
<1>6. CASE ReadSnapshot(r)
    <2> DEFINE c == [at |-> "half", snap |-> snap, known |-> wal]
    <2>1. reader' = [reader EXCEPT ![r] = c]
        BY <1>6, LedgerIsWal DEF ReadSnapshot, IInv
    <2>2. c \in Halfway /\ c.at = "half" /\ c.snap = snap /\ c.known = wal
        BY <1>4 DEF Halfway
    <2> HIDE DEF c
    <2>3. ReaderInv'
        BY <1>4, <1>5, <2>1, <2>2
    <2> QED BY <1>2, <1>3, <2>3 DEF IInv, CallInv
<1>7. CASE ReadWal(r)
    <2> DEFINE c == [at |-> "done", got |-> wal, known |-> reader[r].known, decodes |-> TRUE]
    <2>1. /\ reader[r].snap \in Seq(Records) /\ reader[r].known \in Seq(Records)
          /\ Begins(reader[r].snap, wal) /\ Begins(reader[r].known, wal)
        BY <1>7, ReaderTyped DEF ReadWal, IInv, ReaderInv
    <2>2. Merged(reader[r].snap, wal) = wal /\ Decodes(reader[r].snap, wal) = TRUE
        BY <1>4, <2>1, LogDecodes
    <2>3. reader' = [reader EXCEPT ![r] = c]
        BY <1>7, <2>2 DEF ReadWal
    <2>4. c \in HasRead /\ c.at = "done" /\ c.got = wal /\ c.known = reader[r].known
        BY <1>4, <2>1 DEF HasRead
    <2> HIDE DEF c
    <2>5. ReaderInv'
        BY <1>4, <1>5, <2>1, <2>3, <2>4
    <2> QED BY <1>2, <1>3, <2>5 DEF IInv, CallInv
<1>8. CASE EndRead(r)
    <2>1. ReaderInv'
        BY <1>5, <1>8 DEF EndRead, NotReading
    <2> QED BY <1>2, <1>3, <2>1 DEF IInv, CallInv
<1> QED BY <1>6, <1>7, <1>8

(* One step: the invariant, and what a growing ledger grows by. *)
Grows ==
    \E p \in Procs :
        /\ BelowCap(p) /\ Bound(p) /\ call[p].input \in Offers
        /\ wal' = Append(wal, Entry(call[p].input, Len(wal) + 1))
        /\ \A i \in 1 .. Len(wal) : wal[i].idempotencyKey # Key(call[p].input)
        /\ UNCHANGED <<run, rejections>>

(* Every step keeps the invariant. *)
LEMMA StepIInv ==
    ASSUME IInv, [Next]_vars
    PROVE  IInv' /\ (wal' = wal \/ Grows)
<1>1. CASE UNCHANGED vars
    <2> USE DEF vars
    <2>1. LogInv' /\ RunInv' /\ ReaderInv' /\ CallType'
        BY <1>1 DEF IInv, LogInv, RunInv, LockTypeOK, ReaderInv, CallInv, CallType
    <2>2. \A q \in Procs : Held(q)' /\ Knows(q)' /\ Told(q)'
        BY <1>1 DEF IInv, CallInv, Held, Knows, Told, BelowCap, Bound, Candidate
    <2> QED BY <1>1, <2>1, <2>2 DEF IInv, CallInv
<1>2. ASSUME NEW p \in Procs, NEW input \in Offers, Call(p, input)
      PROVE  IInv' /\ wal' = wal
    BY <1>2, CallStep DEF Call, ledgers
<1>3. ASSUME NEW p \in Procs, NoLock(p) \/ Crash(p) PROVE IInv' /\ wal' = wal
    BY <1>3, DropStep DEF NoLock, Crash, ledgers
<1>4. ASSUME NEW p \in Procs, Enter(p) \/ Leave(p) PROVE IInv' /\ wal' = wal
    BY <1>4, EnterStep, LeaveStep DEF Enter, Leave, ledgers
<1>5. ASSUME NEW p \in Procs,
             OutOfScope(p) \/ CheckScope(p) \/ Validate(p) \/ FinalGit(p) \/ Interrupt(p) \/ WriteFails(p)
      PROVE  IInv' /\ wal' = wal
    <2>1. wal' = wal
        BY <1>5 DEF OutOfScope, CheckScope, Validate, FinalGit, Interrupt, WriteFails, ledgers
    <2> QED BY <1>5, <2>1, CheckStep
<1>6. ASSUME NEW p \in Procs, ReadGit(p) \/ Lookup(p) PROVE IInv' /\ wal' = wal
    <2>1. wal' = wal
        BY <1>6 DEF ReadGit, Lookup, ledgers
    <2> QED BY <1>6, <2>1, ReadGitStep, LookupStep
<1>7. ASSUME NEW p \in Procs, Reject(p) \/ WriteSnapshot(p) PROVE IInv' /\ wal' = wal
    <2>1. wal' = wal
        BY <1>7 DEF Reject, WriteSnapshot
    <2> QED BY <1>7, <2>1, RejectStep, SnapshotStep
<1>8. ASSUME NEW p \in Procs, AppendWal(p) PROVE IInv' /\ (wal' = wal \/ Grows)
    <2>1. CASE wal' # wal
        BY <1>8, <2>1, AppendStep DEF Grows
    <2>2. CASE wal' = wal
        <3>1. wal \in Seq(Records) /\ Candidate(p) \in Records
            <4>1. call[p] \in InCall
                BY <1>8, BusyIsInCall DEF AppendWal, At, IInv, CallInv
            <4> QED BY <4>1, EntryTyped DEF IInv, LogInv, InCall, Candidate
        <3>2. Append(wal, Candidate(p)) # wal
            BY <3>1, AppendKeeps
        <3>3. Answer(p, "thrown") /\ UNCHANGED <<owner, ledgers, run, reader>>
            BY <1>8, <2>2, <3>2 DEF AppendWal, ledgers
        <3>4. call[p].at \in Inside /\ owner = p
            BY <1>8 DEF AppendWal, At, Inside, IInv, CallInv, Held
        <3> QED BY <2>2, <3>3, <3>4, AnswerStep DEF Verdicts
    <2> QED BY <2>1, <2>2
<1>9. ASSUME NEW r \in Readers, ReadSnapshot(r) \/ ReadWal(r) \/ EndRead(r)
      PROVE  IInv' /\ wal' = wal
    BY <1>9, ReadStep DEF ReadSnapshot, ReadWal, EndRead, ledgers
<1>10. ASSUME Progress \/ Dispatch \/ MoveHead \/ ClearStaleLock PROVE IInv' /\ wal' = wal
    BY <1>10, RunStep DEF Progress, Dispatch, MoveHead, ClearStaleLock, ledgers
<1> QED
    <2>1. CASE Next
        BY <2>1, <1>2, <1>3, <1>4, <1>5, <1>6, <1>7, <1>8, <1>9, <1>10 DEF Next, Step
    <2> QED BY <1>1, <2>1

-----------------------------------------------------------------------------
(* The theorems                                                            *)

(* The inductive invariant, above all that the write-ahead log is the      *)
(* ledger.                                                                 *)
THEOREM AcceptanceInvariant == Spec => []IInv
<1>1. IInv /\ [Next]_vars => IInv'
    BY StepIInv
<1> QED BY <1>1, InitIInv, PTL DEF Spec

(* Whatever crash, failed write or reader comes between the write of the   *)
(* log and that of the snapshot, for any number of processes and readers:  *)
(* the two decode to one ledger, a reader of both misses nothing of it,    *)
(* and what accept answered "accepted" or "replayed" to is in it.          *)
THEOREM LedgerIsSoundHolds == Spec => []LedgerIsSound
<1>1. IInv => LedgerIsSound
    <2> SUFFICES ASSUME IInv PROVE LedgerIsSound
        OBVIOUS
    <2>1. Ledger = wal /\ Decodes(snap, wal) /\ wal \in Seq(Records)
        BY LedgerIsWal DEF IInv, LogInv
    <2>2. LedgerDecodes
        BY <2>1, ReaderTyped DEF LedgerDecodes, IInv
    <2>3. ReaderSees
        <3> SUFFICES ASSUME NEW r \in Readers, reader[r].at = "done"
                     PROVE  IsPrefix(reader[r].known, reader[r].got) /\ IsPrefix(reader[r].got, wal)
            BY <2>1 DEF ReaderSees
        <3>1. reader[r].got \in Seq(Records) /\ reader[r].known \in Seq(Records)
            BY ReaderTyped DEF IInv
        <3>2. Begins(reader[r].known, reader[r].got) /\ Begins(reader[r].got, wal)
            BY DEF IInv, ReaderInv
        <3> QED BY <2>1, <3>1, <3>2, PrefixIsBegins
    <2>4. AcceptedIsDurable
        BY <2>1 DEF AcceptedIsDurable, IInv, CallInv, Told
    <2> QED BY <2>2, <2>3, <2>4 DEF LedgerIsSound
<1> QED BY <1>1, AcceptanceInvariant, PTL

(* After three rejections of a worker's task in a generation the ledger    *)
(* grows by a result of it only on its parent's review: the count that     *)
(* CheckScope read is still the count when the log is written.             *)
THEOREM CapIsHeldHolds == Spec => CapIsHeld
<1> DEFINE capped == Len(Ledger') > Len(Ledger) =>
         LET e == Last(Ledger')
         IN rejections[<<e.agent, e.taskGeneration>>] < RejectionLimit
            \/ e.decision = "accept_after_review"
<1>1. ASSUME IInv, IInv', [Next]_vars PROVE capped
    <2>1. Ledger = wal /\ wal \in Seq(Records)
        BY <1>1, LedgerIsWal DEF IInv, LogInv
    <2>2. Ledger' = wal'
        BY <1>1, LedgerIsWalNext DEF IInv
    <2>3. CASE wal' = wal
        BY <2>1, <2>2, <2>3
    <2>4. CASE Grows
        <3>1. PICK p \in Procs :
                /\ BelowCap(p) /\ Bound(p) /\ call[p].input \in Offers
                /\ wal' = Append(wal, Entry(call[p].input, Len(wal) + 1))
            BY <2>4 DEF Grows
        <3> DEFINE e == Entry(call[p].input, Len(wal) + 1)
        <3>2. e \in Records
            BY <2>1, <3>1, EntryTyped
        <3>3. e.agent = call[p].input.agent /\ e.taskGeneration = generation
              /\ e.decision = call[p].input.decision
            BY <3>1 DEF Entry, Bound
        <3> HIDE DEF e
        <3>4. Last(wal') = e
            BY <2>1, <3>1, <3>2, AppendKeeps DEF Last, e
        <3> QED BY <2>2, <3>1, <3>3, <3>4 DEF BelowCap
    <2> QED BY <1>1, <2>3, <2>4, StepIInv
<1>2. IInv /\ IInv' /\ [Next]_vars => [capped]_vars
    BY <1>1
<1>3. Spec => [][capped]_vars
    <2> HIDE DEF capped
    <2> QED BY <1>2, AcceptanceInvariant, PTL DEF Spec
<1> QED BY <1>3 DEF CapIsHeld

(* For those who read the ledger, the log, the snapshot and all the checks *)
(* implement AcceptanceLog: a list that grows by one acceptance at a time, *)
(* of the attempt and the dispatch the run is at, with a key of its own.   *)
THEOREM AcceptanceRefines == Spec => ImplementsAcceptanceLog
<1>1. Init => AcceptanceView!AcceptInit
    <2> SUFFICES ASSUME Init PROVE Ledger = <<>>
        BY DEF AcceptanceView!AcceptInit
    <2>1. LogInv
        BY InitIInv DEF IInv
    <2> QED BY <2>1, LedgerIsWal DEF Init
<1>2. ASSUME IInv, IInv', [Next]_vars
      PROVE  [AcceptanceView!Accept \/ AcceptanceView!Advance]_<<Ledger, attempt, generation>>
    <2>1. Ledger = wal /\ wal \in Seq(Records)
        BY <1>2, LedgerIsWal DEF IInv, LogInv
    <2>2. Ledger' = wal'
        BY <1>2, LedgerIsWalNext DEF IInv
    <2>3. CASE wal' = wal
        BY <2>1, <2>2, <2>3 DEF AcceptanceView!Advance
    <2>4. CASE Grows
        <3>1. PICK p \in Procs :
                /\ Bound(p) /\ call[p].input \in Offers
                /\ wal' = Append(wal, Entry(call[p].input, Len(wal) + 1))
                /\ \A i \in 1 .. Len(wal) : wal[i].idempotencyKey # Key(call[p].input)
                /\ UNCHANGED run
            BY <2>4 DEF Grows
        <3> DEFINE e == Entry(call[p].input, Len(wal) + 1)
        <3>2. e \in Records
            BY <2>1, <3>1, EntryTyped
        <3>3. e.attempt = attempt /\ e.taskGeneration = generation
              /\ e.idempotencyKey = Key(call[p].input)
            BY <3>1 DEF Entry, Bound
        <3> HIDE DEF e
        <3>4. Len(wal') = Len(wal) + 1 /\ wal'[Len(wal')] = e
              /\ \A i \in 1 .. Len(wal) : wal'[i] = wal[i]
            BY <2>1, <3>1, <3>2, AppendKeeps DEF e
        <3> QED BY <2>1, <2>2, <3>1, <3>3, <3>4 DEF AcceptanceView!Accept, run
    <2> QED BY <1>2, <2>3, <2>4, StepIInv
<1> QED BY <1>1, <1>2, AcceptanceInvariant, PTL
        DEF Spec, ImplementsAcceptanceLog, AcceptanceView!AcceptSpec
=============================================================================

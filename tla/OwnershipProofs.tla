-------------------------- MODULE OwnershipProofs --------------------------
(***************************************************************************)
(* Who may create, replace and remove a file.  First the lock file of      *)
(* RepoLock: mutual exclusion and the refinement of ExclusiveLock, for any *)
(* number of processes and acquisitions, when at most one operator clears  *)
(* stale locks at a time.  Then the reservation and the roster of a team   *)
(* (TeamMode), for any number of sessions, runs, crashes and commits.      *)
(***************************************************************************)
EXTENDS RepoLock, TeamMode, TLAPS

(* A process that has created the lock file and not yet removed it still   *)
(* finds its own file at the path.                                         *)
OwnFile ==
    \A p \in Procs : /\ pc[p] = "opened" => lock = File(Nonce(p), FALSE)
                     /\ Inside(p) => lock = File(Nonce(p), TRUE)

(* A running clear aims at a dead process, and once it has compared the    *)
(* nonce the file it is about to remove is that process's.                 *)
ClearsDead ==
    \A c \in Clearers :
       clr[c].pc # "idle" =>
          /\ pc[clr[c].expectedNonce[1]] = "dead"
          /\ clr[c].pc = "releasing" => Shows(clr[c].expectedNonce)

IInv == TypeOK /\ OwnFile /\ ClearsDead

AtMostOneClearer == \A c, d \in Clearers : c = d

USE RepoLockAssumption

(* It holds of a free lock. *)
LEMMA InitIInv == Init => IInv
  BY DEF Init, IInv, TypeOK, OwnFile, ClearsDead, Files, NoFile, PcValues,
         ClrValues, Inside

(* Every step keeps the types. *)
LEMMA TypeStep == TypeOK /\ [Next]_vars => TypeOK'
  <1> SUFFICES ASSUME TypeOK, [Next]_vars PROVE TypeOK'
    OBVIOUS
  <1> USE DEF TypeOK, Goto, PcValues
  <1>1. ASSUME NEW p \in Procs, ProcStep(p) PROVE TypeOK'
    <2> USE DEF Files, File, NoFile, Nonces, Nonce
    <2>1. CASE Request(p) BY <2>1 DEF Request
    <2>2. CASE Open(p) BY <2>2 DEF Open
    <2>3. CASE GiveUp(p) BY <2>3 DEF GiveUp
    <2>4. CASE WriteMetadata(p) BY <2>4 DEF WriteMetadata
    <2>5. CASE WriteFails(p) BY <2>5 DEF WriteFails
    <2>6. CASE ReleaseRead(p) BY <2>6 DEF ReleaseRead
    <2>7. CASE ReleaseUnlink(p) BY <2>7 DEF ReleaseUnlink
    <2>8. CASE Crash(p) BY <2>8 DEF Crash
    <2> QED BY <1>1, <2>1, <2>2, <2>3, <2>4, <2>5, <2>6, <2>7, <2>8 DEF ProcStep
  <1>2. ASSUME NEW c \in Clearers, ClearStep(c) PROVE TypeOK'
    <2> USE DEF ClrValues
    <2>1. CASE ClearConfirm(c)
      BY <2>1 DEF ClearConfirm, Nonce, Nonces
    <2>2. CASE ClearReadMetadata(c)
      BY <2>2 DEF ClearReadMetadata
    <2>3. CASE ClearReleaseRead(c)
      BY <2>3 DEF ClearReleaseRead
    <2>4. CASE ClearUnlink(c)
      BY <2>4 DEF ClearUnlink, Files, NoFile
    <2> QED BY <1>2, <2>1, <2>2, <2>3, <2>4 DEF ClearStep
  <1>3. CASE UNCHANGED vars BY <1>3 DEF vars
  <1> QED BY <1>1, <1>2, <1>3 DEF Next

(* Every step keeps the claims to the lock file: only the owner of a file  *)
(* or the one clear aimed at a dead owner ever removes it.                 *)
LEMMA ClaimStep ==
  ASSUME AtMostOneClearer, IInv, [Next]_vars
  PROVE  (OwnFile /\ ClearsDead)'
  <1> USE DEF IInv, TypeOK, Goto, PcValues, Inside, File, NoFile, Nonce, Shows
  <1>0. \A c \in Clearers : clr[c].pc # "idle" => clr[c].expectedNonce \in Procs \X Nat
    BY DEF ClrValues, Nonces
  <1>1. ASSUME NEW p \in Procs, ProcStep(p) PROVE (OwnFile /\ ClearsDead)'
    <2> USE DEF OwnFile, ClearsDead
    <2>1. CASE Request(p) BY <2>1, <1>0 DEF Request
    <2>2. CASE Open(p) BY <2>2, <1>0 DEF Open
    <2>3. CASE GiveUp(p) BY <2>3, <1>0 DEF GiveUp
    <2>4. CASE WriteMetadata(p)
      <3>1. lock = File(Nonce(p), FALSE) /\ lock' = File(Nonce(p), TRUE)
        BY <2>4 DEF WriteMetadata
      <3>2. \A q \in Procs \ {p} : pc[q] # "opened" /\ ~Inside(q)
        BY <3>1
      <3>3. OwnFile'
        BY <2>4, <3>1, <3>2 DEF WriteMetadata
      <3>4. \A c \in Clearers : clr[c].pc # "releasing"
        <4> SUFFICES ASSUME NEW c \in Clearers, clr[c].pc = "releasing" PROVE FALSE
          OBVIOUS
        <4>1. lock.written = TRUE BY DEF ClearsDead
        <4> QED BY <3>1, <4>1
      <3>5. ClearsDead'
        BY <2>4, <1>0, <3>4 DEF WriteMetadata
      <3> QED BY <3>3, <3>5
    <2>5. CASE WriteFails(p) BY <2>5, <1>0 DEF WriteFails
    <2>6. CASE ReleaseRead(p) BY <2>6, <1>0 DEF ReleaseRead
    <2>7. CASE ReleaseUnlink(p) BY <2>7, <1>0 DEF ReleaseUnlink
    <2>8. CASE Crash(p) BY <2>8, <1>0 DEF Crash
    <2> QED BY <1>1, <2>1, <2>2, <2>3, <2>4, <2>5, <2>6, <2>7, <2>8 DEF ProcStep
  <1>2. ASSUME NEW c \in Clearers, ClearStep(c) PROVE (OwnFile /\ ClearsDead)'
    <2>0. \A d \in Clearers : d = c BY DEF AtMostOneClearer
    <2> USE DEF OwnFile, ClearsDead
    <2>1. CASE ClearConfirm(c) BY <2>0, <2>1 DEF ClearConfirm
    <2>2. CASE ClearReadMetadata(c)
      BY <2>0, <2>2 DEF ClearReadMetadata, ClrValues
    <2>3. CASE ClearReleaseRead(c)
      BY <2>0, <2>3 DEF ClearReleaseRead, ClrValues
    <2>4. CASE ClearUnlink(c)
      <3>1. clr[c].expectedNonce \in Procs \X Nat /\ lock = File(clr[c].expectedNonce, TRUE)
        BY <2>4, <1>0 DEF ClearUnlink
      <3>2. pc[clr[c].expectedNonce[1]] = "dead"
        BY <2>4 DEF ClearUnlink
      <3>3. \A p \in Procs : pc[p] \notin {"opened", "held", "releasing"}
        <4> SUFFICES ASSUME NEW p \in Procs, pc[p] \in {"opened", "held", "releasing"}
                     PROVE  FALSE
          OBVIOUS
        <4>1. lock.nonce = <<p, round[p]>> OBVIOUS
        <4>2. clr[c].expectedNonce[1] = p BY <3>1, <4>1
        <4> QED BY <3>2, <4>2
      <3> QED BY <2>0, <2>4, <3>3 DEF ClearUnlink
    <2> QED BY <1>2, <2>1, <2>2, <2>3, <2>4 DEF ClearStep
  <1>3. CASE UNCHANGED vars BY <1>3 DEF vars, OwnFile, ClearsDead
  <1> QED BY <1>1, <1>2, <1>3 DEF Next

(* The inductive invariant holds throughout. *)
LEMMA Inductive == ASSUME AtMostOneClearer PROVE Spec => []IInv
  <1>1. IInv /\ [Next]_vars => IInv'
    BY TypeStep, ClaimStep DEF IInv
  <1> QED BY InitIInv, <1>1, PTL DEF Spec

(* The critical sections entered through tryAcquire never overlap, however *)
(* many processes contend and crash, if stale locks are cleared by one     *)
(* operator at a time.                                                     *)
THEOREM MutualExclusionHolds ==
  ASSUME AtMostOneClearer PROVE Spec => []MutualExclusion
  <1>1. IInv => MutualExclusion
    BY DEF IInv, OwnFile, MutualExclusion, File, Nonce
  <1> QED BY <1>1, Inductive, PTL

(* A lock file disappears only under its own nonce: the release of a live  *)
(* owner removes the file it created, and a clear removes the file of the  *)
(* dead process it was called for, whatever other processes do between its *)
(* reads and its unlink.                                                   *)
THEOREM OnlyOwnNonceRemovedHolds ==
  ASSUME AtMostOneClearer PROVE Spec => OnlyOwnNonceRemoved
  <1> DEFINE Own == \A p \in Procs :
               (pc[p] \notin {"idle", "dead"} /\ lock # NoFile /\ lock.nonce = Nonce(p)
                  /\ lock' = NoFile) => pc[p] = "releasing" /\ pc'[p] = "idle"
  <1>1. IInv /\ [Next]_vars => [Own]_vars
    <2> SUFFICES ASSUME IInv, Next, NEW p \in Procs,
                        pc[p] \notin {"idle", "dead"}, lock # NoFile,
                        lock.nonce = Nonce(p), lock' = NoFile
                 PROVE  pc[p] = "releasing" /\ pc'[p] = "idle"
      OBVIOUS
    <2>0. pc \in [Procs -> PcValues] BY DEF IInv, TypeOK
    <2>1. ASSUME NEW q \in Procs, ProcStep(q) PROVE pc[p] = "releasing" /\ pc'[p] = "idle"
      <3>1. ReleaseUnlink(q)
        BY <2>1 DEF ProcStep, Request, Open, GiveUp, WriteMetadata, WriteFails, ReleaseRead,
                    Crash, File, NoFile
      <3>2. lock.nonce = Nonce(q)
        BY <3>1 DEF ReleaseUnlink, IInv, OwnFile, Inside, File
      <3>3. q = p BY <3>2 DEF Nonce
      <3> QED BY <2>0, <3>1, <3>3 DEF ReleaseUnlink, Goto
    <2>2. ASSUME NEW c \in Clearers, ClearStep(c) PROVE FALSE
      <3>1. ClearUnlink(c)
        BY <2>2 DEF ClearStep, ClearConfirm, ClearReadMetadata, ClearReleaseRead
      <3>2. Shows(clr[c].expectedNonce) /\ pc[clr[c].expectedNonce[1]] = "dead"
        BY <3>1 DEF ClearUnlink, IInv, ClearsDead
      <3>3. clr[c].expectedNonce = Nonce(p)
        BY <3>2 DEF Shows, File
      <3> QED BY <3>2, <3>3 DEF Nonce
    <2> QED BY <2>1, <2>2 DEF Next
  <1> QED BY <1>1, Inductive, PTL DEF Spec, OnlyOwnNonceRemoved

(* What OwnerView is, claim by claim. *)
ViewFacts ==
  /\ \A p \in Procs : Claims(p) => OwnerView = p /\ lock # NoFile
  /\ (\A p \in Procs : ~Claims(p)) => OwnerView = IF lock = NoFile THEN "free" ELSE "stale"

(* At most one process claims the lock, so OwnerView names it. *)
LEMMA ViewLemma == IInv => ViewFacts
  <1> SUFFICES ASSUME IInv PROVE ViewFacts
    OBVIOUS
  <1>1. ASSUME NEW p \in Procs, Claims(p) PROVE OwnerView = p /\ lock # NoFile
    <2>1. \A q \in Procs : Claims(q) => q = p
      BY <1>1 DEF IInv, OwnFile, Claims, Inside, File, Nonce
    <2>2. OwnerView = p
      BY <1>1, <2>1 DEF OwnerView
    <2>3. lock # NoFile
      BY <1>1 DEF IInv, OwnFile, Claims, Inside, File, NoFile
    <2> QED BY <2>2, <2>3
  <1>2. (\A p \in Procs : ~Claims(p)) => OwnerView = IF lock = NoFile THEN "free" ELSE "stale"
    BY DEF OwnerView
  <1> QED BY <1>1, <1>2 DEF ViewFacts

(* Every step of the file protocol is a step of the exclusive lock, or     *)
(* leaves its owner alone.                                                 *)
LEMMA RefineStep ==
  ASSUME IInv, ViewFacts, ViewFacts', [Next]_vars
  PROVE  [Abstract!LockNext]_OwnerView
  <1> USE DEF Abstract!LockNext, Abstract!Acquire, Abstract!Release,
              Abstract!Abandon, Abstract!Clear, Abstract!Free, Abstract!Stale
  <1>0. pc \in [Procs -> PcValues]
    BY DEF IInv, TypeOK
  <1>1. ASSUME NEW p \in Procs, ProcStep(p) PROVE [Abstract!LockNext]_OwnerView
    <2>0. (\E q \in Procs : Claims(q)) \/ (\A q \in Procs : ~Claims(q))
      OBVIOUS
    <2> USE <1>0, <2>0 DEF ViewFacts, Claims, Goto
    <2>1. CASE Request(p) BY <2>1 DEF Request
    <2>2. CASE Open(p)
      <3>1. OwnerView = "free" BY <2>2 DEF Open
      <3>2. OwnerView' = p BY <2>2 DEF Open
      <3> QED BY <3>1, <3>2
    <2>3. CASE GiveUp(p) BY <2>3 DEF GiveUp
    <2>4. CASE WriteMetadata(p) BY <2>4 DEF WriteMetadata
    <2>5. CASE WriteFails(p)
      <3>1. OwnerView = p /\ lock # NoFile /\ lock' # NoFile BY <2>5 DEF WriteFails
      <3>2. \A q \in Procs : ~Claims(q)'
        BY <2>5, <3>1 DEF WriteFails
      <3> QED BY <3>1, <3>2
    <2>6. CASE ReleaseRead(p)
      <3>1. Shows(Nonce(p)) BY <2>6 DEF ReleaseRead, IInv, OwnFile, Inside, Shows
      <3> QED BY <2>6, <3>1 DEF ReleaseRead
    <2>7. CASE ReleaseUnlink(p)
      <3>1. OwnerView = p /\ lock' = NoFile BY <2>7 DEF ReleaseUnlink
      <3>2. \A q \in Procs : ~Claims(q)'
        BY <2>7, <3>1 DEF ReleaseUnlink
      <3> QED BY <3>1, <3>2
    <2>8. CASE Crash(p)
      <3>1. CASE Claims(p)
        <4>1. OwnerView = p /\ lock # NoFile /\ lock' # NoFile BY <2>8, <3>1 DEF Crash
        <4>2. \A q \in Procs : ~Claims(q)'
          BY <2>8, <4>1 DEF Crash
        <4> QED BY <4>1, <4>2
      <3>2. CASE ~Claims(p) BY <2>8, <3>2 DEF Crash
      <3> QED BY <3>1, <3>2
    <2> QED BY <1>1, <2>1, <2>2, <2>3, <2>4, <2>5, <2>6, <2>7, <2>8 DEF ProcStep
  <1>2. ASSUME NEW c \in Clearers, ClearStep(c) PROVE [Abstract!LockNext]_OwnerView
    <2>1. CASE lock' = lock
      BY <1>2, <2>1 DEF ClearStep, ClearConfirm, ClearReadMetadata, ClearReleaseRead,
                        ClearUnlink, OwnerView, Claims
    <2>2. CASE lock' # lock
      <3>1. ClearUnlink(c)
        BY <1>2, <2>2 DEF ClearStep, ClearConfirm, ClearReadMetadata, ClearReleaseRead
      <3>2. Shows(clr[c].expectedNonce) /\ pc[clr[c].expectedNonce[1]] = "dead"
        BY <3>1 DEF ClearUnlink, IInv, ClearsDead
      <3>3. \A q \in Procs : ~Claims(q)
        <4> SUFFICES ASSUME NEW q \in Procs, Claims(q) PROVE FALSE
          OBVIOUS
        <4>1. lock.nonce = <<q, round[q]>>
          BY DEF Claims, Inside, IInv, OwnFile, File, Nonce
        <4>2. clr[c].expectedNonce[1] = q
          BY <3>2, <4>1 DEF Shows, File
        <4> QED BY <3>2, <4>2 DEF Claims
      <3>4. lock # NoFile BY <3>2 DEF Shows, File, NoFile
      <3>5. OwnerView = "stale" BY <3>3, <3>4 DEF ViewFacts
      <3>6. lock' = NoFile /\ (\A q \in Procs : ~Claims(q)')
        BY <3>1, <3>3 DEF ClearUnlink, Claims
      <3>7. OwnerView' = "free" BY <3>6 DEF ViewFacts
      <3> QED BY <3>5, <3>7
    <2> QED BY <2>1, <2>2
  <1>3. CASE UNCHANGED vars BY <1>3 DEF vars, OwnerView, Claims
  <1> QED BY <1>1, <1>2, <1>3 DEF Next

(* The lock file of repo-lock.ts implements the exclusive lock that the    *)
(* state store is written against.                                         *)
THEOREM RepoLockRefines ==
  ASSUME AtMostOneClearer PROVE Spec => ImplementsExclusiveLock
  <1>1. Init => Abstract!LockInit
    BY DEF Init, OwnerView, Claims, Abstract!LockInit, Abstract!Free
  <1>2. IInv /\ IInv' /\ [Next]_vars => [Abstract!LockNext]_OwnerView
    <2>1. IInv' => ViewFacts' BY ViewLemma, PTL
    <2> QED BY <2>1, ViewLemma, RefineStep
  <1> QED BY <1>1, <1>2, Inductive, PTL DEF Spec, ImplementsExclusiveLock, Abstract!LockSpec

-----------------------------------------------------------------------------
(* The files of a team                                                     *)

RosterFields == {"run", "attempt", "status", "definition", "bound", "acceptance"}

(* At most one roster, which decodes; what it says was accepted was. *)
RosterInv ==
    /\ \A t1, t2 \in team : t1 = t2
    /\ \A t \in team : /\ RosterFields \subseteq DOMAIN t
                       /\ TeamDecodes(t)
                       /\ t.acceptance \in BOOLEAN

(* The reservation allows one team more than were made of it only while it *)
(* is not consumed, and a create between its two writes has the lock to    *)
(* itself.                                                                 *)
SpentInv ==
    /\ made \in Nat /\ torn \in Nat /\ cmd = [s \in Sessions |-> cmd[s]]
    /\ \A s \in Sessions : cmd[s].at = "reserving" =>
          "consumed" \in DOMAIN cmd[s].reservation /\ cmd[s].reservation.consumed = FALSE
    /\ \A s1, s2 \in Sessions :
          cmd[s1].at = "consuming" /\ cmd[s2].at = "consuming" => s1 = s2
    /\ \A res \in reservation : "consumed" \in DOMAIN res
    /\ reservation = Nothing => made = 0
    /\ made <= 1 + torn
    /\ Unlocked => \A res \in reservation : ~res.consumed => made <= torn

TeamInv == RosterInv /\ SpentInv /\ CompletedIsAccepted

(* A step of a run, a ledger or git leaves the files of the team alone. *)
LEMMA WorldStep ==
    ASSUME TeamInv, UNCHANGED <<reservation, team, cmd, made, torn>>, accepted \subseteq accepted'
    PROVE  TeamInv'
<1>1. RosterInv' /\ SpentInv'
    BY DEF TeamInv, RosterInv, SpentInv, Unlocked
<1>2. CompletedIsAccepted'
    BY DEF TeamInv, CompletedIsAccepted
<1> QED BY <1>1, <1>2 DEF TeamInv

(* prepare, and the write of the reservation it has put together. *)
LEMMA PrepareStep ==
    ASSUME TeamInv, NEW s \in Sessions, (\E d \in Definitions : Prepare(s, d)) \/ Reserve(s)
    PROVE  TeamInv'
<1>1. UNCHANGED <<world, team, made, torn>>
    BY DEF Prepare, Reserve, files
<1>2. RosterInv' /\ CompletedIsAccepted'
    BY <1>1 DEF TeamInv, RosterInv, CompletedIsAccepted, world
<1>3. CASE \E d \in Definitions : Prepare(s, d)
    <2>a. PICK d \in Definitions, r \in Parent(s) :
             cmd' = [cmd EXCEPT ![s] = [at |-> "reserving",
                       reservation |-> [run |-> r, owner |-> s, epoch |-> run[r].epoch, head |-> head,
                                        definition |-> d, consumed |-> FALSE]]]
        BY <1>3 DEF Prepare
    <2> DEFINE c == [run |-> r, owner |-> s, epoch |-> run[r].epoch, head |-> head,
                     definition |-> d, consumed |-> FALSE]
    <2>1. /\ cmd' = [cmd EXCEPT ![s] = [at |-> "reserving", reservation |-> c]]
          /\ "consumed" \in DOMAIN c /\ c.consumed = FALSE
        BY <2>a
    <2> HIDE DEF c
    <2>2. cmd[s].at # "consuming" /\ reservation' = reservation
        BY <1>3 DEF Prepare, Idle, files
    <2>3. \A x \in Sessions : cmd'[x].at = "consuming" <=> cmd[x].at = "consuming"
        BY <2>1, <2>2 DEF TeamInv, SpentInv
    <2>4. Unlocked' <=> Unlocked
        BY <2>3 DEF Unlocked
    <2>5. \A x \in Sessions : cmd'[x].at = "reserving" =>
             "consumed" \in DOMAIN cmd'[x].reservation /\ cmd'[x].reservation.consumed = FALSE
        BY <2>1 DEF TeamInv, SpentInv
    <2>6. cmd' = [x \in Sessions |-> cmd'[x]]
        BY <2>1 DEF TeamInv, SpentInv
    <2>7. SpentInv'
        BY <1>1, <2>2, <2>3, <2>4, <2>5, <2>6 DEF TeamInv, SpentInv
    <2> QED BY <1>2, <2>7 DEF TeamInv
<1>4. CASE Reserve(s)
    <2>1. /\ cmd[s].at = "reserving" /\ Unlocked /\ cmd' = [cmd EXCEPT ![s] = Idle]
          /\ reservation' = IF reservation = Nothing THEN {cmd[s].reservation} ELSE reservation
        BY <1>4 DEF Reserve
    <2>2. cmd' = [x \in Sessions |-> IF x = s THEN Idle ELSE cmd[x]]
        BY <2>1 DEF TeamInv, SpentInv
    <2>3. Unlocked'
        BY <2>1, <2>2 DEF Unlocked, Idle
    <2>4. reservation' # Nothing
        BY <2>1 DEF Nothing
    <2>5. ASSUME NEW res \in reservation'
          PROVE  "consumed" \in DOMAIN res /\ (~res.consumed => made <= torn)
        BY <2>1 DEF TeamInv, SpentInv
    <2>6. \A x \in Sessions : cmd'[x].at = "reserving" =>
             "consumed" \in DOMAIN cmd'[x].reservation /\ cmd'[x].reservation.consumed = FALSE
        BY <2>2 DEF TeamInv, SpentInv, Idle
    <2>7. SpentInv'
        BY <1>1, <2>2, <2>3, <2>4, <2>5, <2>6 DEF TeamInv, SpentInv, Unlocked
    <2> QED BY <1>2, <2>7 DEF TeamInv
<1> QED BY <1>3, <1>4

(* A roster that is new has nothing accepted. *)
LEMMA RosterIsNew ==
    ASSUME NEW r, NEW d, team' = {Roster(r, d)}
    PROVE  RosterInv' /\ CompletedIsAccepted'
<1> DEFINE t == Roster(r, d)
<1>1. /\ DOMAIN t = RosterFields /\ t.status = "initializing" /\ t.bound = Unbound
      /\ t.acceptance = FALSE
    BY DEF Roster, RosterFields
<1> HIDE DEF t
<1>2. TeamDecodes(t)
    BY <1>1 DEF TeamDecodes
<1>3. team' = {t}
    BY DEF t
<1> QED BY <1>1, <1>2, <1>3 DEF RosterInv, CompletedIsAccepted

(* create, write by write, whole or cut short. *)
LEMMA CreateStep ==
    ASSUME TeamInv, NEW s \in Sessions, Create(s) \/ Consume(s) \/ Tear(s)
    PROVE  TeamInv'
<1>1. cmd = [x \in Sessions |-> cmd[x]] /\ made \in Nat /\ torn \in Nat
    BY DEF TeamInv, SpentInv
<1>2. CASE Create(s)
    <2>1. PICK res \in reservation : ~res.consumed /\ team' = {Roster(res.run, res.definition)}
        BY <1>2 DEF Create
    <2>2. /\ Unlocked /\ made' = made + 1 /\ UNCHANGED <<world, reservation, torn>>
          /\ cmd' = [x \in Sessions |-> IF x = s THEN [at |-> "consuming"] ELSE cmd[x]]
        BY <1>1, <1>2 DEF Create
    <2>3. made <= torn
        BY <2>1, <2>2 DEF TeamInv, SpentInv
    <2>4. \A x \in Sessions : cmd'[x].at = "consuming" <=> x = s
        BY <2>2 DEF Unlocked
    <2>5. ~Unlocked'
        BY <2>4 DEF Unlocked
    <2>6. reservation # Nothing
        BY <2>1 DEF Nothing
    <2>7. \A x \in Sessions : cmd'[x].at = "reserving" => x # s /\ cmd'[x] = cmd[x]
        BY <2>2
    <2>8. SpentInv'
        BY <1>1, <2>2, <2>3, <2>4, <2>5, <2>6, <2>7 DEF TeamInv, SpentInv
    <2> QED BY <2>1, <2>8, RosterIsNew DEF TeamInv
<1>3. CASE Consume(s) \/ Tear(s)
    <2>1. /\ cmd[s].at = "consuming" /\ UNCHANGED <<world, team, made>>
          /\ cmd' = [x \in Sessions |-> IF x = s THEN Idle ELSE cmd[x]]
        BY <1>1, <1>3 DEF Consume, Tear, files
    <2>2. RosterInv' /\ CompletedIsAccepted'
        BY <2>1 DEF TeamInv, RosterInv, CompletedIsAccepted, world
    <2>3. \A x \in Sessions : cmd'[x].at # "consuming"
        BY <2>1 DEF TeamInv, SpentInv, Idle
    <2>4. \A x \in Sessions : cmd'[x].at = "reserving" => x # s /\ cmd'[x] = cmd[x]
        BY <2>1 DEF Idle
    <2>5. /\ torn' \in Nat /\ made <= 1 + torn'
          /\ reservation' = Nothing => made = 0
          /\ \A res \in reservation' : "consumed" \in DOMAIN res /\ (~res.consumed => made <= torn')
        <3>1. CASE Consume(s)
            <4>1. torn' = torn /\ reservation' = {[res EXCEPT !.consumed = TRUE] : res \in reservation}
                BY <3>1 DEF Consume
            <4>2. \A res \in reservation' : "consumed" \in DOMAIN res /\ res.consumed = TRUE
                BY <4>1 DEF TeamInv, SpentInv
            <4>3. reservation' = Nothing => reservation = Nothing
                BY <4>1 DEF Nothing
            <4> QED BY <4>1, <4>2, <4>3 DEF TeamInv, SpentInv
        <3>2. CASE Tear(s)
            <4>1. torn' = torn + 1 /\ reservation' = reservation
                BY <3>2 DEF Tear, files
            <4> QED BY <1>1, <4>1 DEF TeamInv, SpentInv
        <3> QED BY <1>3, <3>1, <3>2
    <2>6. SpentInv'
        BY <1>1, <2>1, <2>3, <2>4, <2>5 DEF TeamInv, SpentInv
    <2> QED BY <2>2, <2>6 DEF TeamInv
<1> QED BY <1>2, <1>3

(* How a roster is replaced: never by another team's while it has workers, *)
(* and as accepted only on the acceptance of the workers it is bound to.   *)
Replaced(t, new) ==
    /\ RosterFields \subseteq DOMAIN new /\ TeamDecodes(new) /\ new.acceptance \in BOOLEAN
    /\ new.run = t.run /\ new.attempt = t.attempt /\ new.definition = t.definition
    /\ t.status \in {"active", "completed"} => new.bound = t.bound
    /\ t.status = "active" => new.status \in {"completed", "cancelled"}
    /\ t.status = "completed" => new.status = "archived" /\ new.acceptance
    /\ new.acceptance =>
          \E a \in accepted : a.run = new.run /\ a.attempt = new.attempt
                              /\ a.generation = new.bound.generation

(* What each operation makes of a roster. *)
LEMMA ChangeReplaces ==
    ASSUME TeamInv, NEW s, NEW r, NEW t \in team, Change(s, r, t)
    PROVE  /\ UNCHANGED <<world, reservation, cmd, made, torn>>
           /\ \/ \E new : team' = {new} /\ Replaced(t, new)
              \/ t.status = "archived" /\ team' = Nothing
<1>1. UNCHANGED <<world, reservation, cmd, made, torn>>
    BY DEF Change, Bind, Complete, Archive, Cancel, Resume, Delete
<1>2. RosterFields \subseteq DOMAIN t /\ TeamDecodes(t) /\ t.acceptance \in BOOLEAN
    BY DEF TeamInv, RosterInv
<1>3. t.acceptance => \E a \in accepted : a.run = t.run /\ a.attempt = t.attempt
                                          /\ a.generation = t.bound.generation
    BY DEF TeamInv, CompletedIsAccepted
<1>4. CASE Bind(s, r, t)
    <2> DEFINE new == [t EXCEPT !.status = "active",
                                !.bound = [generation |-> tasks[r].generation, run |-> r]]
    <2>1. TeamDecodes(new) /\ team' = {new} /\ t.status = "initializing"
        BY <1>4 DEF Bind, Replace
    <2>2. /\ DOMAIN new = DOMAIN t /\ new.run = t.run /\ new.attempt = t.attempt
          /\ new.definition = t.definition /\ new.acceptance = t.acceptance
        BY <1>2 DEF RosterFields
    <2> HIDE DEF new
    <2>3. Replaced(t, new)
        BY <1>2, <2>1, <2>2 DEF Replaced, TeamDecodes
    <2> QED BY <1>1, <2>1, <2>3
<1>5. CASE Complete(s, r, t)
    <2> DEFINE new == [t EXCEPT !.status = "completed", !.acceptance = TRUE]
    <2>1. /\ TeamDecodes(new) /\ team' = {new} /\ t.status = "active" /\ t.run = r
          /\ t.attempt = run[r].attempt /\ Acceptance(r) \in accepted
          /\ t.bound.generation = tasks[r].generation
        BY <1>5 DEF Complete, Replace
    <2>2. /\ DOMAIN new = DOMAIN t /\ new.run = t.run /\ new.attempt = t.attempt
          /\ new.definition = t.definition /\ new.acceptance = TRUE /\ new.bound = t.bound
          /\ new.status = "completed"
        BY <1>2 DEF RosterFields
    <2>3. /\ Acceptance(r).run = r /\ Acceptance(r).attempt = run[r].attempt
          /\ Acceptance(r).generation = tasks[r].generation
        BY DEF Acceptance
    <2> HIDE DEF new
    <2>4. Replaced(t, new)
        BY <1>2, <2>1, <2>2, <2>3 DEF Replaced
    <2> QED BY <1>1, <2>1, <2>4
<1>6. CASE Archive(s, r, t)
    <2> DEFINE new == [t EXCEPT !.status = "archived"]
    <2>1. TeamDecodes(new) /\ team' = {new} /\ t.status \in {"completed", "cancelled"}
        BY <1>6 DEF Archive, Replace
    <2>2. /\ DOMAIN new = DOMAIN t /\ new.run = t.run /\ new.attempt = t.attempt
          /\ new.definition = t.definition /\ new.acceptance = t.acceptance
          /\ new.bound = t.bound /\ new.status = "archived"
        BY <1>2 DEF RosterFields
    <2> HIDE DEF new
    <2>3. Replaced(t, new)
        BY <1>2, <1>3, <2>1, <2>2 DEF Replaced, TeamDecodes
    <2> QED BY <1>1, <2>1, <2>3
<1>7. CASE Cancel(s, r, t)
    <2> DEFINE new == [t EXCEPT !.status = "cancelled"]
    <2>1. TeamDecodes(new) /\ team' = {new} /\ t.status \in {"initializing", "active"}
        BY <1>7 DEF Cancel, Replace
    <2>2. /\ DOMAIN new = DOMAIN t /\ new.run = t.run /\ new.attempt = t.attempt
          /\ new.definition = t.definition /\ new.acceptance = t.acceptance
          /\ new.bound = t.bound /\ new.status = "cancelled"
        BY <1>2 DEF RosterFields
    <2> HIDE DEF new
    <2>3. Replaced(t, new)
        BY <1>2, <1>3, <2>1, <2>2 DEF Replaced, TeamDecodes
    <2> QED BY <1>1, <2>1, <2>3
<1>8. CASE Resume(s, r, t)
    <2> DEFINE new == [t EXCEPT !.status = "initializing", !.bound = Unbound, !.acceptance = FALSE]
    <2>1. TeamDecodes(new) /\ team' = {new} /\ t.status = "cancelled"
        BY <1>8 DEF Resume, Replace
    <2>2. /\ DOMAIN new = DOMAIN t /\ new.run = t.run /\ new.attempt = t.attempt
          /\ new.definition = t.definition /\ new.acceptance = FALSE
        BY <1>2 DEF RosterFields
    <2> HIDE DEF new
    <2>3. Replaced(t, new)
        BY <1>2, <2>1, <2>2 DEF Replaced
    <2> QED BY <1>1, <2>1, <2>3
<1>9. CASE Delete(s, r, t)
    BY <1>1, <1>9 DEF Delete
<1> QED BY <1>4, <1>5, <1>6, <1>7, <1>8, <1>9 DEF Change

(* An operation on the roster. *)
LEMMA ChangeStep ==
    ASSUME TeamInv, NEW s, NEW r, NEW t \in team, Change(s, r, t)
    PROVE  TeamInv'
<1>1. /\ UNCHANGED <<world, reservation, cmd, made, torn>>
      /\ \/ \E new : team' = {new} /\ Replaced(t, new)
         \/ t.status = "archived" /\ team' = Nothing
    BY ChangeReplaces
<1>2. SpentInv'
    BY <1>1 DEF TeamInv, SpentInv, Unlocked
<1>3. accepted' = accepted
    BY <1>1 DEF world
<1>4. RosterInv' /\ CompletedIsAccepted'
    <2>1. CASE team' = Nothing
        BY <2>1 DEF Nothing, RosterInv, CompletedIsAccepted
    <2>2. ASSUME NEW new, team' = {new}, Replaced(t, new)
          PROVE  RosterInv' /\ CompletedIsAccepted'
        BY <1>3, <2>2 DEF Replaced, RosterInv, CompletedIsAccepted
    <2> QED BY <1>1, <2>1, <2>2
<1> QED BY <1>2, <1>4 DEF TeamInv

(* /teammode initialize. *)
LEMMA InitializeStep ==
    ASSUME TeamInv, NEW s, NEW d, Initialize(s, d)
    PROVE  TeamInv'
<1>1. PICK r : team' = {Roster(r, d)}
    BY DEF Initialize
<1>2. SpentInv'
    BY DEF Initialize, TeamInv, SpentInv, Unlocked
<1> QED BY <1>1, <1>2, RosterIsNew DEF TeamInv

(* The runs, their ledgers, and git. *)
LEMMA WorldMoves ==
    ASSUME \/ MoveHead
           \/ \E r \in Runs : \/ Advance(r) \/ Touch(r) \/ Dispatch(r) \/ Prove(r) \/ Accept(r)
                              \/ \E s \in Sessions : Adopt(r, s)
    PROVE  UNCHANGED <<reservation, team, cmd, made, torn>> /\ accepted \subseteq accepted'
BY DEF MoveHead, Advance, Touch, Dispatch, Prove, Accept, Adopt, Commit, files

(* A step of the teams, whatever it is of. *)
LEMMA TeamStep ==
    ASSUME TeamInv, [TeamNext]_teamVars
    PROVE  TeamInv'
<1>1. CASE MoveHead \/ \E r \in Runs : \/ Advance(r) \/ Touch(r) \/ Dispatch(r) \/ Prove(r) \/ Accept(r)
                                       \/ \E s \in Sessions : Adopt(r, s)
    BY <1>1, WorldMoves, WorldStep
<1>2. ASSUME NEW s \in Sessions,
             \/ \E d \in Definitions : Prepare(s, d) \/ Initialize(s, d)
             \/ Reserve(s) \/ Create(s) \/ Consume(s) \/ Tear(s)
             \/ \E r \in Runs, t \in team : Change(s, r, t)
      PROVE  TeamInv'
    BY <1>2, PrepareStep, InitializeStep, CreateStep, ChangeStep
<1>3. CASE UNCHANGED teamVars
    <2>1. UNCHANGED <<reservation, team, cmd, made, torn>> /\ accepted \subseteq accepted'
        BY <1>3 DEF teamVars
    <2> QED BY <2>1, WorldStep
<1> QED BY <1>1, <1>2, <1>3 DEF TeamNext

(* The files of a team stay sound, whatever sessions, runs and crashes do. *)
THEOREM TeamInvariant == TeamSpec => []TeamInv
<1>1. TeamInit => TeamInv
    <2> SUFFICES ASSUME TeamInit PROVE TeamInv
        OBVIOUS
    <2>1. /\ team = {} /\ reservation = {} /\ made = 0 /\ torn = 0
          /\ cmd = [s \in Sessions |-> [at |-> "idle"]]
        BY DEF TeamInit, Nothing, Idle
    <2>2. \A s \in Sessions : cmd[s].at = "idle"
        BY <2>1
    <2>3. cmd = [s \in Sessions |-> cmd[s]]
        BY <2>1
    <2> QED BY <2>1, <2>2, <2>3 DEF TeamInv, RosterInv, SpentInv, CompletedIsAccepted, Unlocked
<1>2. TeamInv /\ [TeamNext]_teamVars => TeamInv'
    BY TeamStep
<1> QED BY <1>1, <1>2, PTL DEF TeamSpec

(* A reservation makes one team, and one more for each create that died    *)
(* between the write of the roster and that of the reservation.            *)
THEOREM ReservationIsSpentHolds == TeamSpec => []ReservationIsSpent
<1>1. TeamInv => ReservationIsSpent
    BY DEF TeamInv, SpentInv, ReservationIsSpent
<1> QED BY <1>1, TeamInvariant, PTL

(* A team says its results were accepted only if they were, in the team's  *)
(* attempt and for the dispatch its workers are of.                        *)
THEOREM TeamIsAcceptedHolds == TeamSpec => []CompletedIsAccepted
<1>1. TeamInv => CompletedIsAccepted
    BY DEF TeamInv
<1> QED BY <1>1, TeamInvariant, PTL

(* A roster with workers at work or done stays the same team until it is   *)
(* cancelled or archived: no create and no initialize starts it again.     *)
THEOREM RosterIsKeptHolds == TeamSpec => RosterIsKept
<1> DEFINE Keeps(t) == \E new \in team' :
             /\ <<new.run, new.attempt, new.definition, new.bound>> = <<t.run, t.attempt, t.definition, t.bound>>
             /\ t.status = "active" => new.status \in {"active", "completed", "cancelled"}
             /\ t.status = "completed" => new.status \in {"completed", "archived"} /\ new.acceptance
           Kept == \A t \in team : t.status \in {"active", "completed"} => Keeps(t)
<1>1. ASSUME TeamInv, [TeamNext]_teamVars PROVE Kept
    <2>1. \A t \in team : TeamDecodes(t)
        BY <1>1 DEF TeamInv, RosterInv
    <2>2. ASSUME team' = team PROVE Kept
        BY <2>1, <2>2 DEF TeamDecodes
    <2>3. ASSUME team = Nothing PROVE Kept
        BY <2>3 DEF Nothing
    <2>4. CASE MoveHead \/ \E r \in Runs : \/ Advance(r) \/ Touch(r) \/ Dispatch(r) \/ Prove(r) \/ Accept(r)
                                           \/ \E s \in Sessions : Adopt(r, s)
        BY <2>2, <2>4, WorldMoves
    <2>5. ASSUME NEW s \in Sessions, \/ \E d \in Definitions : Prepare(s, d) \/ Initialize(s, d)
                                     \/ Reserve(s) \/ Create(s) \/ Consume(s) \/ Tear(s)
          PROVE  Kept
        <3>1. team' = team \/ team = Nothing
            BY <2>5 DEF Prepare, Initialize, Reserve, Create, Consume, Tear, files
        <3> QED BY <2>2, <2>3, <3>1
    <2>6. ASSUME NEW s \in Sessions, NEW r \in Runs, NEW x \in team, Change(s, r, x)
          PROVE  Kept
        <3>1. \A t \in team : t = x
            BY <1>1, <2>6 DEF TeamInv, RosterInv
        <3>2. \/ \E new : team' = {new} /\ Replaced(x, new)
              \/ x.status = "archived" /\ team' = Nothing
            BY <1>1, <2>6, ChangeReplaces
        <3>3. ASSUME x.status \in {"active", "completed"} PROVE Keeps(x)
            <4>1. PICK new : team' = {new} /\ Replaced(x, new)
                BY <3>2, <3>3
            <4>2. new.run = x.run /\ new.attempt = x.attempt /\ new.definition = x.definition /\ new.bound = x.bound
                BY <3>3, <4>1 DEF Replaced
            <4> QED BY <3>3, <4>1, <4>2 DEF Replaced
        <3> HIDE DEF Keeps
        <3> QED BY <3>1, <3>3
    <2>7. CASE UNCHANGED teamVars
        BY <2>2, <2>7 DEF teamVars
    <2> HIDE DEF Kept
    <2> QED BY <1>1, <2>4, <2>5, <2>6, <2>7 DEF TeamNext
<1>2. TeamInv /\ [TeamNext]_teamVars => [Kept]_teamVars
    BY <1>1
<1>3. TeamSpec => [][Kept]_teamVars
    <2> HIDE DEF Kept
    <2> QED BY <1>2, TeamInvariant, PTL DEF TeamSpec
<1> QED BY <1>3 DEF RosterIsKept
=============================================================================

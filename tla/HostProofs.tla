----------------------------- MODULE HostProofs -----------------------------
(***************************************************************************)
(* What goes through the host.  First activation, directive records and    *)
(* the continuation budget of HostTurn, for any texts, any number of       *)
(* turns, inputs and runs, and any number of commands, lost writes and     *)
(* restarts; then the receipts of ProcessRunner, for any number of         *)
(* processes a command may start.                                          *)
(***************************************************************************)
EXTENDS HostTurn, ProcessRunner, SequenceTheorems, TLAPS

IndexEntries == [workflow : Durable, run : Nat]
Counters == [run : Nat, turn : Nat, count : Nat, exhausted : BOOLEAN]
Streaks == [run : Nat, turn : Nat, emitted : Nat]
Stops == {Idle} \cup [at : {"run", "emit"}]
         \cup [at : {"budget"}, run : Nat, counter : SUBSET Counters]

(* What the files and the handlers hold. *)
TypeOK ==
    /\ entries \in Seq(IndexEntries) /\ counter \subseteq Counters /\ stop \in Stops
    /\ turn \in Nat /\ inputs \in 0..MaxInputs /\ runs \in Nat /\ faults \in Nat
    /\ grants \in [1..MaxInputs -> Nat]
    /\ streak \in Streaks

USE HostAssumption

(* What taking an entry out of the index, or putting it last, leaves. *)
LEMMA WithoutFacts ==
  ASSUME TypeOK, NEW i \in DOMAIN entries
  PROVE  /\ Without(i) \in Seq(IndexEntries) /\ Len(Without(i)) = Len(entries) - 1
         /\ Committed(i) \in Seq(IndexEntries) /\ Len(Committed(i)) = Len(entries)
         /\ Len(entries) = 1 => Committed(i)[1] = entries[1]
  <1> DEFINE before == SubSeq(entries, 1, i - 1)
             after == SubSeq(entries, i + 1, Len(entries))
  <1>1. entries \in Seq(IndexEntries) /\ i \in 1..Len(entries) /\ Len(entries) \in Nat
    BY DEF TypeOK
  <1>2. before \in Seq(IndexEntries) /\ Len(before) = i - 1
    BY <1>1
  <1>3. after \in Seq(IndexEntries) /\ Len(after) = Len(entries) - i
    BY <1>1
  <1>4. Without(i) \in Seq(IndexEntries) /\ Len(Without(i)) = Len(entries) - 1
    <2> HIDE DEF before, after
    <2>1. before \o after \in Seq(IndexEntries) /\ Len(before \o after) = Len(before) + Len(after)
      BY <1>2, <1>3, ConcatProperties
    <2>2. Without(i) = before \o after BY DEF Without, before, after
    <2> QED BY <1>1, <1>2, <1>3, <2>1, <2>2
  <1>5. entries[i] \in IndexEntries BY <1>1
  <1> HIDE DEF before, after
  <1>6. /\ Committed(i) \in Seq(IndexEntries) /\ Len(Committed(i)) = Len(entries)
        /\ Committed(i)[Len(entries)] = entries[i]
    <2> DEFINE w == Without(i)
    <2> HIDE DEF w
    <2>1. w \in Seq(IndexEntries) /\ Len(w) = Len(entries) - 1 BY <1>4 DEF w
    <2>2. Append(w, entries[i]) \in Seq(IndexEntries) /\ Len(Append(w, entries[i])) = Len(w) + 1
          /\ Append(w, entries[i])[Len(w) + 1] = entries[i]
      BY <1>5, <2>1, AppendProperties
    <2>3. Committed(i) = Append(w, entries[i]) BY DEF Committed, w
    <2> QED BY <1>1, <2>1, <2>2, <2>3
  <1> QED BY <1>1, <1>4, <1>6

(* The first state is typed. *)
LEMMA InitType == Init => TypeOK
  BY DEF Init, TypeOK, Stops, Idle, NoStreak, NoRun, Streaks

(* Every handler keeps the types. *)
LEMMA TypeStep == TypeOK /\ [Next]_vars => TypeOK'
  <1> SUFFICES ASSUME TypeOK, [Next]_vars PROVE TypeOK'
    OBVIOUS
  <1> USE DEF files, memory, host, history, Rearm
  <1>1. ASSUME NEW w \in Durable, CreateRun(w) PROVE TypeOK'
    <2>1. entries' \in Seq(IndexEntries)
      BY <1>1 DEF CreateRun, TypeOK, IndexEntries
    <2> QED BY <1>1, <2>1 DEF CreateRun, TypeOK
  <1>2. CASE CommitRun BY <1>2, WithoutFacts DEF CommitRun, TypeOK
  <1>3. CASE EndRun BY <1>3, WithoutFacts DEF EndRun, TypeOK
  <1>4. CASE Restart BY <1>4 DEF Restart, TypeOK, Stops
  <1>5. ASSUME NEW text \in Texts, RecordInput(text) PROVE TypeOK'
    BY <1>5 DEF RecordInput, TypeOK
  <1>6. ASSUME NEW text \in Texts, NEW next \in turn..(turn + 1), Consume(text, next) PROVE TypeOK'
    BY <1>6 DEF Consume, TypeOK
  <1>7. CASE CheckActive BY <1>7 DEF CheckActive, TypeOK
  <1>8. CASE CheckRecord
    <2>1. grants' \in [1..MaxInputs -> Nat]
      <3>1. CASE grants' = grants BY <3>1 DEF TypeOK
      <3>2. CASE grants' = [grants EXCEPT ![start.input] = @ + 1]
        <4>1. CASE start.input \in 1..MaxInputs BY <3>2, <4>1 DEF TypeOK
        <4>2. CASE start.input \notin 1..MaxInputs
          <5>1. grants' = grants BY <3>2, <4>2 DEF TypeOK
          <5> QED BY <5>1 DEF TypeOK
        <4> QED BY <4>1, <4>2
      <3> QED BY <1>8, <3>1, <3>2 DEF CheckRecord
    <2> QED BY <1>8, <2>1 DEF CheckRecord, TypeOK
  <1>9. ASSUME NEW readable \in BOOLEAN, ResolveScope(readable) PROVE TypeOK'
    BY <1>9 DEF ResolveScope, TypeOK
  <1>10. ASSUME NEW lost \in BOOLEAN, RecordDirective(lost) PROVE TypeOK'
    BY <1>10 DEF RecordDirective, TypeOK
  <1>11. ASSUME NEW lost \in BOOLEAN, WriteCounter(lost) PROVE TypeOK'
    <2>1. stop.run \in Nat /\ stop.counter \subseteq Counters
      BY <1>11 DEF WriteCounter, TypeOK, Stops, Idle
    <2>2. exhaustedCounter(stop.counter) \subseteq Counters
      <3>1. \A c \in Counters : [c EXCEPT !.exhausted = TRUE] \in Counters
        BY DEF Counters
      <3> QED BY <2>1, <3>1 DEF exhaustedCounter
    <2>3. incrementCounter(stop.counter, stop.run) \subseteq Counters
      <3>1. \A c \in Counters : [c EXCEPT !.count = @ + 1] \in Counters
        BY DEF Counters
      <3>2. [run |-> stop.run, turn |-> turn, count |-> 1, exhausted |-> FALSE] \in Counters
        BY <2>1 DEF Counters, TypeOK
      <3> QED BY <2>1, <3>1, <3>2 DEF incrementCounter
    <2>4. counter' \subseteq Counters
      BY <1>11, <2>2, <2>3 DEF WriteCounter, TypeOK
    <2>5. stop' \in Stops
      BY <1>11 DEF WriteCounter, Stops
    <2>6. streak' \in Streaks /\ faults' \in Nat
      BY <1>11, <2>1 DEF WriteCounter, TypeOK, Streaks
    <2> QED BY <1>11, <2>4, <2>5, <2>6 DEF WriteCounter, TypeOK
  <1>12. ASSUME NEW text \in Messages, Command(text) PROVE TypeOK'
    BY <1>12 DEF Command, TypeOK
  <1>13. CASE ClearRecord BY <1>13 DEF ClearRecord, TypeOK
  <1>14. CASE SendMessage BY <1>14 DEF SendMessage, TypeOK
  <1>15. CASE Expire BY <1>15 DEF Expire, TypeOK, Stops
  <1>16. CASE Handle BY <1>16, WithoutFacts DEF Handle, TypeOK, Stops
  <1>17. CASE ReadCounter
    <2>1. First \in Nat
      <3>1. ASSUME entries # <<>> PROVE entries[1] \in IndexEntries
        BY <3>1 DEF TypeOK
      <3> QED BY <3>1 DEF First, NoRun, IndexEntries
    <2> QED BY <1>17, <2>1 DEF ReadCounter, TypeOK, Stops
  <1>18. CASE Emit
    <2>1. streak' \in Streaks
      <3>1. \A s \in Streaks : [s EXCEPT !.emitted = @ + 1] \in Streaks
        BY DEF Streaks
      <3> QED BY <1>18, <3>1 DEF Emit, TypeOK
    <2> QED BY <1>18, <2>1 DEF Emit, TypeOK, Stops
  <1>19. CASE UNCHANGED vars BY <1>19 DEF vars, TypeOK
  <1> QED BY <1>1, <1>2, <1>3, <1>4, <1>5, <1>6, <1>7, <1>8, <1>9, <1>10, <1>11, <1>12, <1>13,
             <1>14, <1>15, <1>16, <1>17, <1>18, <1>19 DEF Next

-----------------------------------------------------------------------------
(* Activation: one grant per input                                         *)

(* No token that is still to be consumed, and no start that has taken one, *)
(* is of an input that was granted; the token of a running start is not    *)
(* also pending.                                                           *)
TokensAreFresh ==
    /\ \A token \in pending : token.input \in 1..inputs /\ grants[token.input] = 0
    /\ start.at \in {"active", "recorded"} =>
         /\ start.input \in 1..inputs /\ grants[start.input] = 0
         /\ \A token \in pending : token.input # start.input
    /\ \A i \in 1..MaxInputs : grants[i] <= 1 /\ (i > inputs => grants[i] = 0)

(* A new input gets a token nobody had, and handlers only pass tokens on. *)
LEMMA FreshStep == TypeOK /\ TokensAreFresh /\ [Next]_vars => TokensAreFresh'
  <1> SUFFICES ASSUME TypeOK, TokensAreFresh, [Next]_vars PROVE TokensAreFresh'
    OBVIOUS
  <1>0. /\ inputs \in 0..MaxInputs /\ MaxInputs \in Nat
        /\ grants \in [1..MaxInputs -> Nat]
    BY DEF TypeOK
  <1> USE DEF files, memory, host, history, Rearm, Idle, Quiet
  <1>1. ASSUME NEW w \in Durable, CreateRun(w) PROVE TokensAreFresh'
    BY <1>1 DEF CreateRun, TokensAreFresh
  <1>2. CASE CommitRun BY <1>2 DEF CommitRun, TokensAreFresh
  <1>3. CASE EndRun BY <1>3 DEF EndRun, TokensAreFresh
  <1>4. CASE Restart BY <1>4 DEF Restart, TokensAreFresh
  <1>5. ASSUME NEW text \in Texts, RecordInput(text) PROVE TokensAreFresh'
    <2>1. \A token \in pending' : token.input = inputs + 1
      BY <1>5 DEF RecordInput
    <2> QED BY <1>0, <1>5, <2>1 DEF RecordInput, TokensAreFresh
  <1>6. ASSUME NEW text \in Texts, NEW next \in turn..(turn + 1), Consume(text, next) PROVE TokensAreFresh'
    <2>1. CASE start' = [at |-> "scope", workflow |-> NoWorkflow]
      BY <1>6, <2>1 DEF Consume, TokensAreFresh
    <2>2. CASE \E token \in pending :
                 /\ suppression # text
                 /\ start' = [at |-> "active", workflow |-> token.workflow, input |-> token.input]
      BY <1>6, <2>2 DEF Consume, TokensAreFresh
    <2> QED BY <1>6, <2>1, <2>2 DEF Consume
  <1>7. CASE CheckActive BY <1>7 DEF CheckActive, TokensAreFresh
  <1>8. CASE CheckRecord
    <2>1. CASE grants' = grants /\ start'.at = "scope" /\ UNCHANGED <<pending, inputs>>
      BY <2>1 DEF TokensAreFresh
    <2>2. CASE /\ grants' = [grants EXCEPT ![start.input] = @ + 1]
               /\ start'.at = "scope" /\ UNCHANGED <<pending, inputs>>
      BY <1>0, <1>8, <2>2 DEF CheckRecord, TokensAreFresh
    <2> QED BY <1>8, <2>1, <2>2 DEF CheckRecord
  <1>9. ASSUME NEW readable \in BOOLEAN, ResolveScope(readable) PROVE TokensAreFresh'
    <2>1. start'.at \notin {"active", "recorded"}
      BY <1>9 DEF ResolveScope
    <2> QED BY <1>9, <2>1 DEF ResolveScope, TokensAreFresh
  <1>10. ASSUME NEW lost \in BOOLEAN, RecordDirective(lost) PROVE TokensAreFresh'
    BY <1>10 DEF RecordDirective, TokensAreFresh
  <1>11. ASSUME NEW lost \in BOOLEAN, WriteCounter(lost) PROVE TokensAreFresh'
    BY <1>11 DEF WriteCounter, TokensAreFresh
  <1>12. ASSUME NEW text \in Messages, Command(text) PROVE TokensAreFresh'
    BY <1>12 DEF Command, TokensAreFresh
  <1>13. CASE ClearRecord BY <1>13 DEF ClearRecord, TokensAreFresh
  <1>14. CASE SendMessage BY <1>14 DEF SendMessage, TokensAreFresh
  <1>15. CASE Expire BY <1>15 DEF Expire, TokensAreFresh
  <1>16. CASE Handle BY <1>16 DEF Handle, TokensAreFresh
  <1>17. CASE ReadCounter BY <1>17 DEF ReadCounter, TokensAreFresh
  <1>18. CASE Emit BY <1>18 DEF Emit, TokensAreFresh
  <1>19. CASE UNCHANGED vars BY <1>19 DEF vars, TokensAreFresh
  <1> QED BY <1>1, <1>2, <1>3, <1>4, <1>5, <1>6, <1>7, <1>8, <1>9, <1>10,
             <1>11, <1>12, <1>13, <1>14, <1>15, <1>16, <1>17, <1>18, <1>19 DEF Next

(* However inputs, prompts, commands and restarts interleave with the      *)
(* awaits of before_agent_start, consumeBeforeAgentStart grants an input   *)
(* at most one activation.                                                 *)
THEOREM OneActivationHolds == Spec => []OneActivationPerInput
  <1>1. Init => TokensAreFresh
    BY DEF Init, TokensAreFresh, Idle
  <1>2. TokensAreFresh => OneActivationPerInput
    BY DEF TokensAreFresh, OneActivationPerInput
  <1> QED BY <1>1, <1>2, InitType, TypeStep, FreshStep, PTL DEF Spec

-----------------------------------------------------------------------------
(* The directive record                                                    *)

(* With at most one run, the standing directive is the one on record for   *)
(* the session's first entry; a start that is about to record knows the    *)
(* run that is still first unless something came between, and no start     *)
(* that was granted an activation is about the standing directive.         *)
StandingIsRecorded ==
    /\ standing # NoWorkflow /\ Len(entries) <= 1 =>
         record = {[workflow |-> standing, run |-> First]}
    /\ start.at = "record" =>
         start.workflow # NoWorkflow /\ (stable /\ Len(entries) <= 1 => start.run = First)
    /\ start.at \in {"scope", "record"} /\ start.workflow # NoWorkflow /\ Len(entries) <= 1 =>
         standing # start.workflow

(* The record and what the memory of the session says of it move together. *)
LEMMA StandingStep == TypeOK /\ StandingIsRecorded /\ [Next]_vars => StandingIsRecorded'
  <1> SUFFICES ASSUME TypeOK, StandingIsRecorded, [Next]_vars PROVE StandingIsRecorded'
    OBVIOUS
  <1>0. ASSUME NEW i \in DOMAIN entries, entries' = Committed(i)
        PROVE  Len(entries') = Len(entries) /\ (Len(entries) <= 1 => First' = First)
    <2>1. Len(entries) >= 1 /\ entries # <<>> BY DEF TypeOK
    <2>2. entries' # <<>> BY <1>0, <2>1, WithoutFacts DEF TypeOK
    <2>3. Len(entries') = Len(entries) /\ (Len(entries) = 1 => entries'[1] = entries[1])
      BY <1>0, WithoutFacts
    <2> QED BY <2>1, <2>2, <2>3 DEF First, TypeOK
  <1> USE DEF files, memory, host, history, Rearm, Idle, Quiet
  <1>1. ASSUME NEW w \in Durable, CreateRun(w) PROVE StandingIsRecorded'
    BY <1>1 DEF CreateRun, StandingIsRecorded
  <1>2. CASE CommitRun
    <2>1. Len(entries') = Len(entries) /\ (Len(entries) <= 1 => First' = First)
      BY <1>2, <1>0 DEF CommitRun
    <2> QED BY <1>2, <2>1 DEF CommitRun, StandingIsRecorded
  <1>3. CASE EndRun BY <1>3 DEF EndRun, StandingIsRecorded
  <1>4. CASE Restart BY <1>4 DEF Restart, StandingIsRecorded, First
  <1>5. ASSUME NEW text \in Texts, RecordInput(text) PROVE StandingIsRecorded'
    BY <1>5 DEF RecordInput, StandingIsRecorded, First
  <1>6. ASSUME NEW text \in Texts, NEW next \in turn..(turn + 1), Consume(text, next) PROVE StandingIsRecorded'
    <2>1. start'.at \in {"scope", "active"} /\ (start'.at = "scope" => start'.workflow = NoWorkflow)
      BY <1>6 DEF Consume
    <2> QED BY <1>6, <2>1 DEF Consume, StandingIsRecorded, First
  <1>7. CASE CheckActive BY <1>7 DEF CheckActive, StandingIsRecorded, First
  <1>8. CASE CheckRecord
    <2>1. ASSUME standing # NoWorkflow, Len(entries) <= 1, standing = start.workflow
          PROVE  isDirectiveAlreadyActivated(start.workflow, First)
      <3> DEFINE rec == [workflow |-> standing, run |-> First]
      <3>1. rec \in record BY <2>1 DEF StandingIsRecorded
      <3>2. rec.workflow = start.workflow /\ rec.run = First BY <2>1
      <3> QED BY <3>1, <3>2 DEF isDirectiveAlreadyActivated
    <2> QED BY <1>8, <2>1 DEF CheckRecord, StandingIsRecorded, First
  <1>9. ASSUME NEW readable \in BOOLEAN, ResolveScope(readable) PROVE StandingIsRecorded'
    <2>1. start' = Idle \/
            (/\ start' = [at |-> "record", workflow |-> start.workflow, run |-> CurrentScope]
             /\ start.workflow # NoWorkflow)
      BY <1>9 DEF ResolveScope, resolveDirective
    <2>2. Len(entries) <= 1 => CurrentScope = First
      <3>1. Len(entries) \in Nat /\ (Len(entries) = 0 => entries = <<>>)
        BY EmptySeq DEF TypeOK
      <3>2. CASE Len(entries) = 1 BY <3>2 DEF CurrentScope
      <3>3. CASE Len(entries) = 0
        <4>1. First = NoRun BY <3>1, <3>3 DEF First
        <4> QED BY <3>3, <4>1 DEF CurrentScope
      <3>4. Len(entries) <= 1 => Len(entries) = 0 \/ Len(entries) = 1
        <4>1. \A n \in Nat : n <= 1 => n = 0 \/ n = 1 OBVIOUS
        <4> QED BY <3>1, <4>1
      <3> QED BY <3>2, <3>3, <3>4
    <2> QED BY <1>9, <2>1, <2>2 DEF ResolveScope, StandingIsRecorded, First
  <1>10. ASSUME NEW lost \in BOOLEAN, RecordDirective(lost) PROVE StandingIsRecorded'
    BY <1>10 DEF RecordDirective, StandingIsRecorded, First
  <1>11. ASSUME NEW lost \in BOOLEAN, WriteCounter(lost) PROVE StandingIsRecorded'
    BY <1>11 DEF WriteCounter, StandingIsRecorded, First
  <1>12. ASSUME NEW text \in Messages, Command(text) PROVE StandingIsRecorded'
    BY <1>12 DEF Command, StandingIsRecorded, First
  <1>13. CASE ClearRecord BY <1>13 DEF ClearRecord, StandingIsRecorded
  <1>14. CASE SendMessage BY <1>14 DEF SendMessage, StandingIsRecorded, First
  <1>15. CASE Expire BY <1>15 DEF Expire, StandingIsRecorded, First
  <1>16. CASE Handle
    <2>1. Len(entries') = Len(entries) /\ (Len(entries) <= 1 => First' = First)
      BY <1>16, <1>0 DEF Handle
    <2> QED BY <1>16, <2>1 DEF Handle, StandingIsRecorded
  <1>17. CASE ReadCounter BY <1>17 DEF ReadCounter, StandingIsRecorded, First
  <1>18. CASE Emit BY <1>18 DEF Emit, StandingIsRecorded, First
  <1>19. CASE UNCHANGED vars BY <1>19 DEF vars, StandingIsRecorded, First
  <1> QED BY <1>1, <1>2, <1>3, <1>4, <1>5, <1>6, <1>7, <1>8, <1>9, <1>10,
             <1>11, <1>12, <1>13, <1>14, <1>15, <1>16, <1>17, <1>18, <1>19 DEF Next

(* The activation record does what it is for: a session with at most one   *)
(* run is not given the directive it was given last again, whatever        *)
(* prompts, inputs, stops and restarts come in between, until a run begins *)
(* or ends, a command clears the record or the record's write is lost.     *)
THEOREM DirectiveStandsHolds == Spec => DirectiveStands
  <1> DEFINE Stands == \A lost \in BOOLEAN : RecordDirective(lost) /\ Len(entries) <= 1 =>
                          standing # start.workflow
  <1>1. Init => StandingIsRecorded
    BY DEF Init, StandingIsRecorded, Idle
  <1>2. StandingIsRecorded => [Stands]_vars
    BY DEF StandingIsRecorded, RecordDirective
  <1> QED BY <1>1, <1>2, InitType, TypeStep, StandingStep, PTL DEF Spec, DirectiveStands

-----------------------------------------------------------------------------
(* The continuation budget                                                 *)

(* Continuations of the present streak: the emitted one and the one that   *)
(* is due.                                                                 *)
Due == streak.emitted + IF stop.at = "emit" THEN 1 ELSE 0

(* The counter file holds one counter, which is what a stop that has read  *)
(* it will write on; it never passes the maximum, and but for lost writes  *)
(* it has counted every continuation of the streak.                        *)
CounterIsSound ==
    /\ \A c, d \in counter : c = d
    /\ \A c \in counter : c.count <= MAX_IDLE_CONTINUATIONS
    /\ stop.at = "budget" => stop.counter = counter
    /\ \/ Due <= faults
       \/ \E c \in counter : /\ c.run = streak.run /\ c.turn = streak.turn
                            /\ Due <= c.count + faults

(* Only a natural stop writes the counter, one more than what it read. *)
LEMMA CounterStep == TypeOK /\ CounterIsSound /\ [Next]_vars => CounterIsSound'
  <1> SUFFICES ASSUME TypeOK, CounterIsSound, [Next]_vars PROVE CounterIsSound'
    OBVIOUS
  <1>0. /\ counter \subseteq Counters /\ stop \in Stops /\ faults \in Nat /\ streak \in Streaks
        /\ MAX_IDLE_CONTINUATIONS \in Nat \ {0}
    BY DEF TypeOK
  <1>00. Due \in Nat /\ \A c \in counter : c.count \in Nat
    BY <1>0 DEF Due, Streaks, Counters
  <1> USE DEF files, memory, host, history, Rearm, Idle
  <1>1. ASSUME NEW w \in Durable, CreateRun(w) PROVE CounterIsSound'
    BY <1>1 DEF CreateRun, CounterIsSound, Due
  <1>2. CASE CommitRun BY <1>2 DEF CommitRun, CounterIsSound, Due
  <1>3. CASE EndRun BY <1>3 DEF EndRun, CounterIsSound, Due
  <1>4. CASE Restart
    <2>1. Due' <= Due BY <1>0, <1>4 DEF Restart, Due, Streaks
    <2> QED BY <1>0, <1>00, <1>4, <2>1 DEF Restart, CounterIsSound, Due, Streaks
  <1>5. ASSUME NEW text \in Texts, RecordInput(text) PROVE CounterIsSound'
    BY <1>5 DEF RecordInput, CounterIsSound, Due
  <1>6. ASSUME NEW text \in Texts, NEW next \in turn..(turn + 1), Consume(text, next) PROVE CounterIsSound'
    BY <1>6 DEF Consume, CounterIsSound, Due
  <1>7. CASE CheckActive BY <1>7 DEF CheckActive, CounterIsSound, Due
  <1>8. CASE CheckRecord BY <1>8 DEF CheckRecord, CounterIsSound, Due
  <1>9. ASSUME NEW readable \in BOOLEAN, ResolveScope(readable) PROVE CounterIsSound'
    BY <1>9 DEF ResolveScope, CounterIsSound, Due
  <1>10. ASSUME NEW lost \in BOOLEAN, RecordDirective(lost) PROVE CounterIsSound'
    BY <1>0, <1>00, <1>10 DEF RecordDirective, CounterIsSound, Due
  <1>11. ASSUME NEW lost \in BOOLEAN, WriteCounter(lost) PROVE CounterIsSound'
    <2> DEFINE allowed == checkBudget(stop.counter, stop.run)
    <2>1. stop.counter = counter /\ stop.at = "budget" /\ stop.run \in Nat /\ turn \in Nat
      BY <1>0, <1>11 DEF WriteCounter, CounterIsSound, TypeOK, Stops
    <2>2. streak'.run = stop.run /\ streak'.turn = turn /\ streak'.emitted \in Nat
      BY <1>0, <1>11 DEF WriteCounter, Streaks
    <2>3. /\ faults' = faults + IF lost THEN 1 ELSE 0
          /\ counter' = IF lost THEN counter
                        ELSE IF allowed THEN incrementCounter(counter, stop.run)
                        ELSE exhaustedCounter(counter)
          /\ stop' = IF allowed THEN [at |-> "emit"] ELSE Idle
      BY <1>11, <2>1 DEF WriteCounter
    <2>4. Due' = streak'.emitted + IF allowed THEN 1 ELSE 0
      BY <2>3 DEF Due
    <2>5. \/ streak'.emitted <= faults
          \/ \E c \in Current(counter, stop.run) : streak'.emitted <= c.count + faults
      <3>1. CASE streak' = streak
        BY <2>1, <2>2, <3>1 DEF CounterIsSound, Due, Current
      <3>2. CASE streak'.emitted = 0 BY <1>0, <3>2
      <3> QED BY <1>11, <3>1, <3>2 DEF WriteCounter
    <2>6. CASE Current(counter, stop.run) = {}
      <3>1. allowed BY <2>1, <2>6 DEF checkBudget
      <3> DEFINE new == [run |-> stop.run, turn |-> turn, count |-> 1, exhausted |-> FALSE]
      <3>2. incrementCounter(counter, stop.run) = {new}
        BY <2>6 DEF incrementCounter
      <3>3. streak'.emitted <= faults BY <2>5, <2>6
      <3>4. CASE lost
        BY <1>0, <2>2, <2>3, <2>4, <3>1, <3>3, <3>4 DEF CounterIsSound
      <3>5. CASE ~lost
        <4>1. counter' = {new} /\ faults' = faults /\ Due' = streak'.emitted + 1
              /\ stop'.at = "emit"
          BY <1>0, <2>3, <2>4, <3>1, <3>2, <3>5
        <4>2. Due' <= new.count + faults' BY <1>0, <2>2, <3>3, <4>1
        <4> HIDE DEF new
        <4>3. new.run = streak'.run /\ new.turn = streak'.turn /\ new.count = 1
          BY <2>2 DEF new
        <4> QED BY <1>0, <4>1, <4>2, <4>3 DEF CounterIsSound
      <3> QED BY <3>4, <3>5
    <2>7. CASE Current(counter, stop.run) # {}
      <3>1. PICK c \in Current(counter, stop.run) : TRUE BY <2>7
      <3>2. /\ counter = {c} /\ c \in Counters /\ c.run = stop.run /\ c.turn = turn
            /\ Current(counter, stop.run) = {c} /\ c.count <= MAX_IDLE_CONTINUATIONS
        BY <1>0, <3>1 DEF CounterIsSound, Current
      <3>3. streak'.emitted <= c.count + faults
        <4>1. c.count \in Nat BY <1>00, <3>2
        <4>2. ASSUME streak'.emitted <= faults PROVE streak'.emitted <= c.count + faults
          BY <1>0, <2>2, <4>1, <4>2
        <4>3. ASSUME \E d \in Current(counter, stop.run) : streak'.emitted <= d.count + faults
              PROVE  streak'.emitted <= c.count + faults
          BY <3>2, <4>3
        <4> QED BY <2>5, <4>2, <4>3
      <3>4. CASE lost
        <4>1. Due' <= c.count + faults'
          BY <1>0, <1>00, <2>2, <2>3, <2>4, <3>2, <3>3, <3>4
        <4> QED BY <2>2, <2>3, <3>2, <3>4, <4>1 DEF CounterIsSound
      <3>5. CASE ~lost /\ allowed
        <4> DEFINE d == [c EXCEPT !.count = @ + 1]
        <4>1. counter' = {d} BY <2>3, <2>7, <3>2, <3>5 DEF incrementCounter
        <4>2. d.run = c.run /\ d.turn = c.turn /\ d.count = c.count + 1
          BY <3>2 DEF Counters
        <4>3. c.count < MAX_IDLE_CONTINUATIONS BY <2>1, <3>2, <3>5 DEF checkBudget
        <4>4. Due' <= d.count + faults' /\ d.count <= MAX_IDLE_CONTINUATIONS /\ stop'.at = "emit"
          BY <1>0, <1>00, <2>2, <2>3, <2>4, <3>2, <3>3, <3>5, <4>2, <4>3
        <4> HIDE DEF d
        <4> QED BY <2>2, <3>2, <4>1, <4>2, <4>4 DEF CounterIsSound
      <3>6. CASE ~lost /\ ~allowed
        <4> DEFINE d == [c EXCEPT !.exhausted = TRUE]
        <4>1. counter' = {d} BY <2>3, <3>2, <3>6 DEF exhaustedCounter
        <4>2. d.run = c.run /\ d.turn = c.turn /\ d.count = c.count
          BY <3>2 DEF Counters
        <4>3. Due' <= d.count + faults' /\ stop'.at = "idle"
          BY <1>0, <1>00, <2>2, <2>3, <2>4, <3>2, <3>3, <3>6, <4>2
        <4> HIDE DEF d
        <4> QED BY <2>2, <3>2, <4>1, <4>2, <4>3 DEF CounterIsSound
      <3> QED BY <3>4, <3>5, <3>6
    <2> QED BY <2>6, <2>7
  <1>12. ASSUME NEW text \in Messages, Command(text) PROVE CounterIsSound'
    BY <1>12 DEF Command, CounterIsSound, Due
  <1>13. CASE ClearRecord BY <1>13 DEF ClearRecord, CounterIsSound, Due
  <1>14. CASE SendMessage BY <1>14 DEF SendMessage, CounterIsSound, Due
  <1>15. CASE Expire BY <1>0, <1>00, <1>15 DEF Expire, CounterIsSound, Due, Streaks
  <1>16. CASE Handle BY <1>16 DEF Handle, CounterIsSound, Due
  <1>17. CASE ReadCounter BY <1>17 DEF ReadCounter, CounterIsSound, Due
  <1>18. CASE Emit
    <2>1. Due' = Due BY <1>0, <1>18 DEF Emit, Due, Streaks
    <2>2. streak'.run = streak.run /\ streak'.turn = streak.turn
      BY <1>0, <1>18 DEF Emit, Streaks
    <2> QED BY <1>18, <2>1, <2>2 DEF Emit, CounterIsSound
  <1>19. CASE UNCHANGED vars BY <1>19 DEF vars, CounterIsSound, Due
  <1> QED BY <1>1, <1>2, <1>3, <1>4, <1>5, <1>6, <1>7, <1>8, <1>9, <1>10,
             <1>11, <1>12, <1>13, <1>14, <1>15, <1>16, <1>17, <1>18, <1>19 DEF Next

(* MAX_IDLE_CONTINUATIONS is the bound it claims to be: for one run and    *)
(* turn no more continuations are emitted, cut-off stops and restarts      *)
(* included, but for one with every counter write that is lost.            *)
THEOREM ContinuationsBoundedHolds == Spec => []ContinuationsBounded
  <1>1. Init => CounterIsSound
    BY DEF Init, CounterIsSound, Due, Idle, NoStreak
  <1>2. TypeOK /\ CounterIsSound => ContinuationsBounded
    BY DEF TypeOK, Counters, Streaks, CounterIsSound, Due, ContinuationsBounded
  <1> QED BY <1>1, <1>2, InitType, TypeStep, CounterStep, PTL DEF Spec

-----------------------------------------------------------------------------
(* The runners of commands                                                 *)

Statuses == {"unborn", "running", "gone"}

(* Only what was started is in the group or holds the pipes, and a leader  *)
(* that was killed did not end by itself.                                  *)
WorldInv ==
    /\ status \in [Procs -> Statuses]
    /\ \A p \in group \cup pipes : p \in Procs /\ status[p] # "unborn"
    /\ status[Leader] # "gone" => exit = "none"
    /\ Leader \in killed => exit \in {"none", "signal"}

(* What a receipt says, before the sandbox is removed. *)
ReceiptSays ==
    /\ Completed
    /\ job.platform = "posix" => ~groupExists
    /\ result.code = "zero" => ~result.timedOut /\ Leader \notin killed
                                 /\ exit \in {"ok"} \cup {e \in {"zero tests"} : job.runner = "capture"}

(* What the runner may rely on at the point it has reached: nothing ran    *)
(* before the spawn, what is cleaned up after its end has ended, and a     *)
(* cleanup that did not throw has left nothing of the group.               *)
RunnerPhases ==
    /\ job \in Jobs
    /\ pc \in {"prepare", "spawn"} => \A p \in Procs : status[p] = "unborn"
    /\ pc \in {"prepare", "spawn", "startup", "wait"} => why = "none"
    /\ pc \in {"taskkill", "taskkill again"} => job.platform = "win32"
    /\ why = "after" => job.platform = "posix" /\ Completed
    /\ pc = "complete" /\ ~failed /\ job.platform = "posix" => ~groupExists
    /\ job.runner = "capture" => pc \notin {"prepare", "remove"} /\ sandbox # "there"
    /\ result.kind = "receipt" => pc \in {"remove", "end"} /\ ReceiptSays
    /\ result.kind = "receipt" /\ pc = "end" => sandbox # "there"

RunnerInv == WorldInv /\ RunnerPhases

(* What has ended stays as it ended. *)
Stays ==
    /\ Completed => Completed' /\ exit' = exit /\ (Leader \in killed' => Leader \in killed)
    /\ ~groupExists => ~groupExists'

(* The processes, whatever they do, do not start again what has ended. *)
LEMMA ProcessesStay == WorldInv /\ Processes => WorldInv' /\ Stays
  <1> SUFFICES ASSUME WorldInv, Processes PROVE WorldInv' /\ Stays
    OBVIOUS
  <1> USE RunnerAssumption DEF WorldInv, Statuses, Procs, Stays, Completed, groupExists, Running
  <1>1. ASSUME NEW p \in Procs, NEW c \in Children, Forks(p, c) PROVE WorldInv' /\ Stays
    <2>1. c # Leader /\ c \notin group /\ c \notin pipes BY <1>1 DEF Forks
    <2>2. status' \in [Procs -> Statuses] BY <1>1 DEF Forks
    <2>3. group' = group \/ (p \in group /\ group' = group \cup {c}) BY <1>1 DEF Forks
    <2>4. pipes' = pipes \/ (p \in pipes /\ pipes' = pipes \cup {c}) BY <1>1 DEF Forks
    <2>5. status' = [status EXCEPT ![c] = "running"] /\ exit' = exit /\ killed' = killed
          /\ status[p] = "running"
      BY <1>1 DEF Forks
    <2> HIDE DEF WorldInv
    <2>6. WorldInv' BY <2>1, <2>2, <2>3, <2>4, <2>5 DEF WorldInv
    <2>7. Stays BY <2>1, <2>3, <2>4, <2>5 DEF WorldInv
    <2> QED BY <2>6, <2>7
  <1>2. ASSUME NEW p \in Procs, Exits(p) PROVE WorldInv' /\ Stays
    <2>1. CASE p = Leader BY <1>2, <2>1 DEF Exits
    <2>2. CASE p # Leader BY <1>2, <2>2 DEF Exits
    <2> QED BY <2>1, <2>2
  <1>3. ASSUME NEW p \in Procs, Prints(p) PROVE WorldInv' /\ Stays
    BY <1>3 DEF Prints
  <1> QED BY <1>1, <1>2, <1>3 DEF Processes

(* Nor does a kill of running processes. *)
LEMMA EndsStay ==
  ASSUME NEW set, \A p \in set : p \in Procs /\ Running(p), WorldInv, Ends(set)
  PROVE  WorldInv' /\ Stays
  BY RunnerAssumption DEF WorldInv, Ends, Statuses, Procs, Stays, Completed, groupExists, Running

(* The tree of a process is of running processes. *)
LEMMA TreeRuns == \A p : \A q \in Tree(p) : q \in Procs /\ Running(q)
  BY DEF Tree

(* What a runner returns when the command ended in time. *)
LEMMA InTime ==
  ASSUME WorldInv, job \in Jobs, result' = Result(FALSE), exit' = exit, job' = job,
         Completed', Leader \in killed' => Leader \in killed,
         job.platform = "posix" => ~groupExists'
  PROVE  ReceiptSays'
  BY RunnerAssumption
     DEF WorldInv, ReceiptSays, Result, Receipt, Captured, collectedZeroTests

(* What a runner returns when it did not. *)
LEMMA TooLate ==
  ASSUME result' = Result(TRUE), job' = job, Completed',
         job.platform = "posix" => ~groupExists'
  PROVE  ReceiptSays'
  BY DEF ReceiptSays, Result, Receipt, Captured

(* Before the spawn. *)
LEMMA StartStep ==
  ASSUME RunnerInv, createEnvironment \/ spawn
  PROVE  RunnerInv'
  <1> USE RunnerAssumption DEF RunnerInv, WorldInv, RunnerPhases, Threw, Breaks
  <1>1. CASE createEnvironment
    <2>1. UNCHANGED <<job, status, group, pipes, killed, exit, why, failed>>
          /\ pc = "prepare" /\ pc' \in {"spawn", "end"} /\ result'.kind # "receipt"
      BY <1>1 DEF createEnvironment, world
    <2> QED BY <2>1
  <1>2. CASE spawn
    <2>1. ~Completed /\ why = "none" /\ result.kind # "receipt" BY <1>2 DEF spawn, Completed, Procs
    <2>2. CASE Breaks /\ UNCHANGED <<status, group, pipes, tracked>>
      BY <1>2, <2>1, <2>2 DEF spawn
    <2>3. CASE ~(Breaks /\ UNCHANGED <<status, group, pipes, tracked>>)
      <3>1. WorldInv' BY <1>2, <2>3 DEF spawn, Statuses, Procs
      <3>2. RunnerPhases' BY <1>2, <2>1, <2>3 DEF spawn
      <3> QED BY <3>1, <3>2
    <2> QED BY <2>2, <2>3
  <1> QED BY <1>1, <1>2

(* What the processes and the tracker do leaves the runner where it is. *)
LEMMA WorldGoesOn ==
  ASSUME RunnerInv, Processes \/ trackWindowsProcessTree
  PROVE  RunnerInv'
  <1>1. CASE Processes
    <2>1. WorldInv' /\ Stays BY <1>1, ProcessesStay DEF RunnerInv
    <2>2. UNCHANGED <<job, tracked, sandbox, pc, why, failed, broken, result>> BY <1>1 DEF Processes
    <2>3. pc \in {"prepare", "spawn"} => status' = status
      BY <1>1 DEF RunnerInv, RunnerPhases, Processes, Forks, Exits, Prints, Running
    <2> QED BY <2>1, <2>2, <2>3 DEF RunnerInv, RunnerPhases, ReceiptSays, Stays
  <1>2. CASE trackWindowsProcessTree
    BY <1>2 DEF trackWindowsProcessTree, world, RunnerInv, WorldInv, RunnerPhases, ReceiptSays,
                Completed, groupExists, Running
  <1> QED BY <1>1, <1>2

(* The wait for the marker and the wait for the end. *)
LEMMA WaitStep ==
  ASSUME RunnerInv, Startup \/ Wait
  PROVE  RunnerInv'
  <1>1. WorldInv' /\ Stays /\ UNCHANGED <<job, world, sandbox, failed>>
    BY DEF Startup, Wait, world, RunnerInv, WorldInv, Stays, Completed, groupExists, Running
  <1>2. CASE Startup
    BY <1>1, <1>2 DEF Startup, RunnerInv, RunnerPhases, world
  <1>3. CASE Wait
    <2>1. PICK settled \in settleWithin(Completed) :
             IF settled /\ job.platform = "win32" THEN Returns(Result(FALSE)) /\ UNCHANGED why
             ELSE /\ pc' = "cleanup" /\ why' = IF settled THEN "after" ELSE "timeout"
                  /\ UNCHANGED result
      BY <1>3 DEF Wait
    <2>2. settled => Completed BY DEF settleWithin
    <2>3. pc = "wait" BY <1>3 DEF Wait
    <2>4. CASE settled /\ job.platform = "win32"
      <3>1. ReceiptSays'
        BY <1>1, <2>1, <2>2, <2>4, InTime DEF Returns, RunnerInv, RunnerPhases, Stays, world
      <3> QED BY <1>1, <2>1, <2>3, <2>4, <3>1, RunnerAssumption DEF Returns, RunnerInv, RunnerPhases, world
    <2>5. CASE ~(settled /\ job.platform = "win32")
      BY <1>1, <2>1, <2>2, <2>3, <2>5, RunnerAssumption DEF RunnerInv, RunnerPhases, Stays
    <2> QED BY <2>4, <2>5
  <1> QED BY <1>2, <1>3

(* The end of a cleanup: it did not throw only if nothing of the group is  *)
(* left.                                                                   *)
LEMMA CleanupEndsWell ==
  ASSUME RunnerInv, NEW ok \in BOOLEAN, CleanupEnds(ok), WorldInv', Stays,
         UNCHANGED <<job, sandbox, why>>,
         pc \in {"cleanup", "kill", "await", "taskkill", "taskkill again"},
         ok /\ job.platform = "posix" => ~groupExists
  PROVE  RunnerInv'
  <1>1. CASE why = "after" /\ ok
    <2>1. ReceiptSays'
      BY <1>1, InTime DEF CleanupEnds, Returns, RunnerInv, RunnerPhases, Stays
    <2>2. Returns(result') /\ UNCHANGED failed BY <1>1 DEF CleanupEnds, Returns
    <2> QED BY <1>1, <2>1, <2>2, RunnerAssumption DEF Returns, RunnerInv, RunnerPhases, Stays
  <1>2. CASE why = "after" /\ ~ok
    <2>1. Returns(Threw) /\ UNCHANGED failed BY <1>2 DEF CleanupEnds, Returns
    <2> QED BY <1>2, <2>1 DEF Returns, RunnerInv, RunnerPhases, Stays, Threw
  <1>3. CASE why # "after"
    BY <1>3 DEF CleanupEnds, RunnerInv, RunnerPhases, Stays
  <1> QED BY <1>1, <1>2, <1>3

(* A cleanup that goes on to its next step. *)
LEMMA CleanupGoesOn ==
  ASSUME RunnerInv, WorldInv', Stays, UNCHANGED <<job, sandbox, why, failed, result>>,
         pc \in {"cleanup", "kill", "await", "taskkill", "taskkill again"},
         \/ pc' \in {"kill", "await"}
         \/ pc' \in {"taskkill", "taskkill again"} /\ job.platform = "win32"
  PROVE  RunnerInv'
  BY DEF RunnerInv, RunnerPhases, Stays

(* The cleanup of a process group. *)
LEMMA GroupStep ==
  ASSUME RunnerInv, CleanupGroup \/ KillGroup \/ awaitGroupExit
  PROVE  RunnerInv'
  <1>1. WorldInv' /\ Stays /\ UNCHANGED <<job, sandbox, why>>
        /\ pc \in {"cleanup", "kill", "await", "taskkill", "taskkill again"}
    <2>1. CASE CleanupGroup \/ awaitGroupExit
      BY <2>1 DEF CleanupGroup, awaitGroupExit, world, RunnerInv, WorldInv, Stays, Completed,
                  groupExists, Running
    <2>2. CASE KillGroup
      BY <2>2 DEF KillGroup, RunnerInv, WorldInv, Stays, Completed, groupExists, Running
    <2> QED BY <2>1, <2>2
  <1>2. CASE CleanupGroup
    <2>1. CASE groupExists
      BY <1>1, <1>2, <2>1, CleanupGoesOn DEF CleanupGroup
    <2>2. CASE ~groupExists
      <3>1. PICK settled \in (IF why = "after" THEN {TRUE} ELSE settleWithin(Completed)) :
               CleanupEnds(settled)
        BY <1>2, <2>2 DEF CleanupGroup
      <3>2. settled \in BOOLEAN BY DEF settleWithin
      <3> QED BY <1>1, <2>2, <3>1, <3>2, CleanupEndsWell
    <2> QED BY <2>1, <2>2
  <1>3. CASE KillGroup
    <2>1. CASE groupExists
      BY <1>1, <1>3, <2>1, CleanupGoesOn DEF KillGroup
    <2>2. CASE ~groupExists
      BY <1>1, <1>3, <2>2, CleanupEndsWell DEF KillGroup
    <2> QED BY <2>1, <2>2
  <1>4. CASE awaitGroupExit
    <2>1. groupExists \in BOOLEAN BY DEF groupExists
    <2> QED BY <1>1, <1>4, <2>1, CleanupEndsWell DEF awaitGroupExit
  <1> QED BY <1>2, <1>3, <1>4

(* The cleanup of a tree of processes. *)
LEMMA TreeStep ==
  ASSUME RunnerInv, KillTracked \/ taskkill
  PROVE  RunnerInv'
  <1>1. PICK set : Ends(set) /\ \A p \in set : p \in Procs /\ Running(p)
    <2>1. CASE KillTracked
      <3>1. Ends(UNION {Tree(p) : p \in tracked}) BY <2>1 DEF KillTracked
      <3>2. \A q \in UNION {Tree(p) : p \in tracked} : q \in Procs /\ Running(q) BY TreeRuns
      <3> QED BY <3>1, <3>2
    <2>2. CASE taskkill
      <3>1. Ends({}) \/ Ends(Tree(Leader)) BY <2>2 DEF taskkill
      <3>2. \A p \in Tree(Leader) : p \in Procs /\ Running(p) BY TreeRuns
      <3> QED BY <3>1, <3>2
    <2> QED BY <2>1, <2>2
  <1>2. WorldInv' /\ Stays BY <1>1, EndsStay DEF RunnerInv
  <1>3. UNCHANGED <<job, sandbox, why>> /\ job.platform = "win32"
        /\ pc \in {"cleanup", "taskkill", "taskkill again"}
    BY DEF KillTracked, taskkill, RunnerInv, RunnerPhases
  <1>4. CASE CleanupEnds(TRUE) \/ CleanupEnds(FALSE)
    BY <1>2, <1>3, <1>4, CleanupEndsWell
  <1>5. CASE pc' \in {"taskkill", "taskkill again"} /\ UNCHANGED <<failed, result>>
    BY <1>2, <1>3, <1>5, CleanupGoesOn
  <1> QED BY <1>4, <1>5 DEF KillTracked, taskkill

(* The end. *)
LEMMA EndStep ==
  ASSUME RunnerInv, terminateAndComplete \/ rm
  PROVE  RunnerInv'
  <1>1. WorldInv' /\ Stays /\ UNCHANGED <<job, world, why, failed>>
    BY DEF terminateAndComplete, rm, world, RunnerInv, WorldInv, Stays, Completed, groupExists, Running
  <1>2. CASE terminateAndComplete
    <2>1. PICK settled \in settleWithin(Completed) :
             Returns(IF ~settled \/ failed \/ why = "startup" THEN Threw ELSE Result(TRUE))
      BY <1>2 DEF terminateAndComplete
    <2>2. pc = "complete" /\ sandbox' = sandbox BY <1>2 DEF terminateAndComplete
    <2>3. CASE ~settled \/ failed \/ why = "startup"
      BY <1>1, <2>1, <2>2, <2>3 DEF Returns, Threw, RunnerInv, RunnerPhases, Stays
    <2>4. CASE ~(~settled \/ failed \/ why = "startup")
      <3>1. Completed BY <2>4 DEF settleWithin
      <3>2. ReceiptSays'
        BY <1>1, <2>1, <2>2, <2>4, <3>1, TooLate DEF Returns, RunnerInv, RunnerPhases, Stays
      <3> QED BY <1>1, <2>1, <2>2, <2>4, <3>2, RunnerAssumption DEF Returns, RunnerInv, RunnerPhases, Stays
    <2> QED BY <2>3, <2>4
  <1>3. CASE rm
    <2>1. CASE sandbox' = "removed" /\ UNCHANGED <<broken, result>>
      <3>1. ReceiptSays => ReceiptSays'
        BY <1>1, <2>1 DEF ReceiptSays, Stays, world
      <3> QED BY <1>1, <1>3, <2>1, <3>1 DEF rm, RunnerInv, RunnerPhases, Stays
    <2>2. CASE result' = Threw /\ UNCHANGED sandbox
      BY <1>1, <1>3, <2>2 DEF rm, Threw, RunnerInv, RunnerPhases, Stays
    <2> QED BY <1>3, <2>1, <2>2 DEF rm
  <1> QED BY <1>2, <1>3

(* Whatever the processes and the timers do, the runner relies on nothing  *)
(* that does not hold.                                                     *)
THEOREM RunnerInvariant == RunnerSpec => []RunnerInv
  <1>1. RunnerInit => RunnerInv
    BY RunnerAssumption DEF RunnerInit, RunnerInv, WorldInv, RunnerPhases, Statuses, Procs, NoResult
  <1>2. RunnerInv /\ [RunnerNext]_runnerVars => RunnerInv'
    <2> SUFFICES ASSUME RunnerInv, [RunnerNext]_runnerVars PROVE RunnerInv'
      OBVIOUS
    <2>1. CASE UNCHANGED runnerVars
      BY <2>1 DEF runnerVars, world, RunnerInv, WorldInv, RunnerPhases, ReceiptSays, Completed,
                  groupExists, Running
    <2> QED BY <2>1, WorldGoesOn, StartStep, WaitStep, GroupStep, TreeStep, EndStep
            DEF RunnerNext, Runner
  <1> QED BY <1>1, <1>2, PTL DEF RunnerSpec

(* A receipt is true: with it the leader, its output and its group have    *)
(* ended and the sandbox is gone, and code zero is a command that ended by *)
(* itself and in time.                                                     *)
THEOREM ReceiptIsTrueHolds == RunnerSpec => []ReceiptIsTrue
  <1>1. RunnerInv => ReceiptIsTrue
    BY DEF RunnerInv, RunnerPhases, ReceiptSays, ReceiptIsTrue, Completed, Running
  <1> QED BY <1>1, RunnerInvariant, PTL
=============================================================================

----------------------------- MODULE VerbsProofs -----------------------------
(***************************************************************************)
(* Theorems about Verbs, for any calls, options and bounds.                *)
(***************************************************************************)
EXTENDS Verbs, TLAPS, SequenceTheorems, FiniteSetTheorems

-----------------------------------------------------------------------------
(* What the operators of Verbs return *)

LEMMA AbsentType == Absent \in Items
BY EmptySeq DEF Absent, Items

LEMMA StoredType ==
    ASSUME clock \in Nat, NEW v \in Seq(Calls), NEW b \in BOOLEAN
    PROVE  Stored(v, b) \in Items
BY DEF Stored, Items

LEMMA ItemFields ==
    ASSUME NEW it \in Items
    PROVE  /\ it.val \in Seq(Calls) /\ it.cas \in Nat
           /\ it.has \in BOOLEAN /\ it.stale \in BOOLEAN /\ it.sent \in BOOLEAN
BY DEF Items

LEMMA ItemConcat ==
    ASSUME NEW it \in Items, NEW v \in Seq(Calls), NEW n \in Nat
    PROVE  [it EXCEPT !.has = TRUE, !.val = v, !.cas = n] \in Items
BY DEF Items

LEMMA ConcatType ==
    ASSUME clock \in Nat, NEW it \in Items, NEW v \in Seq(Calls)
    PROVE  Concat(it, v) \subseteq Items
<1>1. clock + 1 \in Nat
  OBVIOUS
<1>2. [it EXCEPT !.has = TRUE, !.val = v, !.cas = clock + 1] \in Items
  BY <1>1, ItemConcat
<1>3. Stored(v, FALSE) \in Items
  BY StoredType
<1> QED
  BY <1>2, <1>3 DEF Concat

LEMMA ItemStale ==
    ASSUME NEW it \in Items, NEW n \in Nat
    PROVE  [it EXCEPT !.stale = TRUE, !.sent = FALSE, !.cas = n] \in Items
BY DEF Items

LEMMA ItemSent ==
    ASSUME NEW it \in Items, NEW b \in BOOLEAN
    PROVE  [it EXCEPT !.sent = b] \in Items
BY DEF Items

LEMMA CommandParts ==
    ASSUME NEW cmd \in Commands
    PROVE  cmd.val \in Seq(Calls) /\ cmd.cas \in Nat
BY DEF Commands

LEMMA AfterType ==
    ASSUME clock \in Nat, NEW it \in Items, NEW cmd \in Commands
    PROVE  After(cmd, it) \subseteq Items
<1> DEFINE a == it.val \o cmd.val
           b == cmd.val \o it.val
<1>1. it.val \in Seq(Calls) /\ cmd.val \in Seq(Calls)
  BY ItemFields, CommandParts
<1>2. a \in Seq(Calls) /\ b \in Seq(Calls)
  BY <1>1, ConcatProperties
<1>3. Won(it) \in BOOLEAN
  BY ItemFields DEF Won
<1>0. clock + 1 \in Nat
  OBVIOUS
<1>4. Concat(it, a) \subseteq Items /\ Concat(it, b) \subseteq Items
  BY <1>2, ConcatType
<1>5. Stored(cmd.val, FALSE) \in Items
  BY <1>1, StoredType
<1>6. [it EXCEPT !.sent = @ \/ Won(it)] \in Items
  BY <1>3, ItemFields, ItemSent
<1>7. [it EXCEPT !.stale = TRUE, !.sent = FALSE, !.cas = clock + 1] \in Items
  BY <1>0, ItemStale
<1> QED
  BY <1>4, <1>5, <1>6, <1>7, AbsentType DEF After

(* A read is never applied: only HD is. *)
LEMMA ReadsDoNotApply ==
    ASSUME NEW cmd, cmd.op = "mg"
    PROVE  ~Applied(cmd)
BY DEF Applied, Code

LEMMA ExecuteType ==
    ASSUME TypeOK, NEW cmd \in Commands, Execute(cmd)
    PROVE  item' \in Items /\ clock' \in Nat /\ dead' \in SUBSET Calls
<1>1. item \in Items /\ clock \in Nat /\ dead \in SUBSET Calls
  BY DEF TypeOK
<1>2. item' \in Items
  BY <1>1, AfterType DEF Execute
<1>3. clock' \in Nat
  BY <1>1 DEF Execute
<1>4. Elems(item.val) \subseteq Calls
  BY <1>1, ItemFields DEF Elems
<1>5. dead' \in SUBSET Calls
  BY <1>1, <1>4 DEF Execute
<1> QED
  BY <1>2, <1>3, <1>5

LEMMA ReadingType == Reading \in Commands /\ NoCmd \in Commands
BY EmptySeq DEF Reading, NoCmd, Commands

LEMMA StoringType ==
    ASSUME NEW mode \in Verbs \cup {"none"}, NEW cas \in Nat, NEW v \in Seq(Calls)
    PROVE  Storing(mode, cas, v) \in Commands
BY DEF Storing, Commands

LEMMA DeletingType ==
    ASSUME NEW mode \in Verbs, NEW cas \in Nat
    PROVE  Deleting(mode, cas) \in Commands
BY EmptySeq DEF Deleting, Commands

LEMMA CommandType ==
    ASSUME TypeOK, NEW c \in Calls
    PROVE  Command(c) \in Commands
<1> DEFINE s == seen[c].of
           next == (IF Found(s) THEN s.val ELSE <<>>) \o <<c>>
<1>1. s \in Items /\ kind[c] \in Verbs \cup {"none"}
  BY DEF TypeOK, Looks
<1>2. s.val \in Seq(Calls) /\ s.cas \in Nat
  BY <1>1, ItemFields
<1>3. <<c>> \in Seq(Calls) /\ <<>> \in Seq(Calls)
  OBVIOUS
<1>4. next \in Seq(Calls)
  BY <1>2, <1>3, ConcatProperties
<1>5. updateCommand(c, s) \in Commands
  BY <1>2, <1>4, StoringType DEF updateCommand, Verbs
<1>6. takeCommand(s) \in Commands
  BY <1>2, DeletingType DEF takeCommand, Verbs
<1>7. Deleting("delete", 0) \in Commands /\ Deleting("invalidate", 0) \in Commands
  BY DeletingType DEF Verbs
<1>8. Storing(kind[c], 0, <<c>>) \in Commands
  BY <1>1, <1>3, StoringType
<1> QED
  BY <1>5, <1>6, <1>7, <1>8, ReadingType DEF Command

-----------------------------------------------------------------------------
(* Type correctness *)

LEMMA TypeInit == Init => TypeOK
BY VerbsAssumption, AbsentType, ReadingType DEF Init, TypeOK, Looks, Unread, Answers, Failures

LEMMA TypeStart ==
    ASSUME TypeOK, NEW c \in Calls, NEW k \in Kinds, Start(c, k)
    PROVE  TypeOK'
BY VerbsAssumption DEF TypeOK, Start, Return, Answers, Failures

LEMMA LookType ==
    ASSUME NEW it \in Items, NEW b \in BOOLEAN
    PROVE  [of |-> it, won |-> b] \in Looks
BY DEF Looks

LEMMA TypeRead ==
    ASSUME TypeOK, NEW c \in Calls, Read(c)
    PROVE  TypeOK'
<1>1. item' \in Items /\ clock' \in Nat /\ dead' \in SUBSET Calls
  BY ExecuteType, ReadingType DEF Read
<1>2. Won(item) \in BOOLEAN /\ item.cas \in Nat
  BY ItemFields DEF TypeOK, Won
<1>3. [of |-> item', won |-> Won(item)] \in Looks
  BY <1>1, <1>2, LookType
<1>4. seen' \in [Calls -> Looks]
  BY <1>3 DEF TypeOK, Read
<1>5. giveback' \in [Calls -> Nat \cup {-1}]
  BY <1>2 DEF TypeOK, Read
<1>6. /\ pc' \in [Calls -> {"idle", "read", "write", "done"}]
      /\ ret' \in [Calls -> Answers]
  BY DEF TypeOK, Read, Return, Answers, Failures
<1>7. UNCHANGED <<env, kind, attempt, late, effects, haul>>
  BY DEF Read
<1> QED
  BY <1>1, <1>4, <1>5, <1>6, <1>7 DEF TypeOK

(* A call that has not returned has a turn of its loop left.  Without it   *)
(* the bound on attempt in TypeOK is not preserved by Mutate.              *)
TurnsLeft == \A c \in Calls : pc[c] # "done" => attempt[c] < MaxAttempts

LEMMA TurnsInit == Init => TurnsLeft
BY VerbsAssumption DEF Init, TurnsLeft

LEMMA TypeMutate ==
    ASSUME TypeOK, TurnsLeft, NEW c \in Calls, Mutate(c)
    PROVE  TypeOK' /\ TurnsLeft'
<1>0. Command(c) \in Commands
  BY CommandType
<1>1. item' \in Items /\ clock' \in Nat /\ dead' \in SUBSET Calls
  BY <1>0, ExecuteType DEF Mutate
<1>2. effects' \in [Calls -> Nat]
  BY DEF TypeOK, Mutate, Record
<1>3. item.val \in Seq(Calls)
  BY ItemFields DEF TypeOK
<1>4. haul' \in [Calls -> Seq(Calls)]
  BY <1>3 DEF TypeOK, Mutate, Record
<1>5. attempt[c] \in Nat /\ attempt[c] < MaxAttempts /\ MaxAttempts \in Nat
  BY VerbsAssumption DEF TypeOK, TurnsLeft, Mutate
<1>6. attempt' \in [Calls -> 0..MaxAttempts]
  <2>1. attempt' = attempt \/ attempt' = [attempt EXCEPT ![c] = attempt[c] + 1]
    BY DEF Mutate
  <2>2. attempt[c] + 1 \in 0..MaxAttempts
    BY <1>5
  <2> QED
    BY <2>1, <2>2 DEF TypeOK
<1>7. Answer(c, Code(Command(c), item)) \in Answers
  BY DEF Answer, Answers, Failures
<1>8. /\ pc' \in [Calls -> {"idle", "read", "write", "done"}]
      /\ ret' \in [Calls -> Answers]
  BY <1>7 DEF TypeOK, Mutate, Return, Answers, Failures
<1>9. UNCHANGED <<env, kind, seen, late, giveback>>
  BY DEF Mutate
<1>10. TurnsLeft'
  <2> SUFFICES ASSUME NEW d \in Calls, pc'[d] # "done"
               PROVE  attempt'[d] < MaxAttempts
    BY DEF TurnsLeft
  <2>1. CASE d # c
    <3>1. pc'[d] = pc[d] /\ attempt'[d] = attempt[d]
      BY <2>1 DEF TypeOK, Mutate, Return
    <3> QED
      BY <3>1 DEF TurnsLeft
  <2>2. CASE d = c
    <3>1. pc'[c] # "done"
      BY <2>2
    <3>2. attempt'[c] = attempt[c] + 1 /\ attempt[c] + 1 # MaxAttempts
      BY <3>1 DEF TypeOK, Mutate, Return, Exhausted
    <3> QED
      BY <1>5, <2>2, <3>2
  <2> QED
    BY <2>1, <2>2
<1> QED
  BY <1>1, <1>2, <1>4, <1>6, <1>8, <1>9, <1>10 DEF TypeOK

LEMMA TypeAbort ==
    ASSUME TypeOK, NEW c \in Calls, Abort(c)
    PROVE  TypeOK'
<1>1. seen[c].of.cas \in Nat
  BY ItemFields DEF TypeOK, Looks
<1>2. giveback' \in [Calls -> Nat \cup {-1}]
  BY <1>1 DEF TypeOK, Abort
<1> QED
  BY <1>2 DEF TypeOK, Abort, Return, Answers, Failures

(* Whatever way its command fails, the call returns a failure of that kind. *)
LEMMA FailsReturn ==
    ASSUME TypeOK, NEW c \in Calls, NEW end \in Ends, NEW own \in BOOLEAN, Fails(c, end, own)
    PROVE  /\ pc' = [pc EXCEPT ![c] = "done"]
           /\ ret' = [ret EXCEPT ![c] = ret'[c]]
           /\ end = "refused" => ret'[c] \in {"error", "absorbed"}
           /\ end = "unreadable" => ret'[c] \in Unreadable
           /\ end = "written" => \/ ret'[c] = "ambiguous"
                                 \/ ret'[c] \in {"error", "absorbed"} /\ ~commandHasSideEffect(c)
<1> DEFINE e == executeMetaError(c, end)
           a == IF ~absorb(kind[c], e, own) THEN e
                ELSE IF e = "unreadable" THEN "absorbedUnreadable" ELSE "absorbed"
<1>1. /\ end = "refused" => e = "error"
      /\ end = "unreadable" => e = "unreadable"
      /\ end = "written" => e = "ambiguous" \/ (e = "error" /\ ~commandHasSideEffect(c))
  BY DEF executeMetaError
<1>2. e = "ambiguous" => a = "ambiguous"
  BY DEF absorb
<1>3. Return(c, a)
  BY DEF Fails
<1>4. /\ e = "unreadable" => a \in Unreadable
      /\ e = "error" => a \in {"error", "absorbed"}
  BY DEF Unreadable
<1> HIDE DEF e, a
<1>5. pc' = [pc EXCEPT ![c] = "done"] /\ ret' = [ret EXCEPT ![c] = a] /\ ret'[c] = a
  BY <1>3 DEF Return, TypeOK
<1> QED
  BY <1>1, <1>2, <1>4, <1>5

(* What the three ways to fail have in common, and where they differ. *)
LEMMA FailedCall ==
    ASSUME TypeOK, NEW c \in Calls, Fail(c) \/ Lose(c) \/ Spoil(c)
    PROVE  /\ pc[c] \in {"read", "write"} /\ pc'[c] = "done" /\ ret'[c] \in Failures
           /\ \A d \in Calls : d # c => pc'[d] = pc[d] /\ ret'[d] = ret[d]
           /\ pc' \in [Calls -> {"idle", "read", "write", "done"}]
           /\ ret' \in [Calls -> Answers]
           /\ UNCHANGED <<env, kind, seen, attempt, giveback>>
           /\ Fail(c) => ret'[c] \in {"error", "absorbed"}
           /\ Spoil(c) => ret'[c] \in Unreadable
           /\ Lose(c) => \/ ret'[c] = "ambiguous"
                         \/ ret'[c] \in {"error", "absorbed"} /\ ~commandHasSideEffect(c)
<1>1. /\ pc[c] \in {"read", "write"}
      /\ UNCHANGED <<env, kind, seen, attempt, giveback>>
  BY DEF Fail, Lose, Spoil
<1>2. Fail(c) => /\ pc' = [pc EXCEPT ![c] = "done"] /\ ret' = [ret EXCEPT ![c] = ret'[c]]
                 /\ ret'[c] \in {"error", "absorbed"}
  BY FailsReturn DEF Fail, Ends
<1>3. Lose(c) => /\ pc' = [pc EXCEPT ![c] = "done"] /\ ret' = [ret EXCEPT ![c] = ret'[c]]
                 /\ \/ ret'[c] = "ambiguous"
                    \/ ret'[c] \in {"error", "absorbed"} /\ ~commandHasSideEffect(c)
  BY FailsReturn DEF Lose, Ends
<1>4. Spoil(c) => /\ pc' = [pc EXCEPT ![c] = "done"] /\ ret' = [ret EXCEPT ![c] = ret'[c]]
                  /\ ret'[c] \in Unreadable
  BY FailsReturn DEF Spoil, Ends
<1>5. PICK r : /\ pc' = [pc EXCEPT ![c] = "done"] /\ ret' = [ret EXCEPT ![c] = r]
               /\ ret'[c] = r
  BY <1>2, <1>3, <1>4
<1>6. r \in Failures
  BY <1>2, <1>3, <1>4, <1>5 DEF Failures, Unreadable
<1>7. /\ pc'[c] = "done" /\ pc' \in [Calls -> {"idle", "read", "write", "done"}]
      /\ ret' \in [Calls -> Answers]
      /\ \A d \in Calls : d # c => pc'[d] = pc[d] /\ ret'[d] = ret[d]
  BY <1>5, <1>6 DEF TypeOK, Answers
<1> QED
  BY <1>1, <1>2, <1>3, <1>4, <1>5, <1>6, <1>7

LEMMA TypeFail ==
    ASSUME TypeOK, NEW c \in Calls, Fail(c)
    PROVE  TypeOK'
BY FailedCall DEF TypeOK, Fail

LEMMA TypeLose ==
    ASSUME TypeOK, NEW c \in Calls, Lose(c)
    PROVE  TypeOK'
<1>1. late' \in [Calls -> Commands]
  BY CommandType DEF TypeOK, Lose
<1> QED
  BY <1>1, FailedCall DEF TypeOK, Lose

LEMMA TypeSpoil ==
    ASSUME TypeOK, NEW c \in Calls, Spoil(c)
    PROVE  TypeOK'
<1>1. item' \in Items /\ clock' \in Nat /\ dead' \in SUBSET Calls
  BY CommandType, ExecuteType DEF Spoil
<1>2. effects' \in [Calls -> Nat]
  BY DEF TypeOK, Spoil, Record
<1>3. item.val \in Seq(Calls)
  BY ItemFields DEF TypeOK
<1>4. haul' \in [Calls -> Seq(Calls)]
  BY <1>3 DEF TypeOK, Spoil, Record
<1> QED
  BY <1>1, <1>2, <1>4, FailedCall DEF TypeOK, Spoil

LEMMA TypeLate ==
    ASSUME TypeOK, NEW c \in Calls, Late(c)
    PROVE  TypeOK'
<1>1. late[c] \in Commands /\ item.val \in Seq(Calls)
  BY ItemFields DEF TypeOK
<1>2. item' \in Items /\ clock' \in Nat /\ dead' \in SUBSET Calls
  BY <1>1, ExecuteType DEF Late, TypeOK
<1>3. effects' \in [Calls -> Nat]
  BY DEF TypeOK, Late, Record
<1>4. haul' \in [Calls -> Seq(Calls)]
  BY <1>1 DEF TypeOK, Late, Record
<1>5. late' \in [Calls -> Commands]
  BY ReadingType DEF TypeOK, Late
<1> QED
  BY <1>2, <1>3, <1>4, <1>5 DEF TypeOK, Late

LEMMA TypeGiveBack ==
    ASSUME TypeOK, NEW c \in Calls, GiveBack(c)
    PROVE  TypeOK'
<1>1. giveback[c] \in Nat
  BY DEF TypeOK, GiveBack
<1>2. Deleting("invalidate", giveback[c]) \in Commands
  BY <1>1, DeletingType DEF Verbs
<1>3. item' \in Items /\ clock' \in Nat /\ dead' \in SUBSET Calls
  BY <1>2, ExecuteType DEF GiveBack
<1> QED
  BY <1>3 DEF TypeOK, GiveBack

LEMMA TypeEnv ==
    ASSUME TypeOK, (\E c \in Calls : GiveBackFails(c)) \/ Vivify \/ Evict \/ Finished
    PROVE  TypeOK'
<1>1. CASE \E c \in Calls : GiveBackFails(c)
  BY <1>1 DEF TypeOK, GiveBackFails
<1>2. CASE Vivify
  <2>1. Stored(<<>>, TRUE) \in Items
    BY StoredType, EmptySeq DEF TypeOK
  <2>2. env' \in 0..MaxEnv
    BY <1>2, VerbsAssumption DEF TypeOK, Vivify, Event
  <2>3. item' \in Items /\ clock' \in Nat
    <3>1. item' = Stored(<<>>, TRUE) /\ clock' = clock + 1
      BY <1>2 DEF Vivify
    <3>2. clock \in Nat
      BY DEF TypeOK
    <3>3. clock' \in Nat
      BY <3>1, <3>2
    <3> QED
      BY <2>1, <3>1, <3>3
  <2>4. UNCHANGED <<kind, pc, seen, attempt, ret, late, giveback, effects, haul, dead>>
    BY <1>2 DEF Vivify
  <2> QED
    BY <2>2, <2>3, <2>4 DEF TypeOK
<1>3. CASE Evict
  <2>1. env' \in 0..MaxEnv
    <3>1. env \in Nat /\ env < MaxEnv /\ env' = env + 1 /\ MaxEnv \in Nat
      BY <1>3, VerbsAssumption DEF TypeOK, Evict, Event
    <3> QED
      BY <3>1
  <2>2. item' \in Items
    BY <1>3, AbsentType DEF Evict
  <2>3. UNCHANGED <<clock, kind, pc, seen, attempt, ret, late, giveback, effects, haul, dead>>
    BY <1>3 DEF Evict
  <2> QED
    BY <2>1, <2>2, <2>3 DEF TypeOK
<1>4. CASE Finished
  BY <1>4 DEF TypeOK, Finished, vars
<1> QED
  BY <1>1, <1>2, <1>3, <1>4

LEMMA TurnsNext ==
    ASSUME TypeOK, TurnsLeft, [Next]_vars, \A c \in Calls : ~Mutate(c)
    PROVE  TurnsLeft'
<1>1. attempt' = attempt
  BY DEF Next, vars, Start, Read, Abort, Fail, Lose, Spoil, Late, GiveBack, GiveBackFails,
         Vivify, Evict, Finished
<1>2. \A d \in Calls : pc[d] = "done" => pc'[d] = "done"
  <2>1. ASSUME NEW c \in Calls, NEW k \in Kinds, Start(c, k)
        PROVE  \A d \in Calls : pc[d] = "done" => pc'[d] = "done"
    BY <2>1 DEF TypeOK, Start, Return
  <2>2. ASSUME NEW c \in Calls, Read(c)
        PROVE  \A d \in Calls : pc[d] = "done" => pc'[d] = "done"
    BY <2>2 DEF TypeOK, Read, Return
  <2>3. ASSUME NEW c \in Calls, Abort(c) \/ Fail(c) \/ Lose(c) \/ Spoil(c)
        PROVE  \A d \in Calls : pc[d] = "done" => pc'[d] = "done"
    BY <2>3, FailedCall DEF TypeOK, Abort, Return
  <2>4. ASSUME NEW c \in Calls, Late(c) \/ GiveBack(c) \/ GiveBackFails(c)
        PROVE  pc' = pc
    BY <2>4 DEF Late, GiveBack, GiveBackFails
  <2>5. Vivify \/ Evict \/ Finished \/ UNCHANGED vars => pc' = pc
    BY DEF Vivify, Evict, Finished, vars
  <2> QED
    BY <2>1, <2>2, <2>3, <2>4, <2>5 DEF Next
<1> QED
  BY <1>1, <1>2 DEF TurnsLeft

(* No verb, retry or late command takes the state out of its types; in     *)
(* particular the loops of update and Take end within updateAttempts.      *)
THEOREM TypeCorrect == Spec => []TypeOK
<1>1. Init => TypeOK /\ TurnsLeft
  BY TypeInit, TurnsInit
<1>2. TypeOK /\ TurnsLeft /\ [Next]_vars => (TypeOK /\ TurnsLeft)'
  <2> SUFFICES ASSUME TypeOK, TurnsLeft, [Next]_vars
               PROVE  TypeOK' /\ TurnsLeft'
    OBVIOUS
  <2>1. CASE \E c \in Calls : Mutate(c)
    BY <2>1, TypeMutate
  <2>2. CASE \A c \in Calls : ~Mutate(c)
    <3>1. TurnsLeft'
      BY <2>2, TurnsNext
    <3>2. CASE UNCHANGED vars
      BY <3>1, <3>2 DEF TypeOK, vars
    <3>3. CASE Next
      BY <2>2, <3>1, <3>3, TypeStart, TypeRead, TypeAbort, TypeFail, TypeLose, TypeSpoil,
         TypeLate, TypeGiveBack, TypeEnv DEF Next
    <3> QED
      BY <3>2, <3>3
  <2> QED
    BY <2>1, <2>2
<1> QED
  BY <1>1, <1>2, PTL DEF Spec

-----------------------------------------------------------------------------
(* Honest answers *)

(* The strengthening of HonestAnswers: nothing of a call that has not      *)
(* returned is applied or still on its way, and what a call left behind    *)
(* at the server matches what it returned.                                 *)
Honest(c) ==
    /\ pc[c] # "done" => effects[c] = 0 /\ late[c].op = "none"
    /\ pc[c] = "done" /\ kind[c] \in Mutators =>
        /\ ret[c] = "ok" => effects[c] = 1 /\ late[c].op = "none"
        /\ ret[c] = "ambiguous" =>
             (effects[c] = 0 \/ (effects[c] = 1 /\ late[c].op = "none"))
        /\ ret[c] \in Unreadable => effects[c] \in {0, 1} /\ late[c].op = "none"
        /\ ret[c] \notin Unreadable \cup {"ok", "ambiguous"} =>
             effects[c] = 0 /\ late[c].op \in {"none", "mg"}

(* A step that leaves alone what Honest looks at keeps it. *)
LEMMA HonestFrame ==
    ASSUME NEW d \in Calls, Honest(d), pc'[d] = pc[d], kind'[d] = kind[d],
           ret'[d] = ret[d], effects'[d] = effects[d], late'[d] = late[d]
    PROVE  Honest(d)'
BY DEF Honest

LEMMA HonestStart ==
    ASSUME TypeOK, NEW c \in Calls, NEW k \in Kinds, Start(c, k), NEW d \in Calls,
           Honest(d)
    PROVE  Honest(d)'
<1>1. effects' = effects /\ late' = late /\ pc[c] = "idle"
  BY DEF Start
<1>2. CASE d # c
  <2>1. pc'[d] = pc[d] /\ kind'[d] = kind[d] /\ ret'[d] = ret[d]
    BY <1>2 DEF TypeOK, Start, Return
  <2> QED
    BY <1>1, <2>1, HonestFrame
<1>3. CASE d = c
  <2>1. effects[c] = 0 /\ late[c].op = "none"
    BY <1>1, <1>3 DEF Honest
  <2>2. pc'[c] = "done" => ret'[c] \in {"usage", "absorbed"}
    BY DEF TypeOK, Start, Return, Loops, Reads
  <2> QED
    BY <1>1, <1>3, <2>1, <2>2 DEF Honest, Unreadable
<1> QED
  BY <1>2, <1>3

LEMMA HonestRead ==
    ASSUME TypeOK, NEW c \in Calls, Read(c), NEW d \in Calls, Honest(d)
    PROVE  Honest(d)'
<1>1. effects' = effects /\ late' = late /\ kind' = kind /\ pc[c] = "read"
  BY DEF Read
<1>2. CASE d # c
  <2>1. pc'[d] = pc[d] /\ ret'[d] = ret[d]
    BY <1>2 DEF TypeOK, Read, Return
  <2> QED
    BY <1>1, <2>1, HonestFrame
<1>3. CASE d = c
  <2>1. effects[c] = 0 /\ late[c].op = "none"
    BY <1>1, <1>3 DEF Honest
  <2>2. pc'[c] = "done" /\ kind[c] \in Mutators => ret'[c] = "miss"
    BY DEF TypeOK, Read, Return, Mutators, Reads
  <2> QED
    BY <1>1, <1>3, <2>1, <2>2 DEF Honest, Unreadable
<1> QED
  BY <1>2, <1>3

LEMMA HonestMutate ==
    ASSUME TypeOK, NEW c \in Calls, Mutate(c), NEW d \in Calls, Honest(d)
    PROVE  Honest(d)'
<1>1. late' = late /\ kind' = kind /\ pc[c] = "write"
  BY DEF Mutate
<1>2. CASE d # c
  <2>1. pc'[d] = pc[d] /\ ret'[d] = ret[d] /\ effects'[d] = effects[d]
    BY <1>2 DEF TypeOK, Mutate, Return, Record
  <2> QED
    BY <1>1, <2>1, HonestFrame
<1>3. CASE d = c
  <2>1. effects[c] = 0 /\ late[c].op = "none"
    BY <1>1, <1>3 DEF Honest
  <2>2. CASE Applied(Command(c))
    <3>1. effects'[c] = 1
      BY <2>1, <2>2 DEF TypeOK, Mutate, Record
    <3>2. pc'[c] = "done" /\ ret'[c] = "ok"
      BY <2>2 DEF TypeOK, Mutate, Return, Applied, Answer
    <3> QED
      BY <1>1, <1>3, <2>1, <3>1, <3>2 DEF Honest, Unreadable
  <2>3. CASE ~Applied(Command(c))
    <3>1. effects'[c] = 0
      BY <2>1, <2>3 DEF TypeOK, Mutate, Record
    <3>2. pc'[c] = "done" /\ kind[c] \in Mutators => ret'[c] \in {"no", "conflict"}
      BY <2>3 DEF TypeOK, Mutate, Return, Applied, Answer, Mutators
    <3> QED
      BY <1>1, <1>3, <2>1, <3>1, <3>2 DEF Honest, Unreadable
  <2> QED
    BY <2>2, <2>3
<1> QED
  BY <1>2, <1>3

LEMMA HonestFail ==
    ASSUME TypeOK, NEW c \in Calls, Abort(c) \/ Fail(c), NEW d \in Calls, Honest(d)
    PROVE  Honest(d)'
<1>1. /\ effects' = effects /\ late' = late /\ kind' = kind
      /\ pc[c] \in {"read", "write"}
  BY DEF Fail, Abort
<1>2. CASE d # c
  <2>1. pc'[d] = pc[d] /\ ret'[d] = ret[d]
    BY <1>2, FailedCall DEF TypeOK, Abort, Return
  <2> QED
    BY <1>1, <2>1, HonestFrame
<1>3. CASE d = c
  <2>1. effects[c] = 0 /\ late[c].op = "none"
    BY <1>1, <1>3 DEF Honest
  <2>2. ret'[c] \in {"aborted", "error", "absorbed"}
    BY FailedCall DEF TypeOK, Abort, Return
  <2> QED
    BY <1>1, <1>3, <2>1, <2>2 DEF Honest, Unreadable
<1> QED
  BY <1>2, <1>3

LEMMA HonestLose ==
    ASSUME TypeOK, NEW c \in Calls, Lose(c), NEW d \in Calls, Honest(d)
    PROVE  Honest(d)'
<1>1. effects' = effects /\ kind' = kind /\ pc[c] \in {"read", "write"}
  BY DEF Lose
<1>2. CASE d # c
  <2>1. pc'[d] = pc[d] /\ ret'[d] = ret[d] /\ late'[d] = late[d]
    BY <1>2, FailedCall DEF TypeOK, Lose
  <2> QED
    BY <1>1, <2>1, HonestFrame
<1>3. CASE d = c
  <2>1. effects[c] = 0 /\ pc'[c] = "done" /\ late'[c] = Command(c)
    BY <1>1, <1>3, FailedCall DEF Honest, TypeOK, Lose
  <2>2. CASE ret'[c] = "ambiguous"
    BY <1>1, <1>3, <2>1, <2>2 DEF Honest, Unreadable
  <2>3. CASE ret'[c] \in {"error", "absorbed"} /\ ~commandHasSideEffect(c)
    <3>1. Command(c).op = "mg"
      BY <2>3 DEF commandHasSideEffect
    <3> QED
      BY <1>1, <1>3, <2>1, <2>3, <3>1 DEF Honest, Unreadable
  <2> QED
    BY <2>2, <2>3, FailedCall
<1> QED
  BY <1>2, <1>3

LEMMA HonestSpoil ==
    ASSUME TypeOK, NEW c \in Calls, Spoil(c), NEW d \in Calls, Honest(d)
    PROVE  Honest(d)'
<1>1. late' = late /\ kind' = kind /\ pc[c] \in {"read", "write"}
  BY DEF Spoil
<1>2. CASE d # c
  <2>1. pc'[d] = pc[d] /\ ret'[d] = ret[d] /\ effects'[d] = effects[d]
    BY <1>2, FailedCall DEF TypeOK, Spoil, Record
  <2> QED
    BY <1>1, <2>1, HonestFrame
<1>3. CASE d = c
  <2>1. effects[c] = 0 /\ late[c].op = "none"
    BY <1>1, <1>3 DEF Honest
  <2>2. pc'[c] = "done" /\ ret'[c] \in Unreadable
    BY FailedCall
  <2>3. effects'[c] \in {0, 1}
    BY <2>1 DEF TypeOK, Spoil, Record
  <2> QED
    BY <1>1, <1>3, <2>1, <2>2, <2>3 DEF Honest, Unreadable
<1> QED
  BY <1>2, <1>3

LEMMA HonestLate ==
    ASSUME TypeOK, NEW c \in Calls, Late(c), NEW d \in Calls, Honest(d)
    PROVE  Honest(d)'
<1>1. pc' = pc /\ ret' = ret /\ kind' = kind /\ late[c].op # "none"
  BY DEF Late
<1>2. CASE d # c
  <2>1. effects'[d] = effects[d] /\ late'[d] = late[d]
    BY <1>2 DEF TypeOK, Late, Record
  <2> QED
    BY <1>1, <2>1, HonestFrame
<1>3. CASE d = c
  <2>1. pc[c] = "done" /\ (kind[c] \in Mutators => ret[c] \notin Unreadable \cup {"ok"}
                                                   /\ effects[c] = 0)
    BY <1>1, <1>3 DEF Honest
  <2>2. late'[c].op = "none"
    BY DEF TypeOK, Late, NoCmd
  <2>3. effects[c] = 0 => effects'[c] \in {0, 1}
    BY DEF TypeOK, Late, Record
  <2>4. late[c].op = "mg" => effects'[c] = effects[c]
    BY ReadsDoNotApply DEF TypeOK, Late, Record
  <2> QED
    BY <1>1, <1>3, <2>1, <2>2, <2>3, <2>4 DEF Honest
<1> QED
  BY <1>2, <1>3

LEMMA HonestOther ==
    ASSUME NEW d \in Calls, Honest(d),
           \/ \E c \in Calls : GiveBack(c) \/ GiveBackFails(c)
           \/ Vivify \/ Evict \/ UNCHANGED vars
    PROVE  Honest(d)'
<1>1. UNCHANGED <<pc, kind, ret, effects, late>>
  BY DEF GiveBack, GiveBackFails, Vivify, Evict, vars
<1> QED
  BY <1>1, HonestFrame

AllHonest == \A d \in Calls : Honest(d)

LEMMA HonestInvariant == Spec => []AllHonest
<1>1. Init => AllHonest
  BY DEF Init, AllHonest, Honest, NoCmd
<1>2. TypeOK /\ AllHonest /\ [Next]_vars => AllHonest'
  <2> SUFFICES ASSUME TypeOK, AllHonest, [Next]_vars, NEW d \in Calls
               PROVE  Honest(d)'
    BY DEF AllHonest
  <2>1. Honest(d)
    BY DEF AllHonest
  <2>2. CASE UNCHANGED vars
    BY <2>1, <2>2, HonestOther
  <2>3. CASE Next
    BY <2>1, <2>3, HonestStart, HonestRead, HonestMutate, HonestFail, HonestLose,
       HonestSpoil, HonestLate, HonestOther DEF Next, Finished
  <2> QED
    BY <2>2, <2>3
<1> QED
  BY <1>1, <1>2, TypeCorrect, PTL DEF Spec

(* Every answer of a mutating verb can be trusted for every number of      *)
(* concurrent calls and attempts: success means applied once.  An error    *)
(* means never applied, absorbed by Degrade or not, with two exceptions:   *)
(* an AmbiguousWriteError, after which the mutation may still be applied   *)
(* once, and the plain error of a response that cannot be parsed, behind   *)
(* which it was applied once or never will be (executeMeta, absorb,        *)
(* update, Take).                                                          *)
THEOREM AnswersHonest == Spec => []HonestAnswers
<1>1. AllHonest => HonestAnswers
  <2> SUFFICES ASSUME AllHonest, NEW c \in Calls, pc[c] = "done", kind[c] \in Mutators
               PROVE  /\ ret[c] = "ok" => effects[c] = 1
                      /\ ret[c] \in Unreadable \cup {"ambiguous"} => effects[c] <= 1
                      /\ ret[c] \notin Unreadable \cup {"ok", "ambiguous"} => effects[c] = 0
                      /\ ret[c] # "ambiguous" => late[c].op \in {"none", "mg"}
    BY DEF HonestAnswers
  <2>1. Honest(c)
    BY DEF AllHonest
  <2> QED
    BY <2>1 DEF Honest, Unreadable
<1> QED
  BY <1>1, HonestInvariant, PTL

-----------------------------------------------------------------------------
(* Update is atomic *)

(* How the item may change: it goes away, is given a new CAS value, or     *)
(* only has its token handed out.                                          *)
Moves ==
    /\ clock' \in {clock, clock + 1}
    /\ item'.has => \/ item'.cas = clock + 1 /\ clock' = clock + 1
                    \/ /\ item.has /\ item'.cas = item.cas
                       /\ item'.val = item.val /\ item'.stale = item.stale

LEMMA AfterMoves ==
    ASSUME TypeOK, NEW cmd \in Commands, cmd.op # "mg", NEW it \in After(cmd, item), it.has
    PROVE  it.cas = clock + 1
<1>1. item \in Items
  BY DEF TypeOK
<1>2. ASSUME NEW v, NEW x \in Concat(item, v)
      PROVE  x.cas = clock + 1
  <2>1. CASE x = Stored(v, FALSE)
    BY <2>1 DEF Stored
  <2>2. CASE x = [item EXCEPT !.has = TRUE, !.val = v, !.cas = clock + 1]
    BY <1>1, <2>2 DEF Items
  <2> QED
    BY <1>2, <2>1, <2>2 DEF Concat
<1>3. CASE cmd.mode = "append"
  BY <1>2, <1>3 DEF After
<1>4. CASE cmd.mode = "prepend"
  BY <1>2, <1>4 DEF After
<1>5. CASE cmd.mode = "delete"
  BY <1>5 DEF After, Absent
<1>6. CASE cmd.mode = "invalidate"
  <2>1. it = [item EXCEPT !.stale = TRUE, !.sent = FALSE, !.cas = clock + 1]
    BY <1>6 DEF After
  <2> QED
    BY <1>1, <2>1 DEF Items
<1>7. CASE cmd.mode \notin {"append", "prepend", "delete", "invalidate"}
  <2>1. it = Stored(cmd.val, FALSE)
    BY <1>7 DEF After
  <2> QED
    BY <2>1 DEF Stored
<1> QED
  BY <1>3, <1>4, <1>5, <1>6, <1>7

LEMMA ExecuteMoves ==
    ASSUME TypeOK, NEW cmd \in Commands, Execute(cmd)
    PROVE  Moves
<1>1. item \in Items
  BY DEF TypeOK
<1>2. CASE cmd.op = "mg"
  <2>1. item' = [item EXCEPT !.sent = @ \/ Won(item)] /\ clock' = clock
    BY <1>2 DEF Execute, After
  <2>2. /\ item'.has = item.has /\ item'.cas = item.cas
        /\ item'.val = item.val /\ item'.stale = item.stale
    BY <1>1, <2>1 DEF Items
  <2> QED
    BY <2>1, <2>2 DEF Moves
<1>3. CASE cmd.op # "mg" /\ Applied(cmd)
  <2>1. item' \in After(cmd, item) /\ clock' = clock + 1
    BY <1>3 DEF Execute
  <2>2. item'.has => item'.cas = clock + 1
    BY <1>3, <2>1, AfterMoves
  <2> QED
    BY <2>1, <2>2 DEF Moves
<1>4. CASE cmd.op # "mg" /\ ~Applied(cmd)
  BY <1>4 DEF Execute, Moves
<1> QED
  BY <1>2, <1>3, <1>4

LEMMA NextMoves ==
    ASSUME TypeOK, [Next]_vars
    PROVE  Moves
<1>1. ASSUME NEW c \in Calls, Read(c)
      PROVE  Moves
  BY <1>1, ExecuteMoves, ReadingType DEF Read
<1>2. ASSUME NEW c \in Calls, Mutate(c)
      PROVE  Moves
  BY <1>2, ExecuteMoves, CommandType DEF Mutate
<1>10. ASSUME NEW c \in Calls, Spoil(c)
       PROVE  Moves
  BY <1>10, ExecuteMoves, CommandType DEF Spoil
<1>3. ASSUME NEW c \in Calls, Late(c)
      PROVE  Moves
  <2>1. late[c] \in Commands
    BY DEF TypeOK
  <2>2. CASE Execute(late[c])
    BY <2>1, <2>2, ExecuteMoves
  <2>3. CASE UNCHANGED <<item, clock>>
    BY <2>3 DEF Moves
  <2> QED
    BY <1>3, <2>2, <2>3 DEF Late
<1>4. ASSUME NEW c \in Calls, GiveBack(c)
      PROVE  Moves
  <2>1. giveback[c] \in Nat
    BY <1>4 DEF TypeOK, GiveBack
  <2>2. Deleting("invalidate", giveback[c]) \in Commands
    BY <2>1, DeletingType DEF Verbs
  <2> QED
    BY <1>4, <2>2, ExecuteMoves DEF GiveBack
<1>5. ASSUME UNCHANGED <<item, clock>>
      PROVE  Moves
  BY <1>5 DEF Moves
<1>6. Vivify => Moves
  BY DEF Vivify, Stored, Moves
<1>7. Evict => Moves
  BY DEF Evict, Absent, Moves
<1>8. ASSUME NEW c \in Calls,
             (\E k \in Kinds : Start(c, k)) \/ Abort(c) \/ Fail(c) \/ Lose(c)
               \/ GiveBackFails(c)
      PROVE  UNCHANGED <<item, clock>>
  BY <1>8 DEF Start, Abort, Fail, Lose, GiveBackFails
<1>9. Finished \/ UNCHANGED vars => UNCHANGED <<item, clock>>
  BY DEF Finished, vars
<1> QED
  BY <1>1, <1>2, <1>3, <1>4, <1>5, <1>6, <1>7, <1>8, <1>9, <1>10 DEF Next

(* A CAS value identifies a version: while the item has the CAS of a look  *)
(* s, it has the value and the staleness the look saw.                     *)
Versioned(s) ==
    s.has => /\ s.cas > 0 /\ s.cas <= clock
             /\ item.has /\ item.cas = s.cas => item.val = s.val /\ item.stale = s.stale

Versions == Versioned(item) /\ \A c \in Calls : Versioned(seen[c].of)

LEMMA VersionedMoves ==
    ASSUME clock \in Nat, Moves, NEW s \in Items, Versioned(s), Versioned(item)
    PROVE  Versioned(s)'
BY ItemFields DEF Versioned, Moves

LEMMA VersionsNext ==
    ASSUME TypeOK, TypeOK', Versions, [Next]_vars
    PROVE  Versions'
<1>1. clock \in Nat /\ Moves /\ item \in Items /\ item' \in Items
  BY NextMoves DEF TypeOK
<1>2. Versioned(item)'
  BY <1>1, ItemFields DEF Versions, Versioned, Moves
<1>3. ASSUME NEW c \in Calls
      PROVE  Versioned(seen[c].of)'
  <2>1. seen'[c] = seen[c] \/ seen'[c] = [of |-> item', won |-> Won(item)]
    BY DEF TypeOK, Next, vars, Start, Read, Abort, Mutate, Fail, Lose, Spoil, Late,
           GiveBack, GiveBackFails, Vivify, Evict, Finished
  <2>2. CASE seen'[c] = seen[c]
    <3>1. seen[c].of \in Items /\ Versioned(seen[c].of) /\ Versioned(item)
      BY DEF TypeOK, Looks, Versions
    <3> DEFINE s == seen[c].of
    <3>2. \/ ~s.has
          \/ /\ s.cas > 0 /\ s.cas <= clock'
             /\ item'.has /\ item'.cas = s.cas => item'.val = s.val /\ item'.stale = s.stale
      BY <1>1, <3>1, ItemFields DEF Versioned, Moves
    <3> QED
      BY <2>2, <3>2 DEF Versioned
  <2>3. CASE seen'[c] = [of |-> item', won |-> Won(item)]
    BY <1>2, <2>3 DEF Versioned
  <2> QED
    BY <2>1, <2>2, <2>3
<1> QED
  BY <1>2, <1>3 DEF Versions

(* The mutation of a call. *)
WriteCmd(c) ==
    CASE kind[c] = "update"     -> updateCommand(c, seen[c].of)
      [] kind[c] = "take"       -> takeCommand(seen[c].of)
      [] kind[c] = "delete"     -> Deleting("delete", 0)
      [] kind[c] = "invalidate" -> Deleting("invalidate", 0)
      [] OTHER                  -> Storing(kind[c], 0, <<c>>)

(* A call that gave up on its mutation left exactly that one behind.       *)
Leftover(c) ==
    \/ late[c].op \in {"none", "mg"}
    \/ late[c] = WriteCmd(c) /\ pc[c] = "done"

LEMMA LeftoverSame ==
    ASSUME NEW d \in Calls, Leftover(d), UNCHANGED <<kind[d], late[d], seen[d], pc[d]>>
    PROVE  Leftover(d)'
<1>1. WriteCmd(d)' = WriteCmd(d)
  BY DEF WriteCmd, updateCommand, takeCommand, Storing, Deleting, Found
<1> QED
  BY <1>1 DEF Leftover

LEMMA LeftoverNext ==
    ASSUME TypeOK, [Next]_vars, NEW d \in Calls, Leftover(d), Honest(d)
    PROVE  Leftover(d)'
<1>1. ASSUME NEW c \in Calls, NEW k \in Kinds, Start(c, k)
      PROVE  Leftover(d)'
  <2>1. d = c => late'[d].op = "none"
    BY <1>1 DEF Start, Honest
  <2>2. d # c => UNCHANGED <<kind[d], late[d], seen[d], pc[d]>>
    BY <1>1 DEF TypeOK, Start, Return
  <2> QED
    BY <2>1, <2>2, LeftoverSame DEF Leftover
<1>2. ASSUME NEW c \in Calls, Lose(c)
      PROVE  Leftover(d)'
  <2>1. d # c => UNCHANGED <<kind[d], late[d], seen[d], pc[d]>>
    BY <1>2, FailedCall DEF TypeOK, Lose
  <2>2. /\ late'[c] = Command(c) /\ pc'[c] = "done" /\ pc[c] \in {"read", "write"}
        /\ UNCHANGED <<kind, seen>>
    BY <1>2, FailedCall DEF TypeOK, Lose
  <2>3. pc[c] = "read" => Command(c).op = "mg"
    BY DEF Command, Reading
  <2>4. pc[c] = "write" => Command(c) = WriteCmd(c)
    BY DEF Command, WriteCmd
  <2>5. WriteCmd(c)' = WriteCmd(c)
    BY <2>2 DEF WriteCmd, updateCommand, takeCommand, Storing, Deleting, Found
  <2>6. d = c => Leftover(d)'
    BY <2>2, <2>3, <2>4, <2>5 DEF Leftover
  <2> QED
    BY <2>1, <2>6, LeftoverSame
<1>3. ASSUME NEW c \in Calls, Late(c)
      PROVE  Leftover(d)'
  <2>1. d # c => UNCHANGED <<kind[d], late[d], seen[d], pc[d]>>
    BY <1>3 DEF TypeOK, Late
  <2>2. d = c => late'[d].op = "none"
    BY <1>3 DEF TypeOK, Late, NoCmd
  <2> QED
    BY <2>1, <2>2, LeftoverSame DEF Leftover
<1>4. ASSUME NEW c \in Calls, Read(c) \/ Abort(c) \/ Mutate(c) \/ Fail(c) \/ Spoil(c)
      PROVE  Leftover(d)'
  <2>1. d # c => UNCHANGED <<kind[d], late[d], seen[d], pc[d]>>
    <3>1. CASE Read(c) \/ Abort(c) \/ Mutate(c)
      BY <3>1 DEF TypeOK, Read, Abort, Mutate, Return
    <3>2. CASE Fail(c) \/ Spoil(c)
      <4>1. late' = late
        BY <3>2 DEF Fail, Spoil
      <4> QED
        BY <3>2, <4>1, FailedCall
    <3> QED
      BY <1>4, <3>1, <3>2
  <2>2. d = c => late'[d].op = "none"
    BY <1>4 DEF Read, Abort, Mutate, Fail, Spoil, Honest
  <2> QED
    BY <2>1, <2>2, LeftoverSame DEF Leftover
<1>5. ASSUME UNCHANGED <<kind, late, seen, pc>>
      PROVE  Leftover(d)'
  BY <1>5, LeftoverSame
<1>6. ASSUME NEW c \in Calls, GiveBack(c) \/ GiveBackFails(c)
      PROVE  UNCHANGED <<kind, late, seen, pc>>
  BY <1>6 DEF GiveBack, GiveBackFails
<1>7. Vivify \/ Evict \/ Finished \/ UNCHANGED vars => UNCHANGED <<kind, late, seen, pc>>
  BY DEF Vivify, Evict, Finished, vars
<1> QED
  BY <1>1, <1>2, <1>3, <1>4, <1>5, <1>6, <1>7 DEF Next

(* What a write built from look s stores if the server applies it.         *)
LEMMA UpdateWrites ==
    ASSUME TypeOK, Versions, NEW c \in Calls, Execute(updateCommand(c, seen[c].of)),
           Applied(updateCommand(c, seen[c].of))
    PROVE  item'.val = (IF Found(item) THEN item.val ELSE <<>>) \o <<c>>
<1> DEFINE s == seen[c].of
           next == (IF Found(s) THEN s.val ELSE <<>>) \o <<c>>
           cmd == updateCommand(c, s)
<1>1. item \in Items /\ s \in Items /\ Versioned(s)
  BY DEF TypeOK, Looks, Versions
<1>2. cmd.op = "ms" /\ cmd.val = next /\ cmd.mode \in {"set", "add"}
  BY DEF updateCommand, Storing
<1>3. item' = Stored(next, FALSE)
  BY <1>2 DEF Execute, After
<1>4. item'.val = next
  BY <1>3 DEF Stored
<1>5. CASE s.has
  <2>1. cmd.cas = s.cas /\ s.cas > 0
    BY <1>1, <1>5 DEF updateCommand, Storing, Versioned
  <2>2. item.has /\ item.cas = s.cas
    BY <1>2, <2>1 DEF Applied, Code
  <2>3. item.val = s.val /\ item.stale = s.stale
    BY <1>1, <1>5, <2>2 DEF Versioned
  <2> QED
    BY <1>4, <1>5, <2>2, <2>3 DEF Found
<1>6. CASE ~s.has
  <2>1. cmd.cas = 0 /\ cmd.mode = "add"
    BY <1>6 DEF updateCommand, Storing
  <2>2. ~item.has
    BY <1>2, <2>1 DEF Applied, Code
  <2> QED
    BY <1>4, <1>6, <2>2 DEF Found
<1> QED
  BY <1>5, <1>6

AllLeftovers == \A d \in Calls : Leftover(d)

(* Update never loses a concurrent write, for every number of calls and    *)
(* attempts and over writes that are applied after Update gave up on them: *)
(* what it stores extends the value that is fresh when it is stored        *)
(* (update's compare-and-swap, or add on a miss).                          *)
THEOREM UpdateIsAtomic == Spec => UpdateAtomic
<1> DEFINE Step == \A c \in Calls : kind[c] = "update" /\ effects'[c] # effects[c] =>
                      item'.val = (IF Found(item) THEN item.val ELSE <<>>) \o <<c>>
<1>1. Init => Versions /\ AllLeftovers
  BY DEF Init, Versions, Versioned, Absent, Unread, AllLeftovers, Leftover, NoCmd
<1>2. TypeOK /\ TypeOK' /\ AllHonest /\ Versions /\ AllLeftovers /\ [Next]_vars
        => Versions' /\ AllLeftovers'
  BY VersionsNext, LeftoverNext DEF AllHonest, AllLeftovers
<1>3. TypeOK /\ Versions /\ AllLeftovers /\ [Next]_vars => [Step]_vars
  <2> SUFFICES ASSUME TypeOK, Versions, AllLeftovers, Next, NEW c \in Calls,
                      kind[c] = "update", effects'[c] # effects[c]
               PROVE  item'.val = (IF Found(item) THEN item.val ELSE <<>>) \o <<c>>
    OBVIOUS
  <2>1. Mutate(c) \/ Spoil(c) \/ Late(c)
    <3>1. \E d \in Calls : Mutate(d) \/ Spoil(d) \/ Late(d)
      BY DEF Next, Start, Read, Abort, Fail, Lose, GiveBack, GiveBackFails, Vivify,
             Evict, Finished, vars
    <3>2. PICK d \in Calls : Mutate(d) \/ Spoil(d) \/ Late(d)
      BY <3>1
    <3>3. d # c => effects'[c] = effects[c]
      BY <3>2 DEF TypeOK, Mutate, Spoil, Late, Record
    <3> QED
      BY <3>2, <3>3
  <2>2. CASE Mutate(c) \/ Spoil(c)
    <3>1. Execute(Command(c)) /\ Applied(Command(c))
      BY <2>2 DEF TypeOK, Mutate, Spoil, Record
    <3>2. pc[c] = "write"
      <4>1. Command(c).op # "mg"
        BY <3>1, ReadsDoNotApply
      <4> QED
        BY <2>2, <4>1 DEF Mutate, Spoil, Command, Reading
    <3>3. Command(c) = updateCommand(c, seen[c].of)
      BY <3>2 DEF Command
    <3> QED
      BY <3>1, <3>3, UpdateWrites
  <2>3. CASE Late(c)
    <3>1. Execute(late[c]) /\ Applied(late[c])
      BY <2>3 DEF TypeOK, Late, Record
    <3>2. late[c].op \notin {"none", "mg"}
      BY <2>3, <3>1, ReadsDoNotApply DEF Late
    <3>3. late[c] = updateCommand(c, seen[c].of)
      BY <3>2 DEF AllLeftovers, Leftover, WriteCmd
    <3> QED
      BY <3>1, <3>3, UpdateWrites
  <2> QED
    BY <2>1, <2>2, <2>3
<1> QED
  BY <1>1, <1>2, <1>3, TypeCorrect, HonestInvariant, PTL DEF Spec, UpdateAtomic

-----------------------------------------------------------------------------
(* Where a call is, and what it has *)

Placed(c) ==
    /\ pc[c] = "idle" => ~seen[c].won
    /\ pc[c] = "read" => kind[c] \in Loops \cup Reads
    /\ pc[c] = "write" => kind[c] \in Verbs \ Reads
    /\ pc[c] = "write" /\ kind[c] = "take" => seen[c].of.val # <<>>
    /\ pc[c] = "write" /\ seen[c].won => kind[c] \in Loops
    /\ seen[c].won => seen[c].of.has
    /\ seen[c].of.val # <<>> => seen[c].of.has
    /\ late[c].op \notin {"none", "mg"} =>
         kind[c] \in Verbs \ Reads /\ (kind[c] = "take" => seen[c].of.val # <<>>)
    /\ giveback[c] # 0 => pc[c] = "done"

AllPlaced == \A c \in Calls : Placed(c)

(* An item that is not there has no value and no marks. *)
Present == (item.val # <<>> \/ item.stale) => item.has

Acts(c) ==
    \/ \E k \in Kinds : Start(c, k)
    \/ Read(c) \/ Abort(c) \/ Mutate(c) \/ Fail(c) \/ Lose(c) \/ Spoil(c)
    \/ Late(c) \/ GiveBack(c) \/ GiveBackFails(c)

SameRow(d) ==
    /\ kind'[d] = kind[d] /\ pc'[d] = pc[d] /\ seen'[d] = seen[d] /\ attempt'[d] = attempt[d]
    /\ ret'[d] = ret[d] /\ late'[d] = late[d] /\ giveback'[d] = giveback[d]
    /\ effects'[d] = effects[d] /\ haul'[d] = haul[d]

LEMMA OtherCall ==
    ASSUME TypeOK, NEW c \in Calls, Acts(c), NEW d \in Calls, d # c
    PROVE  SameRow(d)
<1>1. ASSUME NEW k \in Kinds, Start(c, k) PROVE SameRow(d)
  BY <1>1 DEF TypeOK, Start, Return, SameRow
<1>2. CASE Read(c)
  BY <1>2 DEF TypeOK, Read, Return, SameRow
<1>3. CASE Abort(c)
  BY <1>3 DEF TypeOK, Abort, Return, SameRow
<1>7. CASE Fail(c) \/ Lose(c) \/ Spoil(c)
  <2>1. kind' = kind /\ seen' = seen /\ attempt' = attempt /\ giveback' = giveback
    BY <1>7, FailedCall
  <2>2. pc'[d] = pc[d] /\ ret'[d] = ret[d]
    BY <1>7, FailedCall DEF TypeOK
  <2>3. late'[d] = late[d] /\ effects'[d] = effects[d] /\ haul'[d] = haul[d]
    BY <1>7 DEF TypeOK, Fail, Lose, Spoil, Record
  <2> QED
    BY <2>1, <2>2, <2>3 DEF SameRow
<1>4. CASE Mutate(c)
  BY <1>4 DEF TypeOK, Mutate, Record, Return, SameRow
<1>5. CASE Late(c)
  BY <1>5 DEF TypeOK, Late, Record, SameRow
<1>6. CASE GiveBack(c) \/ GiveBackFails(c)
  BY <1>6 DEF TypeOK, GiveBack, GiveBackFails, SameRow
<1> QED
  BY <1>1, <1>2, <1>3, <1>4, <1>5, <1>6, <1>7 DEF Acts

(* The other steps leave every call alone. *)
LEMMA NoCall ==
    ASSUME Vivify \/ Evict \/ Finished \/ UNCHANGED vars, NEW d \in Calls
    PROVE  SameRow(d) /\ UNCHANGED <<kind, dead, effects, haul>>
BY DEF Vivify, Evict, Finished, vars, SameRow

LEMMA NextActs ==
    [Next]_vars => \/ \E c \in Calls : Acts(c)
                   \/ Vivify \/ Evict \/ Finished \/ UNCHANGED vars
BY DEF Next, Acts

LEMMA PlacedSame ==
    ASSUME NEW d \in Calls, Placed(d), SameRow(d)
    PROVE  Placed(d)'
BY DEF Placed, SameRow

(* A read only takes the token of a stale item. *)
LEMMA ReadItem ==
    ASSUME TypeOK, NEW cmd, cmd.op = "mg", Execute(cmd)
    PROVE  /\ item'.has = item.has /\ item'.val = item.val /\ item'.cas = item.cas
           /\ item'.stale = item.stale
           /\ item'.sent <=> item.sent \/ Won(item)
           /\ UNCHANGED <<clock, dead>>
<1> DEFINE w == item.sent \/ Won(item)
<1>1. item' = [item EXCEPT !.sent = w] /\ clock' = clock /\ dead' = dead
  BY ReadsDoNotApply DEF Execute, After
<1>2. w \in BOOLEAN /\ item \in Items
  BY ItemFields DEF TypeOK, Won
<1> HIDE DEF w
<1>3. /\ item'.has = item.has /\ item'.val = item.val /\ item'.cas = item.cas
      /\ item'.stale = item.stale /\ item'.sent = w
  BY <1>1, <1>2 DEF Items
<1> QED
  BY <1>1, <1>2, <1>3 DEF w

LEMMA PlacedCall ==
    ASSUME TypeOK, Present, NEW c \in Calls, Acts(c), Placed(c), Honest(c)
    PROVE  Placed(c)'
<1>1. ASSUME NEW k \in Kinds, Start(c, k) PROVE Placed(c)'
  <2>1. /\ pc[c] = "idle" /\ kind'[c] = k /\ k \in Verbs
        /\ pc'[c] \in {"done", "read", "write"}
        /\ pc'[c] = "write" => k \notin Loops \cup Reads
        /\ pc'[c] = "read" => k \in Loops \cup Reads
        /\ UNCHANGED <<seen, late, giveback>>
    BY <1>1, VerbsAssumption DEF TypeOK, Start, Return
  <2>2. ~seen[c].won /\ late[c].op = "none" /\ giveback[c] = 0
    BY <2>1 DEF Placed, Honest
  <2> QED
    BY <2>1, <2>2 DEF Placed, Loops
<1>2. CASE Read(c)
  <2>1. /\ pc[c] = "read" /\ UNCHANGED <<kind, late>>
        /\ seen'[c] = [of |-> item', won |-> Won(item)]
        /\ giveback'[c] \in {giveback[c], item.cas}
        /\ giveback'[c] # giveback[c] =>
             kind[c] \in Reads \/ (kind[c] = "take" /\ item.val = <<>>)
        /\ pc'[c] = IF kind[c] \in Reads \/ (kind[c] = "take" /\ item.val = <<>>)
                    THEN "done" ELSE "write"
    BY <1>2 DEF TypeOK, Read, Return, returnStaleWin
  <2>2. item'.has = item.has /\ item'.val = item.val
    BY <1>2, ReadItem DEF Read, Reading
  <2>3. seen'[c].of = item' /\ seen'[c].won = Won(item)
    BY <2>1
  <2>4. giveback[c] = 0 /\ late[c].op = "none"
    BY <2>1 DEF Placed, Honest
  <2>5. pc'[c] \in {"done", "write"} /\ (pc'[c] = "write" => giveback'[c] = 0)
    BY <2>1, <2>4
  <2>6. kind[c] \in Loops \cup Reads
    BY <2>1 DEF Placed
  <2> QED
    BY <2>1, <2>2, <2>3, <2>4, <2>5, <2>6 DEF Placed, Present, Won, Loops, Verbs, Reads
<1>3. CASE Abort(c) \/ Fail(c) \/ Spoil(c)
  <2>1. pc[c] \in {"read", "write"} /\ pc'[c] = "done" /\ UNCHANGED <<kind, seen, late>>
    BY <1>3, FailedCall DEF TypeOK, Abort, Fail, Spoil, Return
  <2>2. late[c].op = "none"
    BY <2>1 DEF Honest
  <2> QED
    BY <2>1, <2>2 DEF Placed
<1>4. CASE Lose(c)
  <2>1. /\ pc[c] \in {"read", "write"} /\ pc'[c] = "done" /\ UNCHANGED <<kind, seen, giveback>>
        /\ late'[c] = Command(c)
    BY <1>4, FailedCall DEF TypeOK, Lose
  <2>2. pc[c] = "read" => Command(c).op = "mg"
    BY DEF Command, Reading
  <2> QED
    BY <2>1, <2>2 DEF Placed
<1>5. CASE Mutate(c)
  <2>1. /\ pc[c] = "write" /\ pc'[c] \in {"done", "read"}
        /\ pc'[c] = "read" => kind[c] \in Loops
        /\ UNCHANGED <<kind, seen, late, giveback>>
    BY <1>5 DEF TypeOK, Mutate, Return
  <2> QED
    BY <2>1 DEF Placed
<1>6. CASE Late(c)
  <2>1. UNCHANGED <<kind, pc, seen, giveback>> /\ late'[c].op = "none"
    BY <1>6 DEF TypeOK, Late, NoCmd
  <2> QED
    BY <2>1 DEF Placed
<1>7. CASE GiveBack(c) \/ GiveBackFails(c)
  <2>1. UNCHANGED <<kind, pc, seen, late>> /\ giveback[c] > 0 /\ giveback'[c] \in {0, -1}
    BY <1>7 DEF TypeOK, GiveBack, GiveBackFails
  <2> QED
    BY <2>1 DEF Placed
<1> QED
  BY <1>1, <1>2, <1>3, <1>4, <1>5, <1>6, <1>7 DEF Acts


-----------------------------------------------------------------------------
(* What a mutation does when it is applied *)

LEMMA ElemsEmpty == Elems(<<>>) = {}
BY DEF Elems

LEMMA ElemsOne == ASSUME NEW c PROVE Elems(<<c>>) = {c}
BY DEF Elems

LEMMA ElemsConcat ==
    ASSUME NEW s \in Seq(Calls), NEW t \in Seq(Calls)
    PROVE  Elems(s \o t) = Elems(s) \cup Elems(t)
<1>1. /\ Len(s \o t) = Len(s) + Len(t) /\ Len(s) \in Nat /\ Len(t) \in Nat
      /\ \A i \in 1..Len(s) + Len(t) :
           (s \o t)[i] = IF i <= Len(s) THEN s[i] ELSE t[i - Len(s)]
  BY ConcatProperties, LenProperties
<1>2. ASSUME NEW x \in Elems(s \o t) PROVE x \in Elems(s) \cup Elems(t)
  <2>1. PICK i \in 1..Len(s) + Len(t) : x = (s \o t)[i]
    BY <1>1 DEF Elems
  <2>2. CASE i <= Len(s)
    <3>1. i \in 1..Len(s) /\ x = s[i]
      BY <1>1, <2>1, <2>2
    <3> QED
      BY <3>1 DEF Elems
  <2>3. CASE ~(i <= Len(s))
    <3>1. i - Len(s) \in 1..Len(t) /\ x = t[i - Len(s)]
      BY <1>1, <2>1, <2>3
    <3> QED
      BY <3>1 DEF Elems
  <2> QED
    BY <2>2, <2>3
<1>3. ASSUME NEW x \in Elems(s) PROVE x \in Elems(s \o t)
  <2>1. PICK i \in 1..Len(s) : x = s[i]
    BY DEF Elems
  <2>2. i \in 1..Len(s \o t) /\ x = (s \o t)[i]
    BY <1>1, <2>1
  <2> QED
    BY <2>2 DEF Elems
<1>4. ASSUME NEW x \in Elems(t) PROVE x \in Elems(s \o t)
  <2>1. PICK i \in 1..Len(t) : x = t[i]
    BY DEF Elems
  <2>2. i + Len(s) \in 1..Len(s \o t) /\ (i + Len(s)) - Len(s) = i /\ ~(i + Len(s) <= Len(s))
    BY <1>1
  <2>3. x = (s \o t)[i + Len(s)]
    BY <1>1, <2>1, <2>2
  <2> QED
    BY <2>2, <2>3 DEF Elems
<1> QED
  BY <1>2, <1>3, <1>4

(* What the item becomes, verb by verb. *)
Outcome(c) ==
    CASE kind[c] = "update"               ->
           /\ item'.has /\ ~item'.stale /\ ~item'.sent
           /\ item'.val = (IF Found(item) THEN item.val ELSE <<>>) \o <<c>>
      [] kind[c] \in {"take", "delete"}   -> item' = Absent
      [] kind[c] = "invalidate"           ->
           item.has /\ item'.has /\ item'.stale /\ ~item'.sent /\ item'.val = item.val
      [] kind[c] \in {"append", "prepend"} ->
           /\ item'.has /\ (~item.stale => ~item'.stale)
           /\ item'.val \in {item.val \o <<c>>, <<c>> \o item.val}
      [] OTHER                            ->
           /\ item'.has /\ ~item'.stale /\ ~item'.sent /\ item'.val = <<c>>
           /\ kind[c] = "add" => ~item.has

LEMMA ConcatFields ==
    ASSUME TypeOK, NEW v, NEW it \in Concat(item, v)
    PROVE  it.has /\ it.val = v /\ (~item.stale => ~it.stale)
<1>1. item \in Items
  BY DEF TypeOK
<1>2. CASE it = Stored(v, FALSE)
  BY <1>2 DEF Stored
<1>3. CASE it = [item EXCEPT !.has = TRUE, !.val = v, !.cas = clock + 1]
  BY <1>1, <1>3 DEF Items
<1> QED
  BY <1>2, <1>3 DEF Concat

LEMMA WriteOutcome ==
    ASSUME TypeOK, Versions, NEW c \in Calls, kind[c] \in Verbs \ Reads,
           Execute(WriteCmd(c)), Applied(WriteCmd(c))
    PROVE  /\ Outcome(c)
           /\ clock' = clock + 1
           /\ dead' = IF kind[c] = "invalidate" THEN dead \cup Elems(item.val) ELSE dead
           /\ WriteCmd(c).op # "mg"
           /\ WriteCmd(c).mode = "delete" <=> kind[c] \in {"take", "delete"}
<1>0. item \in Items /\ clock \in Nat
  BY DEF TypeOK
<1>1. WriteCmd(c).op \in {"ms", "md"}
  BY DEF WriteCmd, updateCommand, takeCommand, Storing, Deleting
<1>2. item' \in After(WriteCmd(c), item) /\ clock' = clock + 1
  BY <1>1 DEF Execute
<1>3. CASE kind[c] = "update"
  <2>1. WriteCmd(c) = updateCommand(c, seen[c].of)
    BY <1>3 DEF WriteCmd
  <2>2. /\ updateCommand(c, seen[c].of).mode \in {"set", "add"}
        /\ updateCommand(c, seen[c].of).op = "ms"
    BY DEF updateCommand, Storing
  <2>3. item' = Stored(updateCommand(c, seen[c].of).val, FALSE) /\ dead' = dead
    BY <1>2, <2>1, <2>2 DEF After, Execute
  <2>4. item'.val = (IF Found(item) THEN item.val ELSE <<>>) \o <<c>>
    BY <2>1, UpdateWrites
  <2>5. item'.has /\ ~item'.stale /\ ~item'.sent
    BY <2>3 DEF Stored
  <2> QED
    BY <1>2, <1>3, <2>1, <2>2, <2>3, <2>4, <2>5 DEF Outcome
<1>4. CASE kind[c] \in {"take", "delete"}
  <2>1. WriteCmd(c).mode = "delete" /\ WriteCmd(c).op = "md"
    BY <1>4 DEF WriteCmd, takeCommand, Deleting
  <2>2. item' = Absent /\ dead' = dead
    BY <1>2, <2>1 DEF After, Execute
  <2> QED
    BY <1>2, <1>4, <2>1, <2>2 DEF Outcome
<1>5. CASE kind[c] = "invalidate"
  <2>1. WriteCmd(c) = Deleting("invalidate", 0)
    BY <1>5 DEF WriteCmd
  <2>2. /\ WriteCmd(c).mode = "invalidate" /\ WriteCmd(c).op = "md" /\ WriteCmd(c).cas = 0
    BY <2>1 DEF Deleting
  <2>3. /\ item' = [item EXCEPT !.stale = TRUE, !.sent = FALSE, !.cas = clock + 1]
        /\ dead' = dead \cup Elems(item.val) /\ item.has
    BY <1>2, <2>2 DEF After, Execute, Applied, Code
  <2>4. item'.has /\ item'.stale /\ ~item'.sent /\ item'.val = item.val
    BY <1>0, <2>3 DEF Items
  <2> QED
    BY <1>2, <1>5, <2>2, <2>3, <2>4 DEF Outcome
<1>6. CASE kind[c] \in {"append", "prepend"}
  <2>1. WriteCmd(c) = Storing(kind[c], 0, <<c>>)
    BY <1>6 DEF WriteCmd
  <2>2. WriteCmd(c).mode = kind[c] /\ WriteCmd(c).op = "ms" /\ WriteCmd(c).val = <<c>>
    BY <2>1 DEF Storing
  <2>3. item' \in Concat(item, item.val \o <<c>>) \/ item' \in Concat(item, <<c>> \o item.val)
    BY <1>2, <1>6, <2>2 DEF After
  <2>4. dead' = dead
    BY <1>6, <2>2 DEF Execute
  <2>5. /\ item'.has /\ (~item.stale => ~item'.stale)
        /\ item'.val \in {item.val \o <<c>>, <<c>> \o item.val}
    BY <2>3, ConcatFields
  <2> QED
    BY <1>2, <1>6, <2>2, <2>4, <2>5 DEF Outcome
<1>7. CASE kind[c] \in {"set", "add", "replace"}
  <2>1. WriteCmd(c) = Storing(kind[c], 0, <<c>>)
    BY <1>7 DEF WriteCmd
  <2>2. /\ WriteCmd(c).mode = kind[c] /\ WriteCmd(c).op = "ms" /\ WriteCmd(c).val = <<c>>
        /\ WriteCmd(c).cas = 0
    BY <2>1 DEF Storing
  <2>3. item' = Stored(<<c>>, FALSE) /\ dead' = dead
    BY <1>2, <1>7, <2>2 DEF After, Execute
  <2>4. kind[c] = "add" => ~item.has
    BY <2>2 DEF Applied, Code
  <2>5. item'.has /\ ~item'.stale /\ ~item'.sent /\ item'.val = <<c>>
    BY <2>3 DEF Stored
  <2> QED
    BY <1>2, <1>7, <2>2, <2>3, <2>4, <2>5 DEF Outcome
<1> QED
  BY <1>3, <1>4, <1>5, <1>6, <1>7 DEF Verbs, Reads


-----------------------------------------------------------------------------
(* What a step does to the item *)

RowInv == TypeOK /\ AllHonest /\ Versions /\ AllLeftovers /\ AllPlaced /\ Present

(* A read, possibly one its caller has given up on. *)
Looked ==
    /\ item'.has = item.has /\ item'.val = item.val /\ item'.cas = item.cas
    /\ item'.stale = item.stale
    /\ UNCHANGED <<clock, dead, effects, haul>>

(* The mutation of call c is applied, in time, unheard of, or late. *)
Wrote(c) ==
    /\ Mutate(c) \/ Spoil(c) \/ Late(c)
    /\ kind[c] \in Verbs \ Reads /\ Outcome(c) /\ UNCHANGED <<kind, env>>
    /\ clock' = clock + 1
    /\ dead' = IF kind[c] = "invalidate" THEN dead \cup Elems(item.val) ELSE dead
    /\ effects' = [effects EXCEPT ![c] = effects[c] + 1]
    /\ haul' = [haul EXCEPT ![c] = IF kind[c] \in {"take", "delete"} THEN item.val ELSE haul[c]]
    /\ kind[c] \in Mutators => effects[c] = 0
    /\ kind[c] = "take" => item.val = seen[c].of.val

(* The token of call c goes back. *)
Returned(c) ==
    /\ giveback[c] > 0 /\ item.has /\ item.cas = giveback[c]
    /\ item'.has /\ item'.stale /\ ~item'.sent /\ item'.val = item.val
    /\ dead' = dead \cup Elems(item.val) /\ UNCHANGED <<effects, haul>>

LEMMA WroteBy ==
    ASSUME RowInv, NEW c \in Calls, Mutate(c) \/ Spoil(c) \/ Late(c), kind[c] \in Verbs \ Reads,
           kind[c] = "take" => seen[c].of.val # <<>>,
           kind[c] \in Mutators => effects[c] = 0,
           Execute(WriteCmd(c)), Record(c, WriteCmd(c)), Applied(WriteCmd(c))
    PROVE  Wrote(c)
<1>0. TypeOK /\ Versions /\ Placed(c)
  BY DEF RowInv, AllPlaced
<1>1. /\ Outcome(c) /\ clock' = clock + 1
      /\ dead' = IF kind[c] = "invalidate" THEN dead \cup Elems(item.val) ELSE dead
      /\ WriteCmd(c).mode = "delete" <=> kind[c] \in {"take", "delete"}
  BY <1>0, WriteOutcome
<1>2. /\ effects' = [effects EXCEPT ![c] = effects[c] + 1]
      /\ haul' = [haul EXCEPT ![c] = IF kind[c] \in {"take", "delete"} THEN item.val ELSE haul[c]]
  BY <1>1 DEF Record
<1>3. kind[c] = "take" => item.val = seen[c].of.val
  <2> SUFFICES ASSUME kind[c] = "take" PROVE item.val = seen[c].of.val
    OBVIOUS
  <2>1. seen[c].of.has /\ seen[c].of \in Items
    BY <1>0 DEF Placed, TypeOK, Looks
  <2>2. /\ WriteCmd(c) = takeCommand(seen[c].of)
        /\ seen[c].of.cas > 0
    BY <1>0, <2>1 DEF WriteCmd, Versions, Versioned
  <2>3. item.has /\ item.cas = seen[c].of.cas
    BY <2>2 DEF takeCommand, Deleting, Applied, Code
  <2> QED
    BY <1>0, <2>1, <2>3 DEF Versions, Versioned
<1>4. UNCHANGED <<kind, env>>
  BY DEF Mutate, Spoil, Late
<1> QED
  BY <1>1, <1>2, <1>3, <1>4 DEF Wrote

LEMMA NotApplied ==
    ASSUME TypeOK, NEW c \in Calls, NEW cmd, cmd.op # "mg", ~Applied(cmd), Execute(cmd),
           Record(c, cmd)
    PROVE  UNCHANGED <<item, clock, dead, effects, haul>>
BY DEF Execute, Record, TypeOK

LEMMA StepKinds ==
    ASSUME RowInv, [Next]_vars
    PROVE  \/ Looked \/ Vivify \/ Evict
           \/ \E c \in Calls : Wrote(c) \/ (GiveBack(c) /\ Returned(c))
           \/ UNCHANGED <<item, clock, dead, effects, haul>>
<1>0. TypeOK
  BY DEF RowInv
<1>1. ASSUME NEW c \in Calls, Read(c) PROVE Looked
  <2>1. Execute(Reading) /\ UNCHANGED <<effects, haul>>
    BY <1>1 DEF Read
  <2> QED
    BY <1>0, <2>1, ReadItem DEF Reading, Looked
<1>2. ASSUME NEW c \in Calls, Mutate(c) \/ Spoil(c), pc[c] = "write"
      PROVE  Wrote(c) \/ UNCHANGED <<item, clock, dead, effects, haul>>
  <2>1. /\ Execute(Command(c)) /\ Record(c, Command(c)) /\ Placed(c) /\ Honest(c)
    BY <1>2 DEF Mutate, Spoil, RowInv, AllPlaced, AllHonest
  <2>2. Command(c) = WriteCmd(c)
    BY <1>2 DEF Command, WriteCmd
  <2>3. CASE Applied(WriteCmd(c))
    BY <1>2, <2>1, <2>2, <2>3, WroteBy DEF Placed, Honest
  <2>4. CASE ~Applied(WriteCmd(c))
    <3>1. WriteCmd(c).op # "mg"
      BY DEF WriteCmd, updateCommand, takeCommand, Storing, Deleting
    <3> QED
      BY <1>0, <2>1, <2>2, <2>4, <3>1, NotApplied
  <2> QED
    BY <2>3, <2>4
<1>7. ASSUME NEW c \in Calls, Spoil(c), pc[c] = "read" PROVE Looked
  <2>1. Execute(Reading) /\ Record(c, Reading)
    BY <1>7 DEF Spoil, Command
  <2>2. UNCHANGED <<effects, haul>>
    BY <1>0, <2>1, ReadsDoNotApply DEF Record, Reading, TypeOK
  <2> QED
    BY <1>0, <2>1, <2>2, ReadItem DEF Reading, Looked
<1>8. ASSUME NEW c \in Calls, Mutate(c) \/ Spoil(c) PROVE pc[c] \in {"read", "write"}
                                                       /\ (Mutate(c) => pc[c] = "write")
  BY <1>8 DEF Mutate, Spoil
<1>3. ASSUME NEW c \in Calls, Late(c)
      PROVE  Looked \/ Wrote(c) \/ UNCHANGED <<item, clock, dead, effects, haul>>
  <2>1. /\ late[c].op # "none" /\ Placed(c) /\ Honest(c) /\ Leftover(c)
        /\ \/ Execute(late[c]) /\ Record(c, late[c])
           \/ UNCHANGED <<item, clock, dead, effects, haul>>
    BY <1>3 DEF Late, RowInv, AllPlaced, AllHonest, AllLeftovers
  <2>2. CASE Execute(late[c]) /\ Record(c, late[c]) /\ late[c].op = "mg"
    <3>1. UNCHANGED <<effects, haul>>
      BY <1>0, <2>2, ReadsDoNotApply DEF Record, TypeOK
    <3> QED
      BY <1>0, <2>2, <3>1, ReadItem DEF Looked
  <2>3. CASE Execute(late[c]) /\ Record(c, late[c]) /\ late[c].op # "mg"
    <3>1. late[c] = WriteCmd(c) /\ pc[c] = "done"
      BY <2>1, <2>3 DEF Leftover
    <3>2. /\ kind[c] \in Verbs \ Reads /\ (kind[c] = "take" => seen[c].of.val # <<>>)
          /\ kind[c] \in Mutators => effects[c] = 0
      BY <2>1, <2>3, <3>1 DEF Placed, Honest
    <3>3. CASE Applied(WriteCmd(c))
      BY <1>3, <2>3, <3>1, <3>2, <3>3, WroteBy
    <3>4. CASE ~Applied(WriteCmd(c))
      BY <1>0, <2>3, <3>1, <3>4, NotApplied
    <3> QED
      BY <3>3, <3>4
  <2> QED
    BY <2>1, <2>2, <2>3
<1>4. ASSUME NEW c \in Calls, GiveBack(c)
      PROVE  Returned(c) \/ UNCHANGED <<item, clock, dead, effects, haul>>
  <2> DEFINE cmd == Deleting("invalidate", giveback[c])
  <2>1. /\ giveback[c] > 0 /\ Execute(cmd) /\ UNCHANGED <<effects, haul>>
        /\ cmd.op = "md" /\ cmd.mode = "invalidate" /\ cmd.cas = giveback[c]
    BY <1>4 DEF GiveBack, Deleting
  <2> HIDE DEF cmd
  <2>2. CASE ~Applied(cmd)
    BY <2>1, <2>2 DEF Execute
  <2>3. CASE Applied(cmd)
    <3>1. item.has /\ item.cas = giveback[c]
      BY <2>1, <2>3 DEF Applied, Code
    <3>2. /\ item' = [item EXCEPT !.stale = TRUE, !.sent = FALSE, !.cas = clock + 1]
          /\ dead' = dead \cup Elems(item.val)
      BY <2>1, <2>3 DEF After, Execute
    <3>3. item'.has /\ item'.stale /\ ~item'.sent /\ item'.val = item.val
      BY <1>0, <3>1, <3>2 DEF Items, TypeOK
    <3> QED
      BY <2>1, <3>1, <3>2, <3>3 DEF Returned
  <2> QED
    BY <2>2, <2>3
<1>5. ASSUME NEW c \in Calls,
             (\E k \in Kinds : Start(c, k)) \/ Abort(c) \/ Fail(c) \/ Lose(c) \/ GiveBackFails(c)
      PROVE  UNCHANGED <<item, clock, dead, effects, haul>>
  BY <1>5 DEF Start, Abort, Fail, Lose, GiveBackFails
<1>6. Finished \/ UNCHANGED vars => UNCHANGED <<item, clock, dead, effects, haul>>
  BY DEF Finished, vars
<1> QED
  BY <1>1, <1>2, <1>3, <1>4, <1>5, <1>6, <1>7, <1>8 DEF Next

LEMMA PresentStep == RowInv /\ [Next]_vars => Present'
<1> SUFFICES ASSUME RowInv, [Next]_vars PROVE Present'
  OBVIOUS
<1>0. Present /\ TypeOK
  BY DEF RowInv
<1>1. CASE Looked
  BY <1>0, <1>1 DEF Looked, Present
<1>2. ASSUME NEW c \in Calls, Wrote(c) PROVE Present'
  BY <1>2 DEF Wrote, Outcome, Absent, Present
<1>3. ASSUME NEW c \in Calls, Returned(c) PROVE Present'
  BY <1>3 DEF Returned, Present
<1>4. CASE Vivify \/ Evict
  BY <1>4 DEF Vivify, Evict, Stored, Absent, Present
<1>5. CASE UNCHANGED item
  BY <1>0, <1>5 DEF Present
<1> QED
  BY <1>1, <1>2, <1>3, <1>4, <1>5, StepKinds

LEMMA RowAlways == Spec => []RowInv
<1> DEFINE Rest == Versions /\ AllLeftovers /\ AllPlaced /\ Present
<1>1. Init => Rest
  <2>1. Init => Versions /\ AllLeftovers /\ Present
    BY DEF Init, Versions, Versioned, Absent, Unread, AllLeftovers, Leftover, NoCmd, Present
  <2>2. Init => AllPlaced
    BY DEF Init, AllPlaced, Placed, Unread, Absent, NoCmd
  <2> QED
    BY <2>1, <2>2
<1>2. TypeOK /\ TypeOK' /\ AllHonest /\ Rest /\ [Next]_vars => Rest'
  <2> SUFFICES ASSUME TypeOK, TypeOK', AllHonest, Rest, [Next]_vars PROVE Rest'
    OBVIOUS
  <2>1. Versions' /\ AllLeftovers'
    BY VersionsNext, LeftoverNext DEF AllHonest, AllLeftovers
  <2>2. Present'
    BY PresentStep DEF RowInv
  <2>3. ASSUME NEW d \in Calls PROVE Placed(d)'
    <3>0. Placed(d) /\ Honest(d)
      BY DEF AllPlaced, AllHonest
    <3>1. ASSUME NEW c \in Calls, Acts(c) PROVE Placed(d)'
      BY <3>0, <3>1, PlacedCall, OtherCall, PlacedSame
    <3> QED
      BY <3>0, <3>1, NextActs, NoCall, PlacedSame
  <2> QED
    BY <2>1, <2>2, <2>3 DEF AllPlaced
<1> QED
  BY <1>1, <1>2, TypeCorrect, HonestInvariant, PTL DEF Spec, RowInv

-----------------------------------------------------------------------------
(* Conflicts *)

(* For any number of concurrent calls: a turn of Update or Take fails only *)
(* when the entry changed after its read, so ErrConflict is never reported *)
(* to a caller nobody competed with (update, Take and updateAttempts).     *)
THEOREM ConflictsReal == Spec => ConflictsAreReal
<1> DEFINE Real == \A c \in Calls : attempt'[c] # attempt[c] =>
                     [item EXCEPT !.sent = TRUE] # [seen[c].of EXCEPT !.sent = TRUE]
<1>1. RowInv /\ [Next]_vars => [Real]_vars
  <2> SUFFICES ASSUME RowInv, Next, NEW c \in Calls, attempt'[c] # attempt[c],
                      [item EXCEPT !.sent = TRUE] = [seen[c].of EXCEPT !.sent = TRUE]
               PROVE  FALSE
    OBVIOUS
  <2>0. TypeOK /\ Placed(c) /\ item \in Items /\ seen[c].of \in Items /\ Versions
    BY DEF RowInv, AllPlaced, TypeOK, Looks
  <2> DEFINE s == seen[c].of
  <2>1. item.has = s.has /\ item.val = s.val /\ item.cas = s.cas /\ item.stale = s.stale
    BY <2>0 DEF Items
  <2>2. PICK d \in Calls : Mutate(d)
    BY DEF Next, Start, Read, Abort, Fail, Lose, Spoil, Late, GiveBack, GiveBackFails,
           Vivify, Evict, Finished, vars
  <2>3. d = c
    BY <2>0, <2>2, OtherCall DEF Acts, SameRow
  <2>4. /\ pc[c] = "write" /\ kind[c] \in Loops /\ ~Applied(WriteCmd(c))
    BY <2>2, <2>3 DEF Mutate, Command, WriteCmd
  <2>5. CASE kind[c] = "update" /\ s.has
    <3>1. WriteCmd(c) = Storing("set", s.cas, (IF Found(s) THEN s.val ELSE <<>>) \o <<c>>)
      BY <2>5 DEF WriteCmd, updateCommand
    <3>2. WriteCmd(c).op = "ms" /\ WriteCmd(c).cas = s.cas /\ s.cas > 0
      BY <2>0, <2>5, <3>1 DEF Storing, Versions, Versioned
    <3> QED
      BY <2>1, <2>4, <2>5, <3>2 DEF Applied, Code
  <2>6. CASE kind[c] = "update" /\ ~s.has
    <3>1. WriteCmd(c) = Storing("add", 0, (IF Found(s) THEN s.val ELSE <<>>) \o <<c>>)
      BY <2>6 DEF WriteCmd, updateCommand
    <3>2. WriteCmd(c).op = "ms" /\ WriteCmd(c).cas = 0 /\ WriteCmd(c).mode = "add"
      BY <3>1 DEF Storing
    <3> QED
      BY <2>1, <2>4, <2>6, <3>2 DEF Applied, Code
  <2>7. CASE kind[c] = "take"
    <3>1. s.has /\ s.cas > 0
      BY <2>0, <2>4, <2>7 DEF Placed, Versions, Versioned
    <3>2. WriteCmd(c).op = "md" /\ WriteCmd(c).cas = s.cas
      BY <2>7 DEF WriteCmd, takeCommand, Deleting
    <3> QED
      BY <2>1, <2>4, <3>1, <3>2 DEF Applied, Code
  <2> QED
    BY <2>4, <2>5, <2>6, <2>7 DEF Loops
<1> QED
  BY <1>1, RowAlways, PTL DEF Spec, ConflictsAreReal


-----------------------------------------------------------------------------
(* Where contributions come from *)

Contributed == {c \in Calls : effects[c] > 0}

Traced ==
    /\ Elems(item.val) \subseteq Contributed /\ dead \subseteq Contributed
    /\ \A c \in Calls : Elems(haul[c]) \subseteq Contributed

LEMMA ElemsMore ==
    ASSUME NEW s \in Seq(Calls), NEW c \in Calls
    PROVE  /\ Elems(s \o <<c>>) = Elems(s) \cup {c}
           /\ Elems(<<c>> \o s) = Elems(s) \cup {c}
<1> DEFINE one == <<c>>
<1>1. one \in Seq(Calls) /\ Elems(one) = {c}
  BY ElemsOne
<1> HIDE DEF one
<1>2. Elems(s \o one) = Elems(s) \cup Elems(one) /\ Elems(one \o s) = Elems(one) \cup Elems(s)
  BY <1>1, ElemsConcat
<1>3. Elems(s \o one) = Elems(s) \cup {c} /\ Elems(one \o s) = Elems(s) \cup {c}
  BY <1>1, <1>2
<1> QED
  BY <1>3 DEF one

LEMMA WroteElems ==
    ASSUME RowInv, NEW c \in Calls, Wrote(c)
    PROVE  Elems(item'.val) \subseteq Elems(item.val) \cup {c}
<1>0. item.val \in Seq(Calls) /\ <<>> \in Seq(Calls)
  BY ItemFields DEF RowInv, TypeOK
<1>1. /\ Elems(item.val \o <<c>>) = Elems(item.val) \cup {c}
      /\ Elems(<<c>> \o item.val) = Elems(item.val) \cup {c}
      /\ Elems(<<>> \o <<c>>) = {c}
  BY <1>0, ElemsMore, ElemsEmpty
<1>2. item'.val \in {item.val, <<>>, <<c>>, item.val \o <<c>>, <<c>> \o item.val, <<>> \o <<c>>}
  BY DEF Wrote, Outcome, Absent
<1> QED
  BY <1>1, <1>2, ElemsOne, ElemsEmpty

LEMMA WroteEffects ==
    ASSUME RowInv, NEW c \in Calls, Wrote(c)
    PROVE  /\ Contributed' = Contributed \cup {c}
           /\ kind[c] \in Mutators => c \notin Contributed
           /\ \A d \in Calls : d # c => effects'[d] = effects[d] /\ haul'[d] = haul[d]
           /\ haul'[c] = IF kind[c] \in {"take", "delete"} THEN item.val ELSE haul[c]
           /\ effects'[c] = effects[c] + 1 /\ effects[c] \in Nat
BY DEF RowInv, TypeOK, Wrote, Contributed

LEMMA TracedStep == RowInv /\ Traced /\ [Next]_vars => Traced'
<1> SUFFICES ASSUME RowInv, Traced, [Next]_vars PROVE Traced'
  OBVIOUS
<1>1. ASSUME UNCHANGED <<dead, effects, haul>>, item'.val = item.val \/ item'.val = <<>>
      PROVE  Traced'
  BY <1>1, ElemsEmpty DEF Traced, Contributed
<1>2. CASE Looked \/ Vivify \/ Evict \/ UNCHANGED <<item, clock, dead, effects, haul>>
  BY <1>1, <1>2 DEF Looked, Vivify, Evict, Stored, Absent
<1>3. ASSUME NEW c \in Calls, Returned(c) PROVE Traced'
  BY <1>3 DEF Returned, Traced, Contributed
<1>4. ASSUME NEW c \in Calls, Wrote(c) PROVE Traced'
  <2>1. Elems(item'.val) \subseteq Contributed'
    BY <1>4, WroteElems, WroteEffects DEF Traced
  <2>2. dead' \subseteq Contributed'
    BY <1>4, WroteEffects DEF Traced, Wrote
  <2>3. \A d \in Calls : Elems(haul'[d]) \subseteq Contributed'
    BY <1>4, WroteEffects DEF Traced
  <2> QED
    BY <2>1, <2>2, <2>3 DEF Traced
<1> QED
  BY <1>2, <1>3, <1>4, StepKinds

(* What was done stays done. *)
LEMMA DidStays ==
    ASSUME RowInv, [Next]_vars, NEW K, Did(K)
    PROVE  Did(K)'
<1>0. TypeOK
  BY DEF RowInv
<1>1. PICK c \in Calls : kind[c] \in K /\ effects[c] > 0
  BY DEF Did
<1>2. effects'[c] >= effects[c] /\ effects[c] \in Nat /\ effects'[c] \in Nat
  <2>1. ASSUME NEW d \in Calls, Wrote(d) PROVE effects'[c] \in {effects[c], effects[c] + 1}
    BY <2>1, WroteEffects
  <2>2. effects'[c] \in {effects[c], effects[c] + 1}
    BY <2>1, StepKinds DEF Looked, Vivify, Evict, Returned
  <2> QED
    BY <1>0, <2>2 DEF TypeOK
<1>3. kind'[c] = kind[c]
  <2>1. ASSUME NEW k \in Kinds, Start(c, k) PROVE FALSE
    BY <1>1, <2>1 DEF Start, RowInv, AllHonest, Honest
  <2>2. ASSUME NEW d \in Calls, Acts(d), d # c PROVE kind'[c] = kind[c]
    BY <1>0, <2>2, OtherCall DEF SameRow
  <2>3. ASSUME Acts(c) PROVE kind'[c] = kind[c]
    BY <2>1, <2>3 DEF Acts, Read, Abort, Mutate, Fail, Lose, Spoil, Late, GiveBack,
         GiveBackFails
  <2> QED
    BY <2>2, <2>3, NextActs, NoCall
<1> QED
  BY <1>1, <1>2, <1>3 DEF Did

LEMMA WroteDid ==
    ASSUME RowInv, NEW c \in Calls, Wrote(c), NEW K, kind[c] \in K
    PROVE  Did(K)'
<1>1. effects'[c] = effects[c] + 1 /\ effects[c] \in Nat /\ kind'[c] = kind[c]
  BY WroteEffects DEF Wrote
<1>2. effects'[c] > 0
  BY <1>1
<1> QED
  BY <1>1, <1>2 DEF Did

TraceInv == RowInv /\ Traced

LEMMA TraceAlways == Spec => []TraceInv
<1>1. Init => Traced
  BY ElemsEmpty DEF Init, Traced, Contributed, Absent
<1>2. RowInv /\ Traced /\ [Next]_vars => Traced'
  BY TracedStep
<1> QED
  BY <1>1, <1>2, RowAlways, PTL DEF Spec, TraceInv

-----------------------------------------------------------------------------
(* Invalidated data stays invalid *)

LEMMA LaunderStep == TraceInv /\ NoLaundering /\ [Next]_vars => NoLaundering'
<1> SUFFICES ASSUME TraceInv, NoLaundering, [Next]_vars, item'.has, ~item'.stale,
                    ~Did({"append", "prepend"})'
             PROVE  Elems(item'.val) \cap dead' = {}
  BY DEF NoLaundering
<1>0. RowInv /\ Traced /\ TypeOK /\ item \in Items
  BY DEF TraceInv, RowInv, TypeOK
<1>1. ~Did({"append", "prepend"})
  BY <1>0, DidStays
<1>2. item.has /\ ~item.stale => Elems(item.val) \cap dead = {}
  BY <1>1 DEF NoLaundering
<1>3. CASE Looked \/ UNCHANGED <<item, clock, dead, effects, haul>>
  BY <1>2, <1>3 DEF Looked
<1>4. CASE Vivify \/ Evict
  BY <1>4, ElemsEmpty DEF Vivify, Evict, Stored, Absent
<1>5. ASSUME NEW c \in Calls, Returned(c) PROVE FALSE
  BY <1>5 DEF Returned
<1>6. ASSUME NEW c \in Calls, Wrote(c) PROVE Elems(item'.val) \cap dead' = {}
  <2>1. kind[c] \in Verbs \ Reads /\ kind[c] \notin {"append", "prepend"}
    BY <1>0, <1>6, WroteDid DEF Wrote
  <2>2. kind[c] \notin {"take", "delete", "invalidate"}
    BY <1>6 DEF Wrote, Outcome, Absent
  <2>3. dead' = dead /\ c \notin dead
    BY <1>0, <1>6, <2>1, <2>2, WroteEffects DEF Wrote, Traced, Mutators
  <2>4. CASE kind[c] = "update"
    <3>1. item'.val = (IF Found(item) THEN item.val ELSE <<>>) \o <<c>>
      BY <1>6, <2>4 DEF Wrote, Outcome
    <3>2. CASE Found(item)
      <4>1. Elems(item'.val) = Elems(item.val) \cup {c}
        BY <1>0, <3>1, <3>2, ElemsMore, ItemFields
      <4> QED
        BY <1>2, <2>3, <3>2, <4>1 DEF Found
    <3>3. CASE ~Found(item)
      <4>1. <<>> \in Seq(Calls)
        OBVIOUS
      <4>2. Elems(<<>> \o <<c>>) = Elems(<<>>) \cup {c}
        BY <4>1, ElemsMore
      <4>3. Elems(item'.val) = {c}
        BY <3>1, <3>3, <4>2, ElemsEmpty
      <4> QED
        BY <2>3, <4>3
    <3> QED
      BY <3>2, <3>3
  <2>5. CASE kind[c] # "update"
    <3>1. item'.val = <<c>>
      BY <1>6, <2>1, <2>2, <2>5 DEF Wrote, Outcome
    <3> QED
      BY <2>3, <3>1, ElemsOne
  <2> QED
    BY <2>4, <2>5
<1> QED
  BY <1>0, <1>3, <1>4, <1>5, <1>6, StepKinds

(* For any number of concurrent calls, retries and late commands: a call's *)
(* contribution that was in the value when it was invalidated is never     *)
(* part of a fresh value again, unless Append or Prepend extended the      *)
(* stale item in place (update treats a stale hit as a miss, Take and the  *)
(* stores write nothing they read).                                        *)
THEOREM NothingLaundered == Spec => []NoLaundering
<1>1. Init => NoLaundering
  BY DEF Init, NoLaundering, Absent
<1>2. TraceInv /\ NoLaundering /\ [Next]_vars => NoLaundering'
  BY LaunderStep
<1> QED
  BY <1>1, <1>2, TraceAlways, PTL DEF Spec


-----------------------------------------------------------------------------
(* Nothing is lost between a read and a delete *)

(* Nobody overwrote, deleted, invalidated or evicted the entry so far. *)
Undisturbed ==
    ~Did({"invalidate", "set", "replace", "delete"}) /\ (env = 0 \/ "evict" \notin Events)

(* Then the item is fresh and no token of it is out. *)
Calm ==
    Undisturbed => ~item.stale /\ \A c \in Calls : ~seen[c].won /\ giveback[c] <= 0

(* A contribution that was applied is in one place: the item, or the haul  *)
(* of one call.                                                            *)
InItem(f) == f \in Elems(item.val) /\ \A c \in Calls : f \notin Elems(haul[c])
InHaul(f, c) == f \notin Elems(item.val) /\ \A d \in Calls : f \in Elems(haul[d]) <=> d = c

OnePlace ==
    Undisturbed => \A f \in Calls : effects[f] > 0 /\ kind[f] \in Contributors =>
                       InItem(f) \/ \E c \in Calls : InHaul(f, c)

TakenExactly == \A c \in Calls : kind[c] = "take" /\ ret[c] = "ok" => haul[c] = seen[c].of.val

(* Only an applied delete fills a haul. *)
Hauling == \A c \in Calls : haul[c] # <<>> => effects[c] > 0

LEMMA UndisturbedBefore ==
    ASSUME RowInv, [Next]_vars, Undisturbed'
    PROVE  Undisturbed
<1>1. ~Did({"invalidate", "set", "replace", "delete"})
  BY DidStays DEF Undisturbed
<1>2. env' = env \/ env' = env + 1
  BY DEF Next, vars, Start, Read, Abort, Mutate, Fail, Lose, Spoil, Late, GiveBack,
         GiveBackFails, Vivify, Evict, Finished, Event
<1>3. env \in Nat
  BY VerbsAssumption DEF RowInv, TypeOK
<1> QED
  BY <1>1, <1>2, <1>3 DEF Undisturbed

LEMMA CalmStep == RowInv /\ Calm /\ [Next]_vars => Calm'
<1> SUFFICES ASSUME RowInv, Calm, [Next]_vars, Undisturbed'
             PROVE  ~item'.stale /\ \A c \in Calls : ~seen'[c].won /\ giveback'[c] <= 0
  BY DEF Calm
<1>0. /\ TypeOK /\ ~item.stale /\ \A c \in Calls : ~seen[c].won /\ giveback[c] <= 0
  BY UndisturbedBefore DEF Calm, RowInv
<1>1. ~item'.stale
  <2>1. ASSUME NEW c \in Calls, Returned(c) PROVE FALSE
    <3>1. giveback[c] > 0 /\ giveback[c] <= 0 /\ giveback[c] \in Nat \cup {-1}
      BY <1>0, <2>1 DEF Returned, TypeOK
    <3> QED
      BY <3>1
  <2>2. ASSUME NEW c \in Calls, Wrote(c) PROVE ~item'.stale
    <3>1. kind[c] # "invalidate"
      BY <2>2, WroteDid DEF Undisturbed
    <3> QED
      BY <1>0, <2>2, <3>1 DEF Wrote, Outcome, Absent
  <2>3. CASE Looked \/ Vivify \/ Evict \/ UNCHANGED <<item, clock, dead, effects, haul>>
    BY <1>0, <2>3 DEF Looked, Vivify, Evict, Stored, Absent
  <2> QED
    BY <2>1, <2>2, <2>3, StepKinds
<1>2. ASSUME NEW d \in Calls PROVE ~seen'[d].won /\ giveback'[d] <= 0
  <2>1. CASE Read(d)
    <3>1. ~Won(item)
      BY <1>0 DEF Won
    <3>2. seen'[d] = [of |-> item', won |-> Won(item)] /\ giveback'[d] = giveback[d]
      BY <1>0, <2>1, <3>1 DEF TypeOK, Read, returnStaleWin
    <3> QED
      BY <1>0, <3>1, <3>2
  <2>2. CASE Abort(d)
    BY <1>0, <2>2 DEF TypeOK, Abort
  <2>3. CASE GiveBack(d) \/ GiveBackFails(d)
    BY <1>0, <2>3 DEF TypeOK, GiveBack, GiveBackFails
  <2>4. ASSUME (\E k \in Kinds : Start(d, k)) \/ Mutate(d) \/ Fail(d) \/ Lose(d) \/ Spoil(d)
               \/ Late(d)
        PROVE  UNCHANGED <<seen, giveback>>
    BY <2>4 DEF Start, Mutate, Fail, Lose, Spoil, Late
  <2>5. ASSUME NEW c \in Calls, Acts(c), d # c PROVE SameRow(d)
    BY <1>0, <2>5, OtherCall
  <2>6. CASE SameRow(d)
    BY <1>0, <2>6 DEF SameRow
  <2> QED
    BY <1>0, <2>1, <2>2, <2>3, <2>4, <2>5, <2>6, NextActs, NoCall DEF Acts
<1> QED
  BY <1>1, <1>2

LEMMA OnePlaceStep == TraceInv /\ Calm /\ Hauling /\ OnePlace /\ [Next]_vars => OnePlace'
<1> SUFFICES ASSUME TraceInv, Calm, Hauling, OnePlace, [Next]_vars, Undisturbed',
                    NEW f \in Calls, effects'[f] > 0, kind'[f] \in Contributors
             PROVE  InItem(f)' \/ \E c \in Calls : InHaul(f, c)'
  BY DEF OnePlace
<1>0. /\ RowInv /\ TypeOK /\ Traced /\ Present /\ Undisturbed /\ ~item.stale
      /\ item \in Items /\ item.val \in Seq(Calls)
  BY UndisturbedBefore, ItemFields DEF TraceInv, RowInv, Calm, TypeOK
<1>1. ASSUME UNCHANGED <<effects, haul>>, item'.val = item.val
      PROVE  InItem(f)' \/ \E c \in Calls : InHaul(f, c)'
  <2>1. kind'[f] = kind[f]
    <3>1. ASSUME NEW k \in Kinds, Start(f, k) PROVE FALSE
      BY <1>0, <1>1, <3>1 DEF Start, RowInv, AllHonest, Honest
    <3>2. ASSUME NEW d \in Calls, Acts(d), d # f PROVE kind'[f] = kind[f]
      BY <1>0, <3>2, OtherCall DEF SameRow
    <3>3. ASSUME Acts(f) PROVE kind'[f] = kind[f]
      BY <3>1, <3>3 DEF Acts, Read, Abort, Mutate, Fail, Lose, Spoil, Late, GiveBack,
         GiveBackFails
    <3> QED
      BY <3>2, <3>3, NextActs, NoCall
  <2>2. InItem(f) \/ \E c \in Calls : InHaul(f, c)
    BY <1>0, <1>1, <2>1 DEF OnePlace
  <2>3. CASE InItem(f)
    BY <1>1, <2>3 DEF InItem
  <2>4. ASSUME NEW c \in Calls, InHaul(f, c) PROVE InHaul(f, c)'
    BY <1>1, <2>4 DEF InHaul
  <2> QED
    BY <2>2, <2>3, <2>4
<1>2. CASE Looked \/ UNCHANGED <<item, clock, dead, effects, haul>>
  BY <1>1, <1>2 DEF Looked
<1>3. CASE Vivify
  <2>1. ~item.has /\ item' = Stored(<<>>, TRUE) /\ UNCHANGED <<effects, haul>>
    BY <1>3 DEF Vivify
  <2>2. item.val = <<>> /\ item'.val = <<>>
    BY <1>0, <2>1 DEF Present, Stored
  <2> QED
    BY <1>1, <2>1, <2>2
<1>4. CASE Evict
  <2>1. env' = env + 1 /\ "evict" \in Events /\ env \in Nat
    BY <1>0, <1>4, VerbsAssumption DEF Evict, Event, TypeOK
  <2> QED
    BY <2>1 DEF Undisturbed
<1>5. ASSUME NEW c \in Calls, Returned(c) PROVE FALSE
  <2>1. giveback[c] > 0 /\ giveback[c] <= 0 /\ giveback[c] \in Nat \cup {-1}
    BY <1>0, <1>5 DEF Returned, TypeOK, Calm
  <2> QED
    BY <2>1
<1>6. ASSUME NEW c \in Calls, Wrote(c)
      PROVE  InItem(f)' \/ \E d \in Calls : InHaul(f, d)'
  <2>0. UNCHANGED kind /\ kind[c] \in Verbs \ Reads
    BY <1>6 DEF Wrote
  <2>1. kind[c] \notin {"invalidate", "set", "replace", "delete"}
    BY <1>0, <1>6, WroteDid DEF Undisturbed
  <2>2. c \notin Contributed /\ \A d \in Calls : d # c => effects'[d] = effects[d] /\ haul'[d] = haul[d]
    BY <1>0, <1>6, <2>0, <2>1, WroteEffects DEF Mutators
  <2>3. c \notin Elems(item.val) /\ \A d \in Calls : c \notin Elems(haul[d])
    BY <1>0, <2>2 DEF Traced
  <2>4. f # c => InItem(f) \/ \E d \in Calls : InHaul(f, d)
    BY <1>0, <2>0, <2>2 DEF OnePlace
  <2>5. CASE kind[c] = "take"
    <3>1. item'.val = <<>> /\ haul'[c] = item.val /\ haul[c] = <<>>
      <4>1. haul[c] = <<>>
        BY <2>2 DEF Hauling, Contributed
      <4>2. haul'[c] = item.val
        BY <1>0, <1>6, <2>5, WroteEffects
      <4>3. item' = Absent
        BY <1>6, <2>5 DEF Wrote, Outcome
      <4>4. item'.val = <<>>
        BY <4>3 DEF Absent
      <4> QED
        BY <4>1, <4>2, <4>4
    <3>2. f # c
      BY <2>0, <2>5 DEF Contributors
    <3>3. CASE InItem(f)
      <4>1. InHaul(f, c)'
        BY <2>2, <3>1, <3>3, ElemsEmpty DEF InItem, InHaul
      <4> QED
        BY <4>1
    <3>4. ASSUME NEW d \in Calls, InHaul(f, d) PROVE InHaul(f, d)'
      <4>1. d # c
        BY <3>1, <3>4, ElemsEmpty DEF InHaul
      <4> QED
        BY <2>2, <3>1, <3>4, <4>1, ElemsEmpty DEF InHaul
    <3> QED
      BY <2>4, <3>2, <3>3, <3>4
  <2>6. CASE kind[c] # "take"
    <3>0. haul'[c] = haul[c]
      BY <1>0, <1>6, <2>1, <2>6, WroteEffects
    <3>1. \A d \in Calls : haul'[d] = haul[d]
      BY <2>2, <3>0
    <3>2. Elems(item'.val) = Elems(item.val) \cup {c}
      <4>0. <<>> \in Seq(Calls)
        OBVIOUS
      <4>a. /\ Elems(item.val \o <<c>>) = Elems(item.val) \cup {c}
            /\ Elems(<<c>> \o item.val) = Elems(item.val) \cup {c}
        BY <1>0, ElemsMore
      <4>b. Elems(<<>> \o <<c>>) = Elems(<<>>) \cup {c}
        BY <4>0, ElemsMore
      <4>1. /\ Elems(item.val \o <<c>>) = Elems(item.val) \cup {c}
            /\ Elems(<<c>> \o item.val) = Elems(item.val) \cup {c}
            /\ Elems(<<>> \o <<c>>) = {c}
        BY <4>a, <4>b, ElemsEmpty
      <4>2. CASE kind[c] = "update"
        <5>1. item'.val = (IF Found(item) THEN item.val ELSE <<>>) \o <<c>>
          BY <1>6, <4>2 DEF Wrote, Outcome
        <5>2. ~Found(item) => item.val = <<>>
          BY <1>0 DEF Found, Present
        <5> QED
          BY <4>1, <5>1, <5>2
      <4>3. CASE kind[c] \in {"append", "prepend"}
        BY <1>6, <4>1, <4>3 DEF Wrote, Outcome
      <4>4. CASE kind[c] = "add"
        <5>1. ~item.has /\ item'.val = <<c>>
          BY <1>6, <4>4 DEF Wrote, Outcome
        <5>2. item.val = <<>>
          BY <1>0, <5>1 DEF Present
        <5> QED
          BY <5>1, <5>2, ElemsOne, ElemsEmpty
      <4> QED
        BY <2>0, <2>1, <2>6, <4>2, <4>3, <4>4 DEF Verbs, Reads
    <3>3. CASE f = c
      BY <2>3, <3>1, <3>2, <3>3 DEF InItem
    <3>4. CASE f # c
      <4>1. CASE InItem(f)
        BY <3>1, <3>2, <4>1 DEF InItem
      <4>2. ASSUME NEW d \in Calls, InHaul(f, d) PROVE InHaul(f, d)'
        BY <3>1, <3>2, <3>4, <4>2 DEF InHaul
      <4> QED
        BY <2>4, <3>4, <4>1, <4>2
    <3> QED
      BY <3>3, <3>4
  <2> QED
    BY <2>5, <2>6
<1> QED
  BY <1>0, <1>2, <1>3, <1>4, <1>5, <1>6, StepKinds

LEMMA HaulingStep == RowInv /\ Hauling /\ [Next]_vars => Hauling'
<1> SUFFICES ASSUME RowInv, Hauling, [Next]_vars PROVE Hauling'
  OBVIOUS
<1>1. ASSUME NEW c \in Calls, Wrote(c), NEW d \in Calls, haul'[d] # <<>> PROVE effects'[d] > 0
  BY <1>1, WroteEffects DEF Hauling
<1>2. CASE UNCHANGED <<effects, haul>>
  BY <1>2 DEF Hauling
<1> QED
  BY <1>1, <1>2, StepKinds DEF Looked, Vivify, Evict, Returned, Hauling

(* A call that is under way has returned nothing. *)
Silent == \A c \in Calls : pc[c] # "done" => ret[c] = "none"

LEMMA SilentStep == TypeOK /\ Silent /\ [Next]_vars => Silent'
<1> SUFFICES ASSUME TypeOK, Silent, [Next]_vars, NEW d \in Calls, pc'[d] # "done"
             PROVE  ret'[d] = "none"
  BY DEF Silent
<1>1. ASSUME Acts(d) PROVE ret'[d] = ret[d] /\ (pc[d] = "done" => pc'[d] = "done")
  <2>1. ASSUME NEW k \in Kinds, Start(d, k)
        PROVE  ret'[d] = ret[d] /\ (pc[d] = "done" => pc'[d] = "done")
    <3>1. ~Refused(d, k) /\ pc[d] = "idle"
      BY <2>1 DEF TypeOK, Start, Return
    <3> QED
      BY <2>1, <3>1 DEF Start
  <2>2. CASE Read(d)
    BY <2>2 DEF TypeOK, Read, Return
  <2>3. CASE Abort(d) \/ Fail(d) \/ Lose(d) \/ Spoil(d)
    BY <2>3, FailedCall DEF TypeOK, Abort, Return
  <2>4. CASE Mutate(d)
    BY <2>4 DEF TypeOK, Mutate, Return
  <2>5. CASE Late(d) \/ GiveBack(d) \/ GiveBackFails(d)
    BY <2>5 DEF Late, GiveBack, GiveBackFails
  <2> QED
    BY <1>1, <2>1, <2>2, <2>3, <2>4, <2>5 DEF Acts
<1>2. ASSUME NEW c \in Calls, Acts(c), c # d PROVE ret'[d] = ret[d] /\ pc'[d] = pc[d]
  BY <1>2, OtherCall DEF SameRow
<1>3. ret'[d] = ret[d] /\ (pc[d] = "done" => pc'[d] = "done")
  BY <1>1, <1>2, NextActs, NoCall DEF SameRow
<1> QED
  BY <1>3 DEF Silent

LEMMA TakenStep == RowInv /\ Silent /\ TakenExactly /\ [Next]_vars => TakenExactly'
<1> SUFFICES ASSUME RowInv, Silent, TakenExactly, [Next]_vars, NEW d \in Calls,
                    kind'[d] = "take", ret'[d] = "ok"
             PROVE  haul'[d] = seen'[d].of.val
  BY DEF TakenExactly
<1>0. TypeOK /\ Placed(d) /\ Honest(d)
  BY DEF RowInv, AllPlaced, AllHonest
<1>1. CASE SameRow(d)
  BY <1>1 DEF SameRow, TakenExactly
<1>2. ASSUME NEW k \in Kinds, Start(d, k) PROVE FALSE
  <2>1. pc[d] = "idle" /\ ret'[d] \in {ret[d], "absorbed", "usage"}
    BY <1>0, <1>2 DEF TypeOK, Start, Return
  <2> QED
    BY <2>1 DEF Silent
<1>3. ASSUME Read(d) PROVE FALSE
  <2>1. kind[d] = "take" /\ pc[d] = "read"
    BY <1>3 DEF Read
  <2>2. CASE item.val = <<>>
    BY <1>0, <1>3, <2>1, <2>2 DEF TypeOK, Read, Return
  <2>3. CASE item.val # <<>>
    <3>1. ret'[d] = ret[d]
      BY <1>3, <2>1, <2>3 DEF Read, Reads
    <3> QED
      BY <2>1, <3>1 DEF Silent
  <2> QED
    BY <2>2, <2>3
<1>4. ASSUME Abort(d) \/ Fail(d) \/ Lose(d) \/ Spoil(d) PROVE FALSE
  BY <1>0, <1>4, FailedCall DEF TypeOK, Abort, Return, Failures
<1>5. ASSUME Mutate(d) PROVE haul'[d] = seen'[d].of.val
  <2>1. /\ pc[d] = "write" /\ kind[d] = "take" /\ UNCHANGED seen
        /\ Execute(Command(d)) /\ Record(d, Command(d))
    BY <1>5 DEF Mutate
  <2>2. Command(d) = WriteCmd(d)
    BY <2>1 DEF Command, WriteCmd
  <2>3. CASE Applied(WriteCmd(d))
    <3>1. Wrote(d)
      BY <1>0, <1>5, <2>1, <2>2, <2>3, WroteBy DEF Placed, Honest
    <3>2. haul'[d] = item.val /\ item.val = seen[d].of.val
      BY <2>1, <3>1, WroteEffects DEF Wrote
    <3> QED
      BY <2>1, <3>2
  <2>4. CASE ~Applied(WriteCmd(d))
    <3>1. ret'[d] \in {ret[d], "conflict"}
      BY <1>0, <1>5, <2>1, <2>2, <2>4 DEF TypeOK, Mutate, Return, Loops
    <3> QED
      BY <2>1, <3>1 DEF Silent
  <2> QED
    BY <2>3, <2>4
<1>6. ASSUME Late(d) PROVE FALSE
  <2>1. late[d].op # "none" /\ kind[d] = "take" /\ ret[d] = "ok"
    BY <1>6 DEF Late
  <2>2. kind[d] \in Mutators
    BY <2>1 DEF Mutators, Verbs, Reads
  <2> QED
    BY <1>0, <2>1, <2>2 DEF Honest, Silent
<1>7. CASE GiveBack(d) \/ GiveBackFails(d)
  <2>1. UNCHANGED <<kind, seen, ret, haul>>
    BY <1>7 DEF GiveBack, GiveBackFails
  <2> QED
    BY <2>1 DEF TakenExactly
<1>8. ASSUME NEW c \in Calls, Acts(c), c # d PROVE SameRow(d)
  BY <1>0, <1>8, OtherCall
<1> QED
  BY <1>0, <1>1, <1>2, <1>3, <1>4, <1>5, <1>6, <1>7, <1>8, NextActs, NoCall DEF Acts

ConserveInv == Calm /\ Hauling /\ OnePlace /\ Silent /\ TakenExactly

LEMMA OnePlaceCounts ==
    ASSUME NEW f \in Calls, InItem(f) \/ \E c \in Calls : InHaul(f, c)
    PROVE  Cardinality(Hauled(f)) + (IF f \in Elems(item.val) THEN 1 ELSE 0) = 1
<1>1. CASE InItem(f)
  <2>1. Hauled(f) = {} /\ f \in Elems(item.val)
    BY <1>1 DEF InItem, Hauled
  <2>2. Cardinality(Hauled(f)) = 0
    BY <2>1, FS_EmptySet
  <2> QED
    BY <2>1, <2>2
<1>2. ASSUME NEW c \in Calls, InHaul(f, c)
      PROVE  Cardinality(Hauled(f)) + (IF f \in Elems(item.val) THEN 1 ELSE 0) = 1
  <2>1. Hauled(f) = {c} /\ f \notin Elems(item.val)
    BY <1>2 DEF InHaul, Hauled
  <2>2. Cardinality(Hauled(f)) = 1
    BY <2>1, FS_Singleton
  <2> QED
    BY <2>1, <2>2
<1> QED
  BY <1>1, <1>2

(* Take: "Bytes appended between the read and the delete are never lost".  *)
(* For any number of concurrent calls, retries and late commands: a Take   *)
(* that succeeds returns exactly what its delete removed, and as long as   *)
(* nobody overwrites, deletes, invalidates or evicts the entry, what an    *)
(* Append, Prepend or Update contributed is in the entry or in the haul of *)
(* exactly one Take.                                                       *)
THEOREM ContributionsConserved == Spec => []Conserved
<1>1. Init => ConserveInv
  BY ElemsEmpty DEF Init, ConserveInv, Calm, Hauling, OnePlace, Silent, TakenExactly,
                    Absent, Unread
<1>2. TraceInv /\ ConserveInv /\ [Next]_vars => ConserveInv'
  BY CalmStep, HaulingStep, OnePlaceStep, SilentStep, TakenStep
     DEF ConserveInv, TraceInv, RowInv
<1>3. ConserveInv => Conserved
  <2> SUFFICES ASSUME ConserveInv PROVE Conserved
    OBVIOUS
  <2>1. \A c \in Calls : kind[c] = "take" /\ ret[c] = "ok" => haul[c] = seen[c].of.val
    BY DEF ConserveInv, TakenExactly
  <2>2. ASSUME Undisturbed, NEW f \in Calls, effects[f] > 0, kind[f] \in Contributors
        PROVE  Cardinality(Hauled(f)) + (IF f \in Elems(item.val) THEN 1 ELSE 0) = 1
    <3>1. InItem(f) \/ \E c \in Calls : InHaul(f, c)
      BY <2>2 DEF ConserveInv, OnePlace
    <3> QED
      BY <3>1, OnePlaceCounts
  <2> QED
    BY <2>1, <2>2 DEF Conserved, Undisturbed
<1> QED
  BY <1>1, <1>2, <1>3, TraceAlways, PTL DEF Spec


-----------------------------------------------------------------------------
(* The recache token of a stale value *)

(* Only a call that reported a failure leaves a command behind. *)
Outlived == \A c \in Calls : late[c].op # "none" => ret[c] \in Failures

LEMMA OutlivedStep == RowInv /\ Outlived /\ [Next]_vars => Outlived'
<1> SUFFICES ASSUME RowInv, Outlived, [Next]_vars, NEW d \in Calls, late'[d].op # "none"
             PROVE  ret'[d] \in Failures
  BY DEF Outlived
<1>0. TypeOK /\ Honest(d) /\ (late[d].op # "none" => ret[d] \in Failures)
  BY DEF RowInv, AllHonest, Outlived
<1>1. CASE SameRow(d)
  BY <1>0, <1>1 DEF SameRow
<1>2. CASE Lose(d)
  BY <1>0, <1>2, FailedCall
<1>3. ASSUME (\E k \in Kinds : Start(d, k)) \/ Read(d) \/ Abort(d) \/ Mutate(d) \/ Fail(d)
             \/ Spoil(d)
      PROVE  FALSE
  <2>1. pc[d] # "done" /\ late' = late
    BY <1>3 DEF Start, Read, Abort, Mutate, Fail, Spoil
  <2> QED
    BY <1>0, <2>1 DEF Honest
<1>4. ASSUME Late(d) PROVE FALSE
  BY <1>0, <1>4 DEF TypeOK, Late, NoCmd
<1>5. CASE GiveBack(d) \/ GiveBackFails(d)
  BY <1>0, <1>5 DEF GiveBack, GiveBackFails
<1>6. ASSUME NEW c \in Calls, Acts(c), c # d PROVE SameRow(d)
  BY <1>0, <1>6, OtherCall
<1> QED
  BY <1>0, <1>1, <1>2, <1>3, <1>4, <1>5, <1>6, NextActs, NoCall DEF Acts

(* Call c answers for the token that was sent for the item: it is on its   *)
(* way back, was dropped on that way, is held by an optimistic loop about  *)
(* to write under the item's CAS, or c failed.                             *)
Answerable(c) ==
    \/ giveback[c] > 0 /\ giveback[c] = item.cas
    \/ giveback[c] = -1
    \/ pc[c] = "write" /\ seen[c].won /\ seen[c].of.cas = item.cas
    \/ ret[c] \in Failures

SomeoneAnswers ==
    item.stale /\ item.sent => Did({"append", "prepend"}) \/ \E c \in Calls : Answerable(c)

TokenInv == RowInv /\ Silent /\ Outlived /\ SomeoneAnswers

LEMMA OthersAnswer ==
    ASSUME NEW d \in Calls, SameRow(d), item'.cas = item.cas, Answerable(d)
    PROVE  Answerable(d)'
BY DEF SameRow, Answerable

(* A call that has not read, or lost its comparison, answers for nothing. *)
LEMMA NotAnswering ==
    ASSUME RowInv, Silent, NEW c \in Calls, pc[c] \in {"idle", "read"}
    PROVE  ~Answerable(c)
<1>1. giveback[c] = 0 /\ ret[c] = "none"
  BY DEF RowInv, AllPlaced, Placed, Silent
<1> QED
  BY <1>1 DEF Answerable, Failures

LEMMA TokenWritten ==
    ASSUME RowInv, Silent, item.stale, NEW c \in Calls, pc[c] = "write", Answerable(c)
    PROVE  seen[c].won /\ seen[c].of.cas = item.cas /\ item.cas > 0 /\ Applied(WriteCmd(c))
<1>0. TypeOK /\ Placed(c) /\ Versions /\ Present /\ item \in Items /\ seen[c].of \in Items
  BY DEF RowInv, AllPlaced, TypeOK, Looks
<1>1. giveback[c] = 0 /\ ret[c] = "none"
  BY <1>0 DEF Placed, Silent
<1>2. seen[c].won /\ seen[c].of.cas = item.cas
  BY <1>1 DEF Answerable, Failures
<1>3. item.has /\ item.cas > 0 /\ seen[c].of.has /\ kind[c] \in Loops
  BY <1>0, <1>2 DEF Present, Placed, Versions, Versioned
<1>4. CASE kind[c] = "update"
  <2> DEFINE v == (IF Found(seen[c].of) THEN seen[c].of.val ELSE <<>>) \o <<c>>
  <2>1. WriteCmd(c) = Storing("set", seen[c].of.cas, v)
    BY <1>3, <1>4 DEF WriteCmd, updateCommand
  <2>2. WriteCmd(c).op = "ms" /\ WriteCmd(c).cas = item.cas
    BY <1>2, <2>1 DEF Storing
  <2> QED
    BY <1>2, <1>3, <2>2 DEF Applied, Code
<1>5. CASE kind[c] = "take"
  <2>1. WriteCmd(c).op = "md" /\ WriteCmd(c).cas = item.cas
    BY <1>2, <1>5 DEF WriteCmd, takeCommand, Deleting
  <2> QED
    BY <1>2, <1>3, <2>1 DEF Applied, Code
<1> QED
  BY <1>3, <1>4, <1>5 DEF Loops

LEMMA AnswersStep == TokenInv /\ [Next]_vars => SomeoneAnswers'
<1> SUFFICES ASSUME TokenInv, [Next]_vars, item'.stale, item'.sent,
                    ~Did({"append", "prepend"})'
             PROVE  \E d \in Calls : Answerable(d)'
  BY DEF SomeoneAnswers
<1>0. /\ RowInv /\ Silent /\ Outlived /\ TypeOK /\ Present /\ Versions
      /\ item \in Items /\ item.cas \in Nat
  BY ItemFields DEF TokenInv, RowInv, TypeOK
<1>1. item.stale /\ item.sent => \E c \in Calls : Answerable(c)
  BY <1>0, DidStays DEF TokenInv, SomeoneAnswers
<1>2. ASSUME NEW c \in Calls, Acts(c), item'.cas = item.cas, item.stale, item.sent,
             Answerable(c) => Answerable(c)'
      PROVE  \E d \in Calls : Answerable(d)'
  <2>1. PICK d \in Calls : Answerable(d)
    BY <1>1, <1>2
  <2>2. CASE d = c
    BY <1>2, <2>1, <2>2
  <2>3. CASE d # c
    BY <1>0, <1>2, <2>1, <2>3, OtherCall, OthersAnswer
  <2> QED
    BY <2>2, <2>3
<1>3. ASSUME NEW c \in Calls, Read(c) PROVE \E d \in Calls : Answerable(d)'
  <2>1. /\ pc[c] = "read" /\ Execute(Reading) /\ Acts(c)
        /\ seen'[c] = [of |-> item', won |-> Won(item)]
    BY <1>0, <1>3 DEF TypeOK, Read, Acts
  <2>2. /\ item'.cas = item.cas /\ item'.stale = item.stale
    BY <1>0, <2>1, ReadItem DEF Reading
  <2>3. CASE item.sent
    BY <1>0, <1>2, <2>1, <2>2, <2>3, NotAnswering
  <2>4. CASE ~item.sent
    <3>1. Won(item) /\ item.cas > 0
      BY <1>0, <2>2, <2>4 DEF Won, Present, Versions, Versioned
    <3>2. CASE kind[c] \in Reads \/ (kind[c] = "take" /\ item.val = <<>>)
      <4>1. giveback'[c] = item.cas
        BY <1>0, <1>3, <3>1, <3>2 DEF TypeOK, Read, returnStaleWin
      <4> QED
        BY <2>2, <3>1, <4>1 DEF Answerable
    <3>3. CASE ~(kind[c] \in Reads \/ (kind[c] = "take" /\ item.val = <<>>))
      <4>1. pc'[c] = "write" /\ seen'[c].won /\ seen'[c].of.cas = item'.cas
        BY <1>0, <1>3, <2>1, <3>1, <3>3 DEF TypeOK, Read
      <4> QED
        BY <4>1 DEF Answerable
    <3> QED
      BY <3>2, <3>3
  <2> QED
    BY <2>3, <2>4
<1>4. ASSUME NEW c \in Calls, Late(c) \/ Fail(c) \/ Lose(c) \/ Spoil(c) PROVE Answerable(c)'
  <2>1. CASE Late(c)
    BY <1>0, <2>1 DEF Late, Outlived, Answerable
  <2>2. CASE Fail(c) \/ Lose(c) \/ Spoil(c)
    BY <1>0, <2>2, FailedCall DEF Answerable
  <2> QED
    BY <1>4, <2>1, <2>2
<1>5. ASSUME NEW c \in Calls, Wrote(c) PROVE FALSE
  <2>1. kind[c] \notin {"append", "prepend"} /\ kind[c] \in Verbs \ Reads /\ Outcome(c)
    BY <1>0, <1>5, WroteDid DEF Wrote
  <2> QED
    BY <2>1 DEF Outcome, Absent
<1>6. ASSUME NEW c \in Calls, Mutate(c) PROVE \E d \in Calls : Answerable(d)'
  <2>1. /\ pc[c] = "write" /\ Execute(Command(c)) /\ Record(c, Command(c)) /\ Acts(c)
        /\ Placed(c) /\ Honest(c)
    BY <1>0, <1>6 DEF Mutate, Acts, RowInv, AllPlaced, AllHonest
  <2>2. Command(c) = WriteCmd(c)
    BY <2>1 DEF Command, WriteCmd
  <2>3. ~Applied(WriteCmd(c))
    BY <1>0, <1>5, <1>6, <2>1, <2>2, WroteBy DEF Placed, Honest
  <2>4. WriteCmd(c).op # "mg"
    BY DEF WriteCmd, updateCommand, takeCommand, Storing, Deleting
  <2>5. item' = item
    BY <1>0, <2>1, <2>2, <2>3, <2>4, NotApplied
  <2>6. ~Answerable(c)
    BY <1>0, <2>1, <2>3, <2>5, TokenWritten
  <2> QED
    BY <1>2, <2>1, <2>5, <2>6
<1>7. ASSUME NEW c \in Calls, NEW k \in Kinds, Start(c, k)
      PROVE  \E d \in Calls : Answerable(d)'
  <2>1. item' = item /\ pc[c] = "idle" /\ Acts(c)
    BY <1>7 DEF Start, Acts
  <2> QED
    BY <1>0, <1>2, <2>1, NotAnswering
<1>8. ASSUME NEW c \in Calls, Abort(c) PROVE \E d \in Calls : Answerable(d)'
  <2>1. item' = item /\ pc[c] = "write" /\ Acts(c)
    BY <1>8 DEF Abort, Acts
  <2>2. ASSUME Answerable(c) PROVE Answerable(c)'
    <3>1. seen[c].won /\ seen[c].of.cas = item.cas /\ item.cas > 0
      BY <1>0, <2>1, <2>2, TokenWritten
    <3>2. giveback'[c] = item.cas
      BY <1>0, <1>8, <3>1 DEF TypeOK, Abort
    <3> QED
      BY <2>1, <3>1, <3>2 DEF Answerable
  <2> QED
    BY <1>2, <2>1, <2>2
<1>9. ASSUME NEW c \in Calls, GiveBack(c) PROVE \E d \in Calls : Answerable(d)'
  <2> DEFINE cmd == Deleting("invalidate", giveback[c])
  <2>1. /\ giveback[c] > 0 /\ Execute(cmd) /\ Acts(c) /\ UNCHANGED <<pc, ret>>
        /\ cmd.op = "md" /\ cmd.mode = "invalidate" /\ cmd.cas = giveback[c]
    BY <1>9 DEF GiveBack, Deleting, Acts
  <2>2. Placed(c) /\ pc[c] = "done"
    BY <1>0, <2>1 DEF RowInv, AllPlaced, Placed
  <2> HIDE DEF cmd
  <2>3. CASE Applied(cmd)
    <3>1. item' = [item EXCEPT !.stale = TRUE, !.sent = FALSE, !.cas = clock + 1]
      BY <2>1, <2>3 DEF After, Execute
    <3> QED
      BY <1>0, <3>1 DEF Items
  <2>4. CASE ~Applied(cmd)
    <3>1. item' = item
      BY <2>1, <2>4 DEF Execute
    <3>2. giveback[c] # item.cas
      BY <1>0, <2>1, <2>4, <3>1 DEF Applied, Code, Present
    <3>3. Answerable(c) => Answerable(c)'
      BY <2>1, <2>2, <3>2 DEF Answerable
    <3> QED
      BY <1>2, <2>1, <3>1, <3>3
  <2> QED
    BY <2>3, <2>4
<1>10. ASSUME NEW c \in Calls, GiveBackFails(c) PROVE Answerable(c)'
  BY <1>0, <1>10 DEF TypeOK, GiveBackFails, Answerable
<1>11. CASE Vivify \/ Evict
  BY <1>11 DEF Vivify, Evict, Stored, Absent
<1>12. CASE Finished \/ UNCHANGED vars
  <2>1. UNCHANGED vars
    BY <1>12 DEF Finished
  <2>2. PICK d \in Calls : Answerable(d)
    BY <1>1, <2>1 DEF vars
  <2> QED
    BY <2>1, <2>2 DEF vars, Answerable
<1> QED
  BY <1>3, <1>4, <1>6, <1>7, <1>8, <1>9, <1>10, <1>11, <1>12 DEF Next

(* returnStaleWin: for any number of concurrent calls, when no verb is     *)
(* under way, none has failed, no token was dropped on its way back and    *)
(* none extended the item in place, the recache token of a stale value is  *)
(* there to be won by the next Fetch: Get, Touch, Update and Take do not   *)
(* keep a token they consumed.                                             *)
THEOREM TokenComesBack == Spec => []TokenReturned
<1> DEFINE Own == Silent /\ Outlived /\ SomeoneAnswers
<1>1. Init => Own
  BY DEF Init, Silent, Outlived, SomeoneAnswers, Absent, NoCmd
<1>2. RowInv /\ Own /\ [Next]_vars => Own'
  BY SilentStep, OutlivedStep, AnswersStep DEF RowInv, TokenInv
<1>3. RowInv /\ Own => TokenReturned
  <2> SUFFICES ASSUME Own, Quiet, ~Did({"append", "prepend"}), item.stale, item.sent,
                      NEW c \in Calls, Answerable(c), ret[c] \notin Failures, giveback[c] # -1,
                      RowInv
               PROVE  FALSE
    BY DEF SomeoneAnswers, TokenReturned, Failures
  <2>1. pc[c] = "done" /\ giveback[c] <= 0 /\ giveback[c] \in Nat \cup {-1}
    BY DEF Quiet, RowInv, TypeOK
  <2> QED
    BY <2>1 DEF Answerable
<1> QED
  BY <1>1, <1>2, <1>3, RowAlways, PTL DEF Spec

=============================================================================

----------------------------- MODULE InboxProofs -----------------------------
(***************************************************************************)
(* What Inbox promises of a conversation and of the turns of the bot, for  *)
(* any number of users, messages, jobs, commands and faults, and any       *)
(* durations that keep a job shorter than its lock.                        *)
(***************************************************************************)
EXTENDS Inbox, TLAPS

\* A job in a turn has the lock, for longer than the job has left.
TurnsHoldLock ==
    \A j \in Jobs : InTurn(j) => lock.owner = j /\ job[j].left <= lock.left

\* A command that will take a conversation from somebody, or leave it for
\* somebody, is of one who may.
CommandsByRight ==
    \A u \in Users :
        /\ command[u].pc = "claiming" =>
              command[u].read \in {None, u} \/ u \in Superadmins
        /\ command[u].pc \in {"authorized", "leaving"} =>
              command[u].read = u \/ u \in Superadmins

Taking(u) == command[u].pc \in {"opening", "restoring"}

\* u took the conversation from v and would give it back to v.
TookFrom(u, v) == command[u].read = v /\ v \notin {None, u}

\* S is a chain of takings, each from the one before, and its last one is the
\* holder: nobody in S took it from the holder, and no two took it from the same.
Chain(S) ==
    /\ \A u \in S : Taking(u)
    /\ holder # None => holder \in S
    /\ \A u \in S, v \in Users : TookFrom(u, v) => v \in S /\ v # holder
    /\ \A u, w \in S, v \in Users : TookFrom(u, v) /\ TookFrom(w, v) => u = w

Settling == \E u \in Users : command[u].pc = "leaving"

\* Whoever has a conversation that Chatwoot leaves to the bot is about to open
\* it or to give it back, to somebody of whom the same is true.
PendingIsTransient ==
    status = "pending" /\ ~overtaken /\ ~Settling => \E S \in SUBSET Users : Chain(S)

InboxInv == TypeOK /\ TurnsHoldLock /\ CommandsByRight /\ PendingIsTransient

-----------------------------------------------------------------------------
(* Types.                                                                  *)

\* The bounds are numbers, and None is nobody.
LEMMA Constants ==
  /\ LockTtl \in Nat \ {0} /\ LockWait \in Nat /\ JobTimeout \in Nat \ {0}
  /\ JobTimeout <= LockTtl /\ MaxCommands \in Nat /\ MaxFaults \in Nat
  /\ None \notin Users /\ None \notin Messages /\ None \notin Jobs
  /\ Superadmins \subseteq Users
  BY InboxConstants

\* Rows that are written whole have their types.
LEMMA RowsTyped ==
  /\ NoCommand \in CommandState /\ NoJob \in JobState
  /\ Free \in [owner : Jobs \cup {None}, left : 0 .. LockTtl]
  /\ \A j \in Jobs : FreshLock(j) \in [owner : Jobs \cup {None}, left : 0 .. LockTtl]
  BY Constants DEF NoCommand, CommandState, NoJob, JobState, Free, FreshLock

\* Jobs and the lock, without the rest of the state.
BotTyped ==
    /\ job \in [Jobs -> JobState]
    /\ lock \in [owner : Jobs \cup {None}, left : 0 .. LockTtl]
    /\ token \in Jobs \cup {None}

\* The conversation and the commands.
StaffTyped ==
    /\ status \in {"pending", "open"}
    /\ holder \in Users \cup {None}
    /\ session \in Messages \cup {None}
    /\ command \in [Users -> CommandState]
    /\ given \in [Users -> 0 .. MaxCommands]
    /\ faults \in 0 .. MaxFaults
    /\ overtaken \in BOOLEAN

\* The two parts of the types.
LEMMA TypeParts == TypeOK <=> BotTyped /\ StaffTyped
  BY DEF TypeOK, BotTyped, StaffTyped

\* A fault is counted below the bound.
LEMMA FaultTyped == ASSUME faults \in 0 .. MaxFaults, Fault PROVE faults' \in 0 .. MaxFaults
  BY Constants DEF Fault

\* Commands keep the types of what they write.
LEMMA StaffKeepsTypes ==
  ASSUME StaffTyped, NEW u \in Users, Take(u) \/ GiveBack(u) \/ CutShort(u)
  PROVE  StaffTyped' /\ UNCHANGED bot
<1> USE DEF StaffTyped, CommandState
<1>1. CASE Takeover(u)
  BY <1>1, Constants DEF Takeover
<1>2. CASE ReadHolder(u)
  BY <1>2, RowsTyped DEF ReadHolder, End
<1>3. CASE Claim(u)
  BY <1>3, RowsTyped DEF Claim, CompareAndSet, Step, End
<1>4. CASE Reopen(u)
  BY <1>4, RowsTyped DEF Reopen, Step, End
<1>5. CASE ReopenFails(u)
  BY <1>5, FaultTyped DEF ReopenFails, Step
<1>6. CASE Restore(u)
  BY <1>6, RowsTyped DEF Restore, CompareAndSet, End, Won
<1>7. CASE ClearSession(u)
  BY <1>7, RowsTyped DEF ClearSession, End
<1>8. CASE Release(u)
  BY <1>8, Constants DEF Release, Step
<1>9. CASE Authorize(u)
  BY <1>9, RowsTyped DEF Authorize, End
<1>10. CASE SetPending(u)
  BY <1>10, RowsTyped DEF SetPending, Step, End
<1>11. CASE SetPendingFails(u)
  BY <1>11, RowsTyped, FaultTyped DEF SetPendingFails, End
<1>12. CASE Leave(u)
  BY <1>12, RowsTyped DEF Leave, CompareAndSet, End, Won
<1>13. CASE CutShort(u)
  BY <1>13, RowsTyped, FaultTyped DEF CutShort, End
<1> QED
  BY <1>1, <1>2, <1>3, <1>4, <1>5, <1>6, <1>7, <1>8, <1>9, <1>10, <1>11, <1>12, <1>13
  DEF Take, GiveBack

\* Turns of the bot keep the types of what they write, and leave commands alone.
LEMMA TurnKeepsStaffTypes ==
  ASSUME TypeOK, (\E j \in Jobs : BotTurn(j)) \/ LoseWorker \/ Tick
  PROVE  StaffTyped' /\ UNCHANGED <<command, overtaken>>
<1>0. StaffTyped /\ BotTyped
  BY TypeParts
<1> USE <1>0 DEF StaffTyped
<1>1. ASSUME NEW j \in Jobs, BotTurn(j) PROVE StaffTyped' /\ UNCHANGED <<command, overtaken>>
  <2>1. /\ UNCHANGED <<command, given, overtaken>>
        /\ UNCHANGED faults \/ Fault
    BY <1>1 DEF BotTurn, Deliver, StartJob, NoteMessage, NoteFails, Acquire, GiveUp, ReadSession,
         Answer, SaveSession, HandOver, OpenByBot, OpenByBotFails, RecordHandoff, RemoveHolder,
         Cancel, staff
  <2>2. status' \in {"pending", "open"}
    BY <1>1 DEF BotTurn, Deliver, StartJob, NoteMessage, NoteFails, Acquire, GiveUp, ReadSession,
         Answer, SaveSession, HandOver, OpenByBot, OpenByBotFails, RecordHandoff, RemoveHolder,
         Cancel
  <2>3. session' \in {session, None, job[j].of}
    BY <1>1 DEF BotTurn, Deliver, StartJob, NoteMessage, NoteFails, Acquire, GiveUp, ReadSession,
         Answer, SaveSession, HandOver, OpenByBot, OpenByBotFails, RecordHandoff, RemoveHolder,
         Cancel
  <2>4. holder' \in {holder, None}
    BY <1>1 DEF BotTurn, Deliver, StartJob, NoteMessage, NoteFails, Acquire, GiveUp, ReadSession,
         Answer, SaveSession, HandOver, OpenByBot, OpenByBotFails, RecordHandoff, RemoveHolder,
         Cancel, Save, CompareAndSet
  <2>5. job[j].of \in Messages \cup {None}
    BY DEF BotTyped, JobState
  <2> QED BY <2>1, <2>2, <2>3, <2>4, <2>5, FaultTyped
<1>2. CASE LoseWorker
  BY <1>2, FaultTyped DEF LoseWorker, staff
<1>3. CASE Tick
  BY <1>3 DEF Tick, staff
<1> QED BY <1>1, <1>2, <1>3

-----------------------------------------------------------------------------
(* Turns and their lock.                                                   *)

OutOfTurn == {"none", "queued", "done", "noting", "waiting"}

\* A step of a job that leaves the lock alone: its row is typed, and it is in a
\* turn only if it was, with as long to live.
MovesOn(j) ==
    \E row \in JobState :
        /\ job' = [job EXCEPT ![j] = row]
        /\ row.pc \in OutOfTurn \/ (InTurn(j) /\ row.left = job[j].left)
        /\ UNCHANGED <<lock, token>>

\* In a turn, as the row says it.
LEMMA InTurnRow == ASSUME NEW j \in Jobs PROVE InTurn(j) <=> job[j].pc \notin OutOfTurn
  BY DEF InTurn, Running, OutOfTurn

\* The row of a job that ends.
LEMMA OverTyped ==
  ASSUME BotTyped, NEW j \in Jobs
  PROVE  Over(j) \in JobState /\ Over(j).pc = "done"
<1>1. NoJob \in JobState /\ job[j] \in JobState
  BY RowsTyped DEF BotTyped
<1> QED BY <1>1 DEF Over, JobState

\* Every step of a job moves it on, acquires the lock, or ends its turn.
LEMMA JobSteps ==
  ASSUME TypeOK, NEW j \in Jobs, BotTurn(j)
  PROVE  MovesOn(j) \/ Acquire(j) \/ (InTurn(j) /\ EndTurn(j))
<1>0. BotTyped /\ StaffTyped /\ job[j] \in JobState
  BY TypeParts DEF BotTyped
<1>1. ASSUME NEW row \in JobState, row.pc \in OutOfTurn, job' = [job EXCEPT ![j] = row],
             UNCHANGED <<lock, token>>
      PROVE  MovesOn(j)
  BY <1>1 DEF MovesOn
<1>2. EndJob(j) /\ UNCHANGED <<lock, token>> => MovesOn(j)
  BY <1>0, OverTyped DEF MovesOn, EndJob, OutOfTurn
<1>3. ASSUME NEW pc \in {"answering", "handing", "saving", "opening", "recording"},
             InTurn(j), Turn(j, pc), UNCHANGED <<lock, token>>
      PROVE  MovesOn(j)
  <2> DEFINE row == [job[j] EXCEPT !.pc = pc]
  <2>1. row \in JobState /\ row.left = job[j].left
    BY <1>0 DEF JobState
  <2>2. job' = [job EXCEPT ![j] = row]
    BY <1>0, <1>3 DEF Turn, BotTyped
  <2> QED BY <1>3, <2>1, <2>2 DEF MovesOn
<1>4. CASE Deliver(j)
  <2>1. PICK m \in Messages, seen \in {"pending", "open"} :
             job' = [job EXCEPT ![j] = [NoJob EXCEPT !.pc = "queued", !.of = m, !.seen = seen]]
    BY <1>4 DEF Deliver
  <2> DEFINE row == [NoJob EXCEPT !.pc = "queued", !.of = m, !.seen = seen]
  <2>2. row \in JobState /\ row.pc \in OutOfTurn
    BY RowsTyped DEF JobState, OutOfTurn
  <2>3. UNCHANGED <<lock, token>> /\ job' = [job EXCEPT ![j] = row]
    BY <1>4, <2>1 DEF Deliver
  <2> QED BY <1>1, <2>2, <2>3
<1>5. CASE StartJob(j)
  <2> DEFINE row == [job[j] EXCEPT !.pc = "noting", !.left = JobTimeout, !.read = holder]
  <2>1. row \in JobState /\ row.pc \in OutOfTurn
    <3>1. JobTimeout \in 0 .. JobTimeout /\ holder \in Users \cup {None}
      BY <1>0, Constants DEF StaffTyped
    <3> QED BY <1>0, <3>1 DEF JobState, OutOfTurn
  <2>2. UNCHANGED <<lock, token>> /\ job' = [job EXCEPT ![j] = row]
    BY <1>0, <1>5 DEF StartJob, BotTyped
  <2> QED BY <1>1, <2>1, <2>2
<1>6. ToTheBot(j) /\ UNCHANGED <<lock, token>> => MovesOn(j)
  <2> DEFINE row == [job[j] EXCEPT !.pc = "waiting", !.wait = LockWait, !.read = None]
  <2>1. row \in JobState /\ row.pc \in OutOfTurn
    <3>1. LockWait \in 0 .. LockWait
      BY Constants
    <3> QED BY <1>0, <3>1 DEF JobState, OutOfTurn
  <2>2. ToTheBot(j) => job' = [job EXCEPT ![j] = row] \/ EndJob(j)
    BY <1>0 DEF ToTheBot, BotTyped
  <2> HIDE DEF row
  <2> QED BY <1>1, <1>2, <2>1, <2>2
<1>7. CASE NoteMessage(j) \/ NoteFails(j)
  BY <1>6, <1>7 DEF NoteMessage, NoteFails
<1>8. CASE GiveUp(j)
  BY <1>2, <1>8 DEF GiveUp
<1>9. CASE ReadSession(j)
  <2>1. InTurn(j)
    BY <1>9 DEF ReadSession, InTurn, Running
  <2> QED BY <1>3, <1>9, <2>1 DEF ReadSession
<1>10. CASE Answer(j) \/ HandOver(j) \/ OpenByBot(j)
  <2>1. InTurn(j) /\ UNCHANGED <<lock, token>>
    BY <1>10 DEF Answer, HandOver, OpenByBot, InTurn, Running
  <2>2. Turn(j, "saving") \/ Turn(j, "opening") \/ Turn(j, "recording")
    BY <1>10 DEF Answer, HandOver, OpenByBot
  <2> QED BY <1>3, <2>1, <2>2
<1>11. CASE SaveSession(j) \/ OpenByBotFails(j) \/ RemoveHolder(j)
  BY <1>11 DEF SaveSession, OpenByBotFails, RemoveHolder, InTurn, Running
<1>12. CASE RecordHandoff(j)
  <2> DEFINE row == [job[j] EXCEPT !.pc = "removing", !.read = holder]
  <2>1. row \in JobState /\ row.left = job[j].left
    <3>1. holder \in Users \cup {None}
      BY <1>0 DEF StaffTyped
    <3> QED BY <1>0, <3>1 DEF JobState
  <2>2. UNCHANGED <<lock, token>> /\ job' = [job EXCEPT ![j] = row] /\ InTurn(j)
    BY <1>0, <1>12 DEF RecordHandoff, BotTyped, InTurn, Running
  <2> QED BY <2>1, <2>2 DEF MovesOn
<1>13. CASE Cancel(j)
  BY <1>2, <1>13 DEF Cancel
<1> QED
  BY <1>4, <1>5, <1>7, <1>8, <1>9, <1>10, <1>11, <1>12, <1>13 DEF BotTurn

\* Only one job is in a turn.
LEMMA TurnsExclude == TurnsHoldLock => OneTurnAtATime
  BY DEF TurnsHoldLock, OneTurnAtATime

\* A step of a job keeps the lock over the turn.
LEMMA JobKeepsLock ==
  ASSUME TypeOK, TurnsHoldLock, NEW j \in Jobs, BotTurn(j)
  PROVE  BotTyped' /\ TurnsHoldLock'
<1>0. BotTyped /\ job \in [Jobs -> JobState]
  BY TypeParts DEF BotTyped
<1>1. SUFFICES BotTyped' /\ \A i \in Jobs : job'[i].pc \notin OutOfTurn =>
                                lock'.owner = i /\ job'[i].left <= lock'.left
  BY InTurnRow DEF TurnsHoldLock, InTurn, Running, OutOfTurn
<1>2. CASE MovesOn(j)
  <2>1. PICK row \in JobState :
            /\ job' = [job EXCEPT ![j] = row]
            /\ row.pc \in OutOfTurn \/ (InTurn(j) /\ row.left = job[j].left)
            /\ UNCHANGED <<lock, token>>
    BY <1>2 DEF MovesOn
  <2>2. job'[j] = row /\ \A i \in Jobs \ {j} : job'[i] = job[i]
    BY <1>0, <2>1
  <2>3. BotTyped'
    BY <1>0, <2>1 DEF BotTyped
  <2> QED BY <2>1, <2>2, <2>3, InTurnRow DEF TurnsHoldLock
<1>3. CASE Acquire(j)
  <2>1. /\ lock.owner = None /\ lock' = FreshLock(j) /\ token' = j
        /\ job' = [job EXCEPT ![j].pc = "turn"]
    BY <1>3 DEF Acquire, Turn
  <2>2. \A i \in Jobs : ~InTurn(i)
    BY <2>1, Constants DEF TurnsHoldLock
  <2>3. /\ job'[j] = [job[j] EXCEPT !.pc = "turn"]
        /\ \A i \in Jobs \ {j} : job'[i] = job[i] /\ job[i].pc \in OutOfTurn
    BY <1>0, <2>1, <2>2, InTurnRow
  <2>4. job'[j] \in JobState /\ job'[j].left = job[j].left
    BY <1>0, <2>3 DEF JobState
  <2>5. job[j].left <= LockTtl
    BY <1>0, Constants DEF JobState
  <2>6. BotTyped'
    BY <1>0, <2>1, <2>3, <2>4, RowsTyped DEF BotTyped
  <2> QED BY <2>1, <2>3, <2>4, <2>5, <2>6 DEF FreshLock
<1>4. CASE InTurn(j) /\ EndTurn(j)
  <2>1. /\ job' = [job EXCEPT ![j] = Over(j)]
        /\ lock' \in {lock, Free} /\ token' = None
    BY <1>4 DEF EndTurn, EndJob, Unlock
  <2>2. /\ job'[j].pc \in OutOfTurn
        /\ \A i \in Jobs \ {j} : job'[i] = job[i] /\ ~InTurn(i)
    BY <1>0, <1>4, <2>1, OverTyped DEF TurnsHoldLock, OutOfTurn
  <2>3. BotTyped'
    BY <1>0, <2>1, RowsTyped, OverTyped DEF BotTyped
  <2> QED BY <2>2, <2>3, InTurnRow
<1> QED BY <1>2, <1>3, <1>4, JobSteps

\* A lost worker has no turns; time takes from a job what it takes from its lock.
LEMMA WorkerKeepsLock ==
  ASSUME TypeOK, TurnsHoldLock, LoseWorker \/ Tick
  PROVE  BotTyped' /\ TurnsHoldLock'
<1>0. BotTyped /\ job \in [Jobs -> JobState]
  BY TypeParts DEF BotTyped
<1>1. SUFFICES BotTyped' /\ \A i \in Jobs : job'[i].pc \notin OutOfTurn =>
                                lock'.owner = i /\ job'[i].left <= lock'.left
  BY InTurnRow DEF TurnsHoldLock, InTurn, Running, OutOfTurn
<1>2. CASE LoseWorker
  <2>1. /\ job' = [j \in Jobs |-> IF Running(j) THEN Over(j) ELSE job[j]]
        /\ token' = None /\ lock' = lock
    BY <1>2 DEF LoseWorker
  <2>2. \A j \in Jobs : job'[j] \in JobState /\ job'[j].pc \in OutOfTurn
    BY <1>0, <2>1, OverTyped DEF Running, OutOfTurn
  <2>3. BotTyped'
    BY <1>0, <2>1, <2>2 DEF BotTyped
  <2> QED BY <2>2, <2>3
<1>3. CASE Tick
  <2>1. /\ \A j \in Jobs : Running(j) => job[j].left > 0
        /\ job' = [j \in Jobs |-> IF Running(j) THEN Older(job[j]) ELSE job[j]]
        /\ lock' = Aged(lock) /\ token' = token
    BY <1>3 DEF Tick
  <2>2. ASSUME NEW row \in JobState, row.left > 0
        PROVE  /\ Older(row) \in JobState /\ Older(row).pc = row.pc
               /\ Older(row).left = row.left - 1
    <3>1. row.left \in 0 .. JobTimeout /\ row.wait \in 0 .. LockWait
      BY DEF JobState
    <3>2. row.left - 1 \in 0 .. JobTimeout
          /\ (IF row.wait = 0 THEN 0 ELSE row.wait - 1) \in 0 .. LockWait
      BY <2>2, <3>1, Constants
    <3>3. Older(row) = [row EXCEPT !.left = row.left - 1,
                                   !.wait = IF row.wait = 0 THEN 0 ELSE row.wait - 1]
      BY DEF Older
    <3> QED BY <3>2, <3>3 DEF JobState
  <2>3. lock.left \in Nat /\ lock.left # 0 => Aged(lock) = [lock EXCEPT !.left = lock.left - 1]
    BY DEF Aged
  <2>4. /\ Aged(lock) \in [owner : Jobs \cup {None}, left : 0 .. LockTtl]
        /\ lock.left > 0 => Aged(lock).owner = lock.owner /\ Aged(lock).left = lock.left - 1
    <3>1. lock \in [owner : Jobs \cup {None}, left : 0 .. LockTtl] /\ LockTtl \in Nat
      BY <1>0, Constants DEF BotTyped
    <3>2. lock.left \in 0 .. LockTtl
      BY <3>1
    <3>3. CASE lock.left = 0
      BY <3>3, RowsTyped DEF Aged
    <3>4. CASE lock.left # 0
      <4>1. lock.left - 1 \in 0 .. LockTtl
        BY <3>1, <3>2, <3>4
      <4> QED BY <2>3, <3>1, <3>2, <3>4, <4>1
    <3> QED BY <3>3, <3>4
  <2>5. \A j \in Jobs : job'[j] \in JobState
    BY <1>0, <2>1, <2>2
  <2>6. BotTyped'
    BY <1>0, <2>1, <2>4, <2>5 DEF BotTyped
  <2>7. ASSUME NEW i \in Jobs, job'[i].pc \notin OutOfTurn
        PROVE  lock'.owner = i /\ job'[i].left <= lock'.left
    <3>1. job[i] \in JobState
      BY <1>0
    <3>2. Running(i) /\ job'[i] = Older(job[i]) /\ job[i].left > 0
      BY <2>1, <2>7 DEF Running, OutOfTurn
    <3>3. InTurn(i) /\ job'[i].left = job[i].left - 1
      BY <2>2, <2>7, <3>1, <3>2, InTurnRow
    <3>4. lock.owner = i /\ job[i].left <= lock.left
      BY <3>3 DEF TurnsHoldLock
    <3>5. job[i].left \in Nat /\ lock.left \in Nat
      BY <1>0, <3>1 DEF JobState, BotTyped
    <3> QED BY <2>1, <2>4, <3>2, <3>3, <3>4, <3>5
  <2> QED BY <2>6, <2>7
<1> QED BY <1>2, <1>3

-----------------------------------------------------------------------------
(* Commands of the staff.                                                  *)

\* A command only takes from somebody, or leaves for somebody, by right.
LEMMA StaffKeepsRight ==
  ASSUME StaffTyped, CommandsByRight, NEW u \in Users, Take(u) \/ GiveBack(u) \/ CutShort(u)
  PROVE  CommandsByRight'
<1>0. command \in [Users -> CommandState] /\ None \notin Users
  BY Constants DEF StaffTyped
<1>1. SUFFICES ASSUME \A w \in Users \ {u} : command'[w] = command[w]
               PROVE  /\ command'[u].pc = "claiming" =>
                            command'[u].read \in {None, u} \/ u \in Superadmins
                      /\ command'[u].pc \in {"authorized", "leaving"} =>
                            command'[u].read = u \/ u \in Superadmins
  <2>1. \E row : command' = [command EXCEPT ![u] = row]
    BY DEF Take, GiveBack, CutShort, Takeover, ReadHolder, Claim, Reopen, ReopenFails, Restore,
           ClearSession, Release, Authorize, SetPending, SetPendingFails, Leave, Step, End
  <2>2. \A w \in Users \ {u} : command'[w] = command[w]
    BY <1>0, <2>1
  <2> QED BY <1>1, <2>2 DEF CommandsByRight
<1> USE <1>0 DEF CommandState
<1>2. CASE command'[u].pc \notin {"claiming", "authorized", "leaving"}
  BY <1>2
<1>3. CASE ReadHolder(u) \/ Authorize(u)
  BY <1>3 DEF ReadHolder, Authorize, Authorized, End, NoCommand
<1>4. CASE SetPending(u)
  BY <1>4 DEF SetPending, Step, End, NoCommand, CommandsByRight
<1>5. CASE Takeover(u) \/ Claim(u) \/ Reopen(u) \/ ReopenFails(u) \/ Restore(u)
             \/ ClearSession(u) \/ Release(u) \/ SetPendingFails(u) \/ Leave(u) \/ CutShort(u)
  BY <1>2, <1>5
  DEF Takeover, Claim, Reopen, ReopenFails, Restore, ClearSession, Release, SetPendingFails,
      Leave, CutShort, Step, End, NoCommand
<1> QED BY <1>3, <1>4, <1>5 DEF Take, GiveBack

\* A conversation changes hands by right, in every kind of step.
LEMMA StepsAreByRight == ASSUME TypeOK, CommandsByRight, [Next]_vars PROVE HandsChange
<1> SUFFICES ASSUME holder # None, holder' # holder PROVE ByRight
  BY DEF HandsChange
<1>1. ASSUME NEW u \in Users, Claim(u)
      PROVE  \E s \in Superadmins : command[s].pc = "claiming" /\ command[s].read = holder
  BY <1>1 DEF Claim, CompareAndSet, CommandsByRight
<1>2. ASSUME NEW u \in Users, Restore(u) PROVE command[holder].pc = "restoring"
  BY <1>2 DEF Restore, CompareAndSet
<1>3. ASSUME NEW u \in Users, Leave(u)
      PROVE  \/ command[holder].pc = "leaving"
             \/ \E s \in Superadmins : command[s].pc = "leaving" /\ command[s].read = holder
  BY <1>3 DEF Leave, CompareAndSet, CommandsByRight
<1>4. ASSUME NEW j \in Jobs, RemoveHolder(j)
      PROVE  holder' = None /\ job[j].pc = "removing" /\ job[j].read = holder
  BY <1>4 DEF RemoveHolder, CompareAndSet, Save
<1>5. ASSUME NEW u \in Users, Take(u) \/ GiveBack(u) \/ CutShort(u)
      PROVE  Claim(u) \/ Restore(u) \/ Leave(u)
  BY <1>5 DEF Take, GiveBack, CutShort, Takeover, ReadHolder, Reopen, ReopenFails,
              ClearSession, Release, Authorize, SetPending, SetPendingFails
<1>6. ASSUME NEW j \in Jobs, BotTurn(j) PROVE RemoveHolder(j)
  BY <1>6 DEF BotTurn, Deliver, StartJob, NoteMessage, NoteFails, Acquire, GiveUp, ReadSession,
              Answer, SaveSession, HandOver, OpenByBot, OpenByBotFails, RecordHandoff, Cancel, Save
<1>7. ~LoseWorker /\ ~Tick /\ ~UNCHANGED vars
  BY DEF LoseWorker, Tick, vars
<1> QED BY <1>1, <1>2, <1>3, <1>4, <1>5, <1>6, <1>7 DEF Next, ByRight

-----------------------------------------------------------------------------
(* A conversation that is taken is open, or about to be.                   *)

\* What a chain needs to be one after a step.
LEMMA ChainAfter ==
  ASSUME NEW S \in SUBSET Users,
         \A u \in S : command'[u].pc \in {"opening", "restoring"},
         holder' # None => holder' \in S,
         \A u \in S : command'[u].read \notin {None, u} =>
                         command'[u].read \in S /\ command'[u].read # holder',
         \A u, w \in S : command'[u].read = command'[w].read
                            /\ command'[u].read \notin {None, u, w} => u = w
  PROVE  \E T \in SUBSET Users : Chain(T)'
<1>1. Chain(S)'
  BY DEF Chain, Taking, TookFrom
<1> QED BY <1>1

\* Without a holder the chain is empty.
LEMMA NobodyChains == ASSUME holder' = None PROVE \E T \in SUBSET Users : Chain(T)'
<1>1. Chain({})'
  BY DEF Chain
<1> QED BY <1>1

\* A step that leaves commands in a chain and the holder alone keeps the chain.
LEMMA StillChain ==
  ASSUME NEW S \in SUBSET Users, Chain(S), UNCHANGED holder,
         \A u \in S : command'[u].pc \in {"opening", "restoring"}
                        /\ command'[u].read = command[u].read
  PROVE  \E T \in SUBSET Users : Chain(T)'
<1>1. Chain(S)'
  BY DEF Chain, Taking, TookFrom
<1> QED BY <1>1

\* Commands keep the reason why a conversation may be pending.
LEMMA StaffKeepsPending ==
  ASSUME StaffTyped, PendingIsTransient, NEW u \in Users, Take(u) \/ GiveBack(u) \/ CutShort(u)
  PROVE  PendingIsTransient'
<1>0. /\ command \in [Users -> CommandState] /\ None \notin Users
      /\ overtaken \in BOOLEAN /\ holder \in Users \cup {None}
  BY Constants DEF StaffTyped
<1>1. SUFFICES ASSUME status' = "pending", ~overtaken', ~Settling'
               PROVE  \E T \in SUBSET Users : Chain(T)'
  BY DEF PendingIsTransient
<1>2. \A w \in Users : command'[w].pc # "leaving"
  BY <1>1 DEF Settling
<1>3. ASSUME UNCHANGED <<status, overtaken, holder>>,
             command[u].pc \notin {"opening", "restoring", "leaving"},
             \A w \in Users \ {u} : command'[w] = command[w]
      PROVE  \E T \in SUBSET Users : Chain(T)'
  <2>1. ~Settling
    BY <1>2, <1>3 DEF Settling
  <2>2. PICK S \in SUBSET Users : Chain(S)
    BY <1>1, <1>3, <2>1 DEF PendingIsTransient
  <2>3. u \notin S
    BY <1>3, <2>2 DEF Chain, Taking
  <2>4. \A w \in S : command'[w] = command[w] /\ Taking(w)
    BY <1>3, <2>2, <2>3 DEF Chain
  <2> QED BY <1>3, <2>2, <2>4, StillChain DEF Taking
<1>4. CASE Takeover(u) \/ ReadHolder(u) \/ ClearSession(u) \/ Release(u) \/ Authorize(u)
  <2>1. /\ UNCHANGED <<status, overtaken, holder>>
        /\ command[u].pc \notin {"opening", "restoring", "leaving"}
    BY <1>4 DEF Takeover, ReadHolder, ClearSession, Release, Authorize
  <2>2. \A w \in Users \ {u} : command'[w] = command[w]
    BY <1>0, <1>4 DEF Takeover, ReadHolder, ClearSession, Release, Authorize, Step, End
  <2> QED BY <1>3, <2>1, <2>2
<1>5. CASE Reopen(u)
  BY <1>1, <1>5 DEF Reopen
<1>6. CASE CutShort(u)
  BY <1>1, <1>6 DEF CutShort
<1>7. CASE SetPendingFails(u)
  <2>1. /\ UNCHANGED <<status, overtaken, holder>>
        /\ command[u].pc \notin {"opening", "restoring", "leaving"}
    BY <1>0, <1>1, <1>7 DEF SetPendingFails
  <2>2. \A w \in Users \ {u} : command'[w] = command[w]
    BY <1>0, <1>7 DEF SetPendingFails, End
  <2> QED BY <1>3, <2>1, <2>2
<1>8. CASE SetPending(u)
  <2>1. command[u].read = holder
    BY <1>1, <1>8 DEF SetPending
  <2>2. command[u].read = None
    <3>1. Step(u, "leaving") => command'[u].pc = "leaving"
      BY <1>0 DEF Step, CommandState
    <3> QED BY <1>2, <1>8, <3>1 DEF SetPending
  <2>3. holder' = None
    BY <1>8, <2>1, <2>2 DEF SetPending
  <2> QED BY <2>3, NobodyChains
<1>9. CASE Leave(u)
  <2>1. holder' = None
    BY <1>1, <1>9 DEF Leave, CompareAndSet, Won
  <2> QED BY <2>1, NobodyChains
<1>10. CASE ReopenFails(u)
  <2>1. status = "pending" /\ UNCHANGED <<overtaken, holder>>
    BY <1>1, <1>10 DEF ReopenFails
  <2>2. /\ command'[u] = [command[u] EXCEPT !.pc = "restoring"]
        /\ \A w \in Users \ {u} : command'[w] = command[w]
        /\ command[u].pc = "opening"
    BY <1>0, <1>10 DEF ReopenFails, Step
  <2>3. command'[u].pc = "restoring" /\ command'[u].read = command[u].read
    BY <1>0, <2>2 DEF CommandState
  <2>4. ~Settling
    BY <1>2, <2>2 DEF Settling
  <2>5. PICK S \in SUBSET Users : Chain(S)
    BY <1>1, <2>1, <2>4 DEF PendingIsTransient
  <2>6. \A w \in S : command'[w].pc \in {"opening", "restoring"}
                        /\ command'[w].read = command[w].read
    BY <2>2, <2>3, <2>5 DEF Chain, Taking
  <2> QED BY <2>1, <2>5, <2>6, StillChain
<1>11. CASE Claim(u)
  <2>0. UNCHANGED <<status, overtaken>> /\ command[u].pc = "claiming"
    BY <1>11 DEF Claim
  <2>1. ~Won(command[u].read) \/ Won(command[u].read)
    OBVIOUS
  <2>2. CASE ~Won(command[u].read)
    <3>1. UNCHANGED holder /\ \A w \in Users \ {u} : command'[w] = command[w]
      BY <1>0, <1>11, <2>2 DEF Claim, Won, CompareAndSet, End
    <3> QED BY <1>3, <2>0, <3>1
  <2>3. CASE Won(command[u].read)
    <3>1. /\ holder = command[u].read /\ holder' = u
          /\ command' = [command EXCEPT ![u].pc = "opening"]
      BY <1>11, <2>3 DEF Claim, Won, CompareAndSet, Step
    <3>2. /\ command'[u].pc = "opening" /\ command'[u].read = command[u].read
          /\ \A w \in Users \ {u} : command'[w] = command[w]
      BY <1>0, <3>1 DEF CommandState
    <3>3. ~Settling
      BY <1>2, <2>0, <3>2 DEF Settling
    <3>4. PICK S \in SUBSET Users : Chain(S)
      BY <1>1, <2>0, <3>3 DEF PendingIsTransient
    <3>5. u \notin S
      BY <2>0, <3>4 DEF Chain, Taking
    <3>6. CASE holder = None
      <4> DEFINE T == {u}
      <4>1. T \in SUBSET Users /\ holder' \in T
        BY <3>1
      <4>2. \A v \in T : command'[v].pc \in {"opening", "restoring"} /\ command'[v].read = None
        BY <3>1, <3>2, <3>6
      <4> HIDE DEF T
      <4> QED BY <4>1, <4>2, ChainAfter
    <3>7. CASE holder # None
      <4> DEFINE T == S \cup {u}
      <4>1. holder \in S /\ holder \in Users
        BY <1>0, <3>4, <3>7 DEF Chain
      <4>2. \A w \in S : /\ command'[w] = command[w] /\ Taking(w)
                         /\ command[w].read \in Users \cup {None}
        BY <1>0, <3>2, <3>4, <3>5 DEF Chain, CommandState
      <4>3. \A w \in S : command[w].read \notin {None, w} =>
                            command[w].read \in S /\ command[w].read # holder
        BY <3>4, <4>2 DEF Chain, TookFrom
      <4>4. \A v, w \in S : command[v].read = command[w].read
                               /\ command[v].read \notin {None, v, w} => v = w
        BY <3>4, <4>2 DEF Chain, TookFrom
      <4>5. \A v \in T : command'[v].pc \in {"opening", "restoring"}
        BY <3>2, <4>2 DEF Taking
      <4>6. \A v \in T : command'[v].read \notin {None, v} =>
                            command'[v].read \in T /\ command'[v].read # holder'
        BY <3>1, <3>2, <3>5, <4>1, <4>2, <4>3
      <4>7. \A v, w \in T : command'[v].read = command'[w].read
                               /\ command'[v].read \notin {None, v, w} => v = w
        BY <3>1, <3>2, <4>2, <4>3, <4>4
      <4>8. holder' \in T /\ T \in SUBSET Users
        BY <3>1
      <4> HIDE DEF T
      <4> QED BY <4>5, <4>6, <4>7, <4>8, ChainAfter
    <3> QED BY <3>6, <3>7
  <2> QED BY <2>1, <2>2, <2>3
<1>12. CASE Restore(u)
  <2>1. /\ UNCHANGED status /\ ~overtaken /\ holder = u /\ command[u].pc = "restoring"
        /\ holder' = IF command[u].read = u THEN None ELSE command[u].read
    BY <1>1, <1>12 DEF Restore, CompareAndSet, Won
  <2>2. /\ command'[u] = NoCommand /\ \A w \in Users \ {u} : command'[w] = command[w]
        /\ command[u].read \in Users \cup {None}
    BY <1>0, <1>12 DEF Restore, End, CommandState
  <2>3. ~Settling
    BY <1>2, <2>1, <2>2 DEF Settling
  <2>4. PICK S \in SUBSET Users : Chain(S)
    BY <1>1, <2>1, <2>3 DEF PendingIsTransient
  <2> DEFINE T == S \ {u}
  <2>5. \A w \in T : /\ command'[w] = command[w] /\ Taking(w)
                     /\ command[w].read \in Users \cup {None}
    BY <1>0, <2>2, <2>4 DEF Chain, CommandState
  <2>6. u \in S /\ \A w \in S : command[w].read \notin {None, w} =>
                        command[w].read \in S /\ command[w].read # u
    BY <1>0, <2>1, <2>2, <2>4, <2>5 DEF Chain, TookFrom
  <2>7. \A v, w \in S : command[v].read = command[w].read
                           /\ command[v].read \notin {None, v, w} => v = w
    BY <2>2, <2>4, <2>5 DEF Chain, TookFrom
  <2>8. \A v \in T : command'[v].pc \in {"opening", "restoring"}
    BY <2>5 DEF Taking
  <2>9. holder' # None => holder' \in T
    BY <2>1, <2>2, <2>6
  <2>10. \A v \in T : command'[v].read \notin {None, v} =>
                         command'[v].read \in T /\ command'[v].read # holder'
    BY <2>1, <2>2, <2>5, <2>6, <2>7
  <2>11. \A v, w \in T : command'[v].read = command'[w].read
                            /\ command'[v].read \notin {None, v, w} => v = w
    BY <2>5, <2>7
  <2>12. T \in SUBSET Users
    OBVIOUS
  <2> HIDE DEF T
  <2> QED BY <2>8, <2>9, <2>10, <2>11, <2>12, ChainAfter
<1> QED
  BY <1>4, <1>5, <1>6, <1>7, <1>8, <1>9, <1>10, <1>11, <1>12 DEF Take, GiveBack

\* The bot opens a conversation, or leaves it to nobody.
LEMMA BotKeepsPending ==
  ASSUME PendingIsTransient, (\E j \in Jobs : BotTurn(j)) \/ LoseWorker \/ Tick,
         UNCHANGED <<command, overtaken>>
  PROVE  PendingIsTransient'
<1>1. SUFFICES ASSUME status' = "pending", ~overtaken', ~Settling'
               PROVE  \E T \in SUBSET Users : Chain(T)'
  BY DEF PendingIsTransient
<1>2. status = "pending" /\ ~overtaken /\ ~Settling /\ holder' \in {None, holder}
  BY <1>1 DEF BotTurn, Deliver, StartJob, NoteMessage, NoteFails, Acquire, GiveUp, ReadSession,
         Answer, SaveSession, HandOver, OpenByBot, OpenByBotFails, RecordHandoff, RemoveHolder,
         Cancel, LoseWorker, Tick, Save, CompareAndSet, Settling
<1>3. PICK S \in SUBSET Users : Chain(S)
  BY <1>2 DEF PendingIsTransient
<1>4. CASE holder' = None
  BY <1>4, NobodyChains
<1>5. CASE holder' = holder
  BY <1>3, <1>5, StillChain DEF Chain, Taking
<1> QED BY <1>2, <1>4, <1>5

-----------------------------------------------------------------------------
(* The invariant, and what follows from it.                                *)

\* At first nobody has the conversation.
LEMMA InitInv == Init => InboxInv
<1> SUFFICES ASSUME Init PROVE InboxInv
  OBVIOUS
<1>1. TypeOK
  <2>1. 0 \in 0 .. MaxCommands /\ 0 \in 0 .. MaxFaults
    BY Constants
  <2> QED BY <2>1, RowsTyped DEF Init, TypeOK
<1>2. TurnsHoldLock /\ CommandsByRight
  BY DEF Init, TurnsHoldLock, CommandsByRight, InTurn, Running, NoJob, NoCommand
<1>3. Chain({})
  BY DEF Init, Chain
<1> QED BY <1>1, <1>2, <1>3 DEF InboxInv, PendingIsTransient

\* Every step keeps the invariant.
LEMMA NextKeepsInv == ASSUME InboxInv, [Next]_vars PROVE InboxInv'
<1>0. TypeOK /\ BotTyped /\ StaffTyped /\ TurnsHoldLock /\ CommandsByRight /\ PendingIsTransient
  BY TypeParts DEF InboxInv
<1>1. ASSUME NEW u \in Users, Take(u) \/ GiveBack(u) \/ CutShort(u) PROVE InboxInv'
  <2>1. StaffTyped' /\ UNCHANGED bot
    BY <1>0, <1>1, StaffKeepsTypes
  <2>2. BotTyped' /\ TurnsHoldLock'
    BY <1>0, <2>1 DEF BotTyped, TurnsHoldLock, InTurn, Running, bot
  <2>3. TypeOK'
    BY <2>1, <2>2 DEF TypeOK, BotTyped, StaffTyped
  <2>4. CommandsByRight' /\ PendingIsTransient'
    BY <1>0, <1>1, StaffKeepsRight, StaffKeepsPending
  <2> QED BY <2>2, <2>3, <2>4 DEF InboxInv
<1>2. CASE (\E j \in Jobs : BotTurn(j)) \/ LoseWorker \/ Tick
  <2>1. StaffTyped' /\ UNCHANGED <<command, overtaken>>
    BY <1>0, <1>2, TurnKeepsStaffTypes
  <2>2. BotTyped' /\ TurnsHoldLock'
    BY <1>0, <1>2, JobKeepsLock, WorkerKeepsLock
  <2>3. TypeOK'
    BY <2>1, <2>2 DEF TypeOK, BotTyped, StaffTyped
  <2>4. CommandsByRight'
    BY <1>0, <2>1 DEF CommandsByRight
  <2>5. PendingIsTransient'
    BY <1>0, <1>2, <2>1, BotKeepsPending
  <2> QED BY <2>2, <2>3, <2>4, <2>5 DEF InboxInv
<1>3. CASE UNCHANGED vars
  <2> USE <1>3 DEF vars, staff, bot
  <2>1. TypeOK'
    BY <1>0 DEF TypeOK
  <2>2. TurnsHoldLock' /\ CommandsByRight'
    BY <1>0 DEF TurnsHoldLock, CommandsByRight, InTurn, Running
  <2>3. PendingIsTransient'
    <3>1. ASSUME NEW S \in SUBSET Users, Chain(S) PROVE Chain(S)'
      BY <3>1 DEF Chain, Taking, TookFrom
    <3> QED BY <1>0, <3>1 DEF PendingIsTransient, Settling
  <2> QED BY <2>1, <2>2, <2>3 DEF InboxInv
<1> QED BY <1>1, <1>2, <1>3 DEF Next

\* The invariant holds in every state.
LEMMA InvHolds == Spec => []InboxInv
  BY InitInv, NextKeepsInv, PTL DEF Spec

\* Rows keep to their columns, and the lock in Redis to its life.
THEOREM TypeCorrect == Spec => []TypeOK
<1>1. InboxInv => TypeOK
  BY DEF InboxInv
<1> QED BY <1>1, InvHolds, PTL

\* RedisLockAdapter and the time limit of the worker: two turns of the bot never
\* run at a time.
THEOREM TurnsRunOneAtATime == Spec => []OneTurnAtATime
<1>1. InboxInv => OneTurnAtATime
  BY TurnsExclude DEF InboxInv
<1> QED BY <1>1, InvHolds, PTL

\* TakeoverConversation and ReleaseConversation: once everything has ended, who
\* has a conversation has it open in Chatwoot, but for the exceptions noted.
THEOREM TakenConversationsAreOpen == Spec => []TakenIsOpen
<1>1. InboxInv => TakenIsOpen
  <2> SUFFICES ASSUME InboxInv, Quiet, holder # None, status # "open", ~overtaken PROVE FALSE
    BY DEF TakenIsOpen
  <2>1. status = "pending" /\ ~Settling
    BY DEF InboxInv, TypeOK, Quiet, Settling
  <2>2. PICK S \in SUBSET Users : Chain(S)
    BY <2>1 DEF InboxInv, PendingIsTransient
  <2>3. holder \in S /\ holder \in Users /\ Taking(holder)
    BY <2>2 DEF Chain
  <2> QED BY <2>3 DEF Taking, Quiet
<1> QED BY <1>1, InvHolds, PTL

\* _authorize and the check of execute hold until the conditional update: nobody
\* loses a conversation to one who may not take it.
THEOREM ConversationsChangeHandsByRight == Spec => HandsChangeByRight
<1>1. InboxInv /\ [Next]_vars => HandsChange
  BY StepsAreByRight DEF InboxInv
<1> QED BY <1>1, InvHolds, PTL DEF Spec, HandsChangeByRight
=============================================================================

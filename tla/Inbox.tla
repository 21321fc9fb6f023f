------------------------------- MODULE Inbox -------------------------------
(***************************************************************************)
(* One conversation of the inbox: whether Chatwoot leaves it to the bot    *)
(* (pending) or to a person (open), and who of the staff has it in the     *)
(* database.  Both are written by commands of the staff and by the bot     *)
(* when it hands the client over, in separate steps and without a lock     *)
(* that spans them.  Turns of the bot run in a worker, one per message,    *)
(* behind a lock in Redis that expires.                                    *)
(*                                                                         *)
(* The messages themselves, the marks of the commercial cycle and the      *)
(* events for the browsers are left out; messages to the client go through *)
(* the outbox (module Outbox).                                             *)
(***************************************************************************)
EXTENDS Integers, FiniteSets

CONSTANTS
    Users,         \* the staff that attends clients
    Superadmins,   \* those who may take what another has
    Messages,      \* messages of the client
    Jobs,          \* jobs of the worker; a message may get more than one
    None,
    LockTtl,       \* life of the lock of a turn
    LockWait,      \* longest wait for the lock
    JobTimeout,    \* life of a job of the worker
    MaxCommands,   \* bound: commands of a user
    MaxFaults      \* bound: failures of Chatwoot, crashes, lost connections

ASSUME InboxConstants ==
    /\ Superadmins \subseteq Users
    /\ None \notin Users \cup Messages \cup Jobs
    /\ LockTtl \in Nat \ {0} /\ LockWait \in Nat /\ JobTimeout \in Nat \ {0}
    /\ JobTimeout <= LockTtl
    /\ MaxCommands \in Nat /\ MaxFaults \in Nat

VARIABLES
    status,    \* the conversation in Chatwoot: "pending" or "open"
    holder,    \* assigned_user_id of the link
    session,   \* last message of the stored session of the bot, or None
    command,   \* user -> the command in progress
    given,     \* user -> commands given so far
    job,       \* job -> its state
    lock,      \* [owner, left]: the key in Redis
    token,     \* the job whose token the adapter of the worker remembers
    faults,    \* faults so far
    overtaken  \* history: the conversation changed hands during a release or
               \* before a failed taking was undone, or a fault hid what happened

vars == <<status, holder, session, command, given, job, lock, token,
          faults, overtaken>>

bot == <<job, lock, token>>
staff == <<command, given>>

-----------------------------------------------------------------------------

NoCommand == [pc |-> "idle", wasOpen |-> FALSE, read |-> None]

CommandState ==
    [pc : {"idle", "taking", "claiming", "opening", "restoring", "clearing",
           "releasing", "authorized", "leaving"},
     wasOpen : BOOLEAN, read : Users \cup {None}]

NoJob == [pc |-> "none", of |-> None, seen |-> "open", left |-> 0, wait |-> 0, read |-> None]

JobState ==
    [pc : {"none", "queued", "noting", "waiting", "turn", "answering", "saving", "handing",
           "opening", "recording", "removing", "done"},
     of : Messages \cup {None},
     seen : {"pending", "open"},     \* status in the webhook
     left : 0 .. JobTimeout,         \* until the worker cancels it
     wait : 0 .. LockWait,           \* until it gives up waiting
     read : Users \cup {None}]       \* holder in the row of the link it read

Free == [owner |-> None, left |-> 0]

FreshLock(j) == [owner |-> j, left |-> LockTtl]

Fault == faults < MaxFaults /\ faults' = faults + 1

\* assigned_user_id changes only by a conditional update of one statement.
CompareAndSet(expected, new) == holder' = IF holder = expected THEN new ELSE holder

Won(expected) == holder = expected

\* A link is saved without a lock, long after it was read, in every column but
\* that of its holder.
Save_WholeRow(read) == holder' = read
Save(read) == holder' = holder

Step(u, pc) == command' = [command EXCEPT ![u].pc = pc]
End(u) == command' = [command EXCEPT ![u] = NoCommand]

-----------------------------------------------------------------------------
(* Taking a conversation.                                                  *)

Takeover(u) ==
    /\ command[u].pc = "idle" /\ given[u] < MaxCommands
    /\ given' = [given EXCEPT ![u] = @ + 1]
    /\ command' = [command EXCEPT ![u] =
            [pc |-> "taking", wasOpen |-> status = "open", read |-> None]]
    /\ UNCHANGED <<status, holder, session, bot, faults, overtaken>>

\* The holder that counts is the stored one, also when Chatwoot is pending.
ReadHolder(u) ==
    /\ command[u].pc = "taking"
    /\ IF \/ holder = u /\ command[u].wasOpen
          \/ holder \notin {None, u} /\ u \notin Superadmins
       THEN End(u)
       ELSE command' = [command EXCEPT ![u].pc = "claiming", ![u].read = holder]
    /\ UNCHANGED <<status, holder, session, given, bot, faults, overtaken>>

Claim(u) ==
    /\ command[u].pc = "claiming"
    /\ CompareAndSet(command[u].read, u)
    /\ IF Won(command[u].read) THEN Step(u, "opening") ELSE End(u)
    /\ UNCHANGED <<status, session, given, bot, faults, overtaken>>

Reopen_IfNotOpen(u) ==
    /\ command[u].pc = "opening"
    /\ status' = IF command[u].wasOpen THEN status ELSE "open"
    /\ IF command[u].wasOpen THEN End(u) ELSE Step(u, "clearing")
    /\ UNCHANGED <<holder, session, given, bot, faults, overtaken>>

\* Chatwoot is told even if it was open: that answer may be old.
Reopen(u) ==
    /\ command[u].pc = "opening"
    /\ status' = "open"
    /\ IF command[u].wasOpen THEN End(u) ELSE Step(u, "clearing")
    /\ UNCHANGED <<holder, session, given, bot, faults, overtaken>>

\* A request that fails for want of an answer may have been carried out.
ReopenFails(u) ==
    /\ command[u].pc = "opening" /\ Fault
    /\ status' \in {status, "open"}
    /\ Step(u, "restoring")
    /\ UNCHANGED <<holder, session, given, bot, overtaken>>

\* The previous holder gets the conversation back, or nobody has it; if another
\* took it meanwhile, nothing is undone.
Restore(u) ==
    /\ command[u].pc = "restoring"
    /\ CompareAndSet(u, IF command[u].read = u THEN None ELSE command[u].read)
    /\ overtaken' = (overtaken \/ ~Won(u))
    /\ End(u)
    /\ UNCHANGED <<status, session, given, bot, faults>>

\* The manual handoff is recorded and the bot forgets, if Redis answers.
ClearSession(u) ==
    /\ command[u].pc = "clearing"
    /\ session' \in {None, session}
    /\ End(u)
    /\ UNCHANGED <<status, holder, given, bot, faults, overtaken>>

-----------------------------------------------------------------------------
(* Giving it back to the bot.                                              *)

Release(u) ==
    /\ command[u].pc = "idle" /\ given[u] < MaxCommands
    /\ status = "open"
    /\ given' = [given EXCEPT ![u] = @ + 1]
    /\ Step(u, "releasing")
    /\ UNCHANGED <<status, holder, session, bot, faults, overtaken>>

Authorized(u) == holder = u \/ u \in Superadmins

Authorize(u) ==
    /\ command[u].pc = "releasing"
    /\ IF Authorized(u)
       THEN command' = [command EXCEPT ![u].pc = "authorized", ![u].read = holder]
       ELSE End(u)
    /\ UNCHANGED <<status, holder, session, given, bot, faults, overtaken>>

\* Chatwoot first, with the assignment still in force.
SetPending(u) ==
    /\ command[u].pc = "authorized"
    /\ status' = "pending"
    /\ IF command[u].read = None THEN End(u) ELSE Step(u, "leaving")
    /\ overtaken' = (overtaken \/ holder # command[u].read)
    /\ UNCHANGED <<holder, session, given, bot, faults>>

\* The holder is kept, also when Chatwoot did give the conversation back.
SetPendingFails(u) ==
    /\ command[u].pc = "authorized" /\ Fault
    /\ status' \in {status, "pending"}
    /\ overtaken' = (overtaken \/ status' # status)
    /\ End(u)
    /\ UNCHANGED <<holder, session, given, bot>>

\* A lost update is logged and not undone.
Leave(u) ==
    /\ command[u].pc = "leaving"
    /\ CompareAndSet(command[u].read, None)
    /\ overtaken' = (overtaken \/ ~Won(command[u].read))
    /\ End(u)
    /\ UNCHANGED <<status, session, given, bot, faults>>

\* The API dies, or its database does, also when a holder is to be restored.
CutShort(u) ==
    /\ command[u].pc \notin {"idle", "taking", "releasing"} /\ Fault
    /\ overtaken' = TRUE
    /\ End(u)
    /\ UNCHANGED <<status, holder, session, given, bot>>

-----------------------------------------------------------------------------
(* Turns of the bot.                                                       *)

Running(j) == job[j].pc \notin {"none", "queued", "done"}

InTurn(j) == Running(j) /\ job[j].pc \notin {"noting", "waiting"}

Turn(j, pc) == job' = [job EXCEPT ![j].pc = pc]

Over(j) == [NoJob EXCEPT !.pc = "done", !.of = job[j].of, !.seen = job[j].seen]

EndJob(j) == job' = [job EXCEPT ![j] = Over(j)]

\* The client writes, and the webhook has the status of the conversation then;
\* or the same event is queued again, after the key that marks it as received
\* expired or its worker was lost.
Deliver(j) ==
    /\ job[j].pc = "none"
    /\ \E m \in Messages, seen \in {"pending", "open"} :
          /\ IF \E i \in Jobs : job[i].of = m
             THEN \E i \in Jobs : job[i].of = m /\ job[i].seen = seen
             ELSE seen = status
          /\ job' = [job EXCEPT ![j] = [NoJob EXCEPT !.pc = "queued", !.of = m, !.seen = seen]]
    /\ UNCHANGED <<status, holder, session, staff, lock, token, faults, overtaken>>

\* The link of the conversation is read, or made.
StartJob(j) ==
    /\ job[j].pc = "queued"
    /\ job' = [job EXCEPT ![j].pc = "noting", ![j].left = JobTimeout, ![j].read = holder]
    /\ UNCHANGED <<status, holder, session, staff, lock, token, faults, overtaken>>

\* The bot answers only what was written to it.
ToTheBot(j) ==
    IF job[j].seen = "pending"
    THEN job' = [job EXCEPT ![j].pc = "waiting", ![j].wait = LockWait, ![j].read = None]
    ELSE EndJob(j)

\* The link notes that the client wrote; its holder is as it was read.
NoteMessage(j) ==
    /\ job[j].pc = "noting"
    /\ Save(job[j].read)
    /\ ToTheBot(j)
    /\ UNCHANGED <<status, session, staff, lock, token, faults, overtaken>>

\* An inbox that fails never keeps the bot from answering.
NoteFails(j) ==
    /\ job[j].pc = "noting" /\ Fault
    /\ ToTheBot(j)
    /\ UNCHANGED <<status, holder, session, staff, lock, token, overtaken>>

Acquire_Overwrites(j) ==
    /\ job[j].pc = "waiting"
    /\ lock' = FreshLock(j)
    /\ token' = j
    /\ Turn(j, "turn")
    /\ UNCHANGED <<status, holder, session, staff, faults, overtaken>>

Acquire(j) ==
    /\ job[j].pc = "waiting" /\ lock.owner = None
    /\ lock' = FreshLock(j)
    /\ token' = j
    /\ Turn(j, "turn")
    /\ UNCHANGED <<status, holder, session, staff, faults, overtaken>>

\* The adapter deletes the key only if it still has the token it remembers.
Unlock ==
    /\ lock' = IF token # None /\ lock.owner = token THEN Free ELSE lock
    /\ token' = None

EndTurn(j) == EndJob(j) /\ Unlock

\* A busy conversation is not waited for beyond LockWait: no answer.
GiveUp(j) ==
    /\ job[j].pc = "waiting" /\ lock.owner # None
    /\ job[j].wait = 0
    /\ EndJob(j)
    /\ UNCHANGED <<status, holder, session, staff, lock, token, faults, overtaken>>

\* The last message of the session is not answered again.
ReadSession(j) ==
    /\ job[j].pc = "turn"
    /\ IF session = job[j].of
       THEN EndTurn(j)
       ELSE /\ \E pc \in {"answering", "handing"} : Turn(j, pc)
            /\ UNCHANGED <<lock, token>>
    /\ UNCHANGED <<status, holder, session, staff, faults, overtaken>>

\* The answer is committed to the outbox.
Answer(j) ==
    /\ job[j].pc = "answering"
    /\ Turn(j, "saving")
    /\ UNCHANGED <<status, holder, session, staff, lock, token, faults, overtaken>>

SaveSession(j) ==
    /\ job[j].pc = "saving"
    /\ session' = job[j].of
    /\ EndTurn(j)
    /\ UNCHANGED <<status, holder, staff, faults, overtaken>>

\* The client is told that a person will answer; the bot forgets.
HandOver(j) ==
    /\ job[j].pc = "handing"
    /\ session' = None
    /\ Turn(j, "opening")
    /\ UNCHANGED <<status, holder, staff, lock, token, faults, overtaken>>

OpenByBot(j) ==
    /\ job[j].pc = "opening"
    /\ status' = "open"
    /\ Turn(j, "recording")
    /\ UNCHANGED <<holder, session, staff, lock, token, faults, overtaken>>

\* Without an answer of Chatwoot nothing is recorded.
OpenByBotFails(j) ==
    /\ job[j].pc = "opening" /\ Fault
    /\ status' \in {status, "open"}
    /\ EndTurn(j)
    /\ UNCHANGED <<holder, session, staff, overtaken>>

\* The record of the handoff clears an old holder, the one it reads.
RecordHandoff(j) ==
    /\ job[j].pc = "recording"
    /\ job' = [job EXCEPT ![j].pc = "removing", ![j].read = holder]
    /\ UNCHANGED <<status, holder, session, staff, lock, token, faults, overtaken>>

\* The save locks the row of the link until its holder is cleared.
RemoveHolder(j) ==
    /\ job[j].pc = "removing"
    /\ IF job[j].read = None THEN Save(None) ELSE CompareAndSet(job[j].read, None)
    /\ EndTurn(j)
    /\ UNCHANGED <<status, session, staff, faults, overtaken>>

\* The worker cancels the job; its lock is released on the way out.
Cancel(j) ==
    /\ Running(j) /\ job[j].left = 0
    /\ IF InTurn(j) THEN EndTurn(j) ELSE EndJob(j) /\ UNCHANGED <<lock, token>>
    /\ UNCHANGED <<status, holder, session, staff, faults, overtaken>>

\* The worker dies: nobody releases the lock.
LoseWorker ==
    /\ \E j \in Jobs : Running(j)
    /\ Fault
    /\ job' = [j \in Jobs |-> IF Running(j) THEN Over(j) ELSE job[j]]
    /\ token' = None
    /\ UNCHANGED <<status, holder, session, staff, lock, overtaken>>

Aged_KeepsKey(l) == [l EXCEPT !.left = @ - 1]
Aged(l) == IF l.left = 0 THEN Free ELSE [l EXCEPT !.left = @ - 1]

Older(row) == [row EXCEPT !.left = @ - 1, !.wait = IF @ = 0 THEN 0 ELSE @ - 1]

\* A job is cancelled before the lock it acquired later expires.
Tick ==
    /\ \A j \in Jobs : Running(j) => job[j].left > 0
    /\ lock.owner # None \/ \E j \in Jobs : Running(j)
    /\ job' = [j \in Jobs |-> IF Running(j) THEN Older(job[j]) ELSE job[j]]
    /\ lock' = Aged(lock)
    /\ UNCHANGED <<status, holder, session, staff, token, faults, overtaken>>

-----------------------------------------------------------------------------

Init ==
    /\ status = "pending"
    /\ holder = None
    /\ session = None
    /\ command = [u \in Users |-> NoCommand]
    /\ given = [u \in Users |-> 0]
    /\ job = [j \in Jobs |-> NoJob]
    /\ lock = Free
    /\ token = None
    /\ faults = 0
    /\ overtaken = FALSE

Take(u) ==
    \/ Takeover(u) \/ ReadHolder(u) \/ Claim(u) \/ Reopen(u) \/ ReopenFails(u)
    \/ Restore(u) \/ ClearSession(u)

GiveBack(u) ==
    \/ Release(u) \/ Authorize(u) \/ SetPending(u) \/ SetPendingFails(u) \/ Leave(u)

BotTurn(j) ==
    \/ Deliver(j) \/ StartJob(j) \/ NoteMessage(j) \/ NoteFails(j) \/ Acquire(j) \/ GiveUp(j) \/ ReadSession(j)
    \/ Answer(j) \/ SaveSession(j) \/ HandOver(j) \/ OpenByBot(j)
    \/ OpenByBotFails(j) \/ RecordHandoff(j) \/ RemoveHolder(j) \/ Cancel(j)

Next ==
    \/ \E u \in Users : Take(u) \/ GiveBack(u) \/ CutShort(u)
    \/ \E j \in Jobs : BotTurn(j)
    \/ LoseWorker
    \/ Tick

Spec == Init /\ [][Next]_vars

-----------------------------------------------------------------------------
(* Properties.                                                             *)

\* Rows keep to their columns, and the lock in Redis to its life.
TypeOK ==
    /\ status \in {"pending", "open"}
    /\ holder \in Users \cup {None}
    /\ session \in Messages \cup {None}
    /\ command \in [Users -> CommandState]
    /\ given \in [Users -> 0 .. MaxCommands]
    /\ job \in [Jobs -> JobState]
    /\ lock \in [owner : Jobs \cup {None}, left : 0 .. LockTtl]
    /\ token \in Jobs \cup {None}
    /\ faults \in 0 .. MaxFaults
    /\ overtaken \in BOOLEAN

\* Two turns of the bot never run at a time: the worker cancels a job before
\* the lock that it acquired expires, however late it acquired it.
OneTurnAtATime == \A i, j \in Jobs : InTurn(i) /\ InTurn(j) => i = j

\* Who may make a step that takes a conversation from its holder.
ByRight ==
    \/ \E s \in Superadmins : command[s].pc \in {"claiming", "leaving"}
                              /\ command[s].read = holder
    \/ command[holder].pc \in {"restoring", "leaving"}
    \/ holder' = None /\ \E j \in Jobs : job[j].pc = "removing" /\ job[j].read = holder

HandsChange == holder # None /\ holder' # holder => ByRight

\* A conversation changes hands only by right, however commands overlap: from
\* one user to another by a superadmin or by giving back what a failed command
\* took; to nobody by its holder, a superadmin, such a failure or the bot.
HandsChangeByRight == [][HandsChange]_vars

Quiet ==
    /\ \A u \in Users : command[u].pc = "idle"
    /\ \A j \in Jobs : ~Running(j)

\* Once everything has ended, a conversation that somebody has is open in
\* Chatwoot: else the bot would answer beside the person.  Excepted are a
\* conversation that changed hands while it was being released, or before the
\* failed command of who had it was undone, and a command cut short or given
\* up for an answer that was lost.
TakenIsOpen == Quiet /\ holder # None => status = "open" \/ overtaken
=============================================================================

----------------------------- MODULE LeadProofs -----------------------------
(***************************************************************************)
(* What the webhook acknowledges has been queued, and the link of the      *)
(* conversation follows its quotes, for any number of events, requests,    *)
(* quotes, failures and crashes.  Only the webhook touches keys and        *)
(* requests; to a job, the worker and the link do no more than JobsGoOn    *)
(* says.                                                                   *)
(***************************************************************************)
EXTENDS Lead, TLAPS

\* ReceptionTypeOK, but for the faults: also, a request is about no event before
\* it comes, and a job that waits has a try left.
ReceptionTyped ==
    /\ request \in [Requests -> RequestState]
    /\ keys \subseteq Events
    /\ job \in [Events -> JobState]
    /\ \A r \in Requests : request[r].pc = "none" <=> request[r].of = None
    /\ \A e \in Events : job[e].pc = "queued" => job[e].tries < MaxTries

\* Someone still has to answer for a key without a job, or has refused it.
KeysHaveReasons ==
    \A e \in keys :
        \/ job[e].pc # "none"
        \/ \E r \in Requests :
              request[r].of = e /\ request[r].pc \notin {"none", "accepted"}

ReceptionInv == ReceptionTyped /\ KeysHaveReasons /\ NoSilentLoss

\* No job is forgotten.
JobsGoOn ==
    /\ job' \in [Events -> JobState]
    /\ \A e \in Events : job[e].pc # "none" => job'[e].pc # "none"
    /\ \A e \in Events : job'[e].pc = "queued" => job'[e].tries < MaxTries

-----------------------------------------------------------------------------
(* What each kind of step does to the jobs.                                *)

\* Starting a job uses one of its tries.
LEMMA StartGoesOn == ASSUME NEW e \in Events, ReceptionTyped, Start(e) PROVE JobsGoOn
  BY ReceptionConstants DEF Start, ReceptionTyped, JobsGoOn, JobState

\* A job that ends stays on record.
LEMMA FinishGoesOn == ASSUME NEW e \in Events, ReceptionTyped, Finish(e) PROVE JobsGoOn
  BY DEF Finish, ReceptionTyped, JobsGoOn, JobState

\* A job is run again only while it has a try left.
LEMMA RunAgainGoesOn == ASSUME ReceptionTyped, RunAgain PROVE JobsGoOn
  BY ReceptionConstants DEF RunAgain, Running, ReceptionTyped, JobsGoOn, JobState

\* A step that leaves the jobs alone.
LEMMA StillGoesOn == ASSUME ReceptionTyped, UNCHANGED job PROVE JobsGoOn
  BY DEF ReceptionTyped, JobsGoOn

\* The webhook only adds a job, with all its tries.
LEMMA QueuedGoesOn ==
  ASSUME NEW e \in Events, ReceptionTyped, job' = Queued(e)
  PROVE  JobsGoOn /\ job'[e].pc # "none"
  BY ReceptionConstants DEF Queued, ReceptionTyped, JobsGoOn, JobState

\* A step that leaves requests and keys alone keeps the invariant.
LEMMA JobsKeepInv ==
  ASSUME ReceptionInv, JobsGoOn, UNCHANGED <<request, keys>>
  PROVE  ReceptionInv'
<1>1. ReceptionTyped'
  BY DEF ReceptionInv, ReceptionTyped, JobsGoOn
<1>2. KeysHaveReasons'
  BY DEF ReceptionInv, ReceptionTyped, KeysHaveReasons, JobsGoOn
<1>3. NoSilentLoss'
  BY DEF ReceptionInv, NoSilentLoss, JobsGoOn
<1> QED BY <1>1, <1>2, <1>3 DEF ReceptionInv

-----------------------------------------------------------------------------
(* The webhook.                                                            *)

\* A request that has come moves on without being accepted.
LEMMA StopKeepsInv ==
  ASSUME NEW r \in Requests, NEW pc \in {"releasing", "refused"},
         ReceptionInv, JobsGoOn, request[r].pc # "none", Go(r, pc), keys' \subseteq keys
  PROVE  ReceptionInv'
<1>1. /\ request'[r] = [request[r] EXCEPT !.pc = pc]
      /\ request'[r].of = request[r].of /\ request'[r].pc = pc
      /\ \A s \in Requests \ {r} : request'[s] = request[s]
  BY DEF ReceptionInv, ReceptionTyped, RequestState, Go
<1>2. ReceptionTyped'
  BY <1>1 DEF ReceptionInv, ReceptionTyped, RequestState, Go, JobsGoOn
<1>3. KeysHaveReasons'
  <2> SUFFICES ASSUME NEW e \in keys', job'[e].pc = "none"
               PROVE  \E s \in Requests :
                        request'[s].of = e /\ request'[s].pc \notin {"none", "accepted"}
    BY DEF KeysHaveReasons
  <2>1. e \in keys /\ e \in Events /\ job[e].pc = "none"
    BY DEF ReceptionInv, ReceptionTyped, JobsGoOn
  <2>2. PICK s \in Requests : request[s].of = e /\ request[s].pc \notin {"none", "accepted"}
    BY <2>1 DEF ReceptionInv, KeysHaveReasons
  <2> QED BY <1>1, <2>2
<1>4. NoSilentLoss'
  <2> SUFFICES ASSUME NEW e \in Events, NEW s \in Requests, request'[s].of = e,
                      \A q \in Requests : request'[q].of = e => request'[q].pc = "accepted"
               PROVE  job'[e].pc # "none"
    BY DEF NoSilentLoss
  <2>1. \A q \in Requests : request'[q].of = request[q].of
    BY <1>1
  <2>2. request[r].of # e
    BY <1>1
  <2>3. \A q \in Requests : request[q].of = e => request[q].pc = "accepted"
    BY <1>1, <2>1, <2>2
  <2> QED BY <2>1, <2>3 DEF ReceptionInv, NoSilentLoss, JobsGoOn
<1> QED BY <1>2, <1>3, <1>4 DEF ReceptionInv

\* A new request either takes the key, fails, or is a duplicate of one that
\* has taken it.
LEMMA ComingKeepsInv ==
  ASSUME NEW r \in Requests, NEW e \in Events, ReceptionInv,
         Receive(r, e) \/ ReceiveFails(r, e)
  PROVE  ReceptionInv'
<1> DEFINE pc == request'[r].pc
<1>1. /\ request[r].pc = "none" /\ request[r].of = None
      /\ request' = [request EXCEPT ![r] = [pc |-> pc, of |-> e]]
      /\ pc \in {"queuing", "refused", "accepted"}
      /\ pc = "accepted" => e \in keys
      /\ keys' \in {keys, keys \cup {e}}
      /\ keys' = keys \/ pc # "accepted"
      /\ job' = job
  <2>0. request[r] \in RequestState
    BY DEF ReceptionInv, ReceptionTyped
  <2>1. CASE Receive(r, e)
    <3>1. request'[r] = [pc |-> IF e \in keys THEN "accepted" ELSE "queuing", of |-> e]
      BY <2>1 DEF ReceptionInv, ReceptionTyped, Receive
    <3>2. e \in keys => keys' = keys
      BY <2>1 DEF Receive
    <3> QED BY <2>0, <2>1, <3>1, <3>2 DEF ReceptionInv, ReceptionTyped, Receive
  <2>2. CASE ReceiveFails(r, e)
    <3>1. request'[r] = [pc |-> "refused", of |-> e]
      BY <2>2 DEF ReceptionInv, ReceptionTyped, ReceiveFails
    <3> QED BY <2>0, <2>2, <3>1 DEF ReceptionInv, ReceptionTyped, ReceiveFails
  <2> QED BY <2>1, <2>2
<1>2. /\ request'[r].of = e
      /\ \A s \in Requests \ {r} : request'[s] = request[s]
  BY <1>1 DEF ReceptionInv, ReceptionTyped
<1>3. ReceptionTyped'
  BY <1>1, <1>2, ReceptionConstants DEF ReceptionInv, ReceptionTyped, RequestState
<1>4. KeysHaveReasons'
  <2> SUFFICES ASSUME NEW f \in keys', job[f].pc = "none"
               PROVE  \E s \in Requests :
                        request'[s].of = f /\ request'[s].pc \notin {"none", "accepted"}
    BY <1>1 DEF KeysHaveReasons
  <2>1. CASE f \in keys
    <3>1. PICK s \in Requests : request[s].of = f /\ request[s].pc \notin {"none", "accepted"}
      BY <2>1 DEF ReceptionInv, KeysHaveReasons
    <3> QED BY <1>1, <1>2, <3>1
  <2>2. CASE f \notin keys
    BY <1>1, <1>2, <2>2
  <2> QED BY <2>1, <2>2
<1>5. NoSilentLoss'
  <2> SUFFICES ASSUME NEW f \in Events, NEW s \in Requests, request'[s].of = f,
                      \A q \in Requests : request'[q].of = f => request'[q].pc = "accepted"
               PROVE  job[f].pc # "none"
    BY <1>1 DEF NoSilentLoss
  <2>1. CASE f = e
    <3>1. e \in keys
      BY <1>1, <1>2, <2>1
    <3>2. \A q \in Requests : request[q].of = e => request[q].pc \in {"none", "accepted"}
      BY <1>1, <1>2, <2>1
    <3> QED BY <2>1, <3>1, <3>2 DEF ReceptionInv, KeysHaveReasons
  <2>2. CASE f # e
    <3>1. s # r /\ request[s].of = f
      BY <1>2, <2>2
    <3>2. \A q \in Requests : request[q].of = f => request[q].pc = "accepted"
      BY <1>1, <1>2, <2>2, ReceptionConstants
    <3> QED BY <3>1, <3>2 DEF ReceptionInv, NoSilentLoss
  <2> QED BY <2>1, <2>2
<1> QED BY <1>3, <1>4, <1>5 DEF ReceptionInv

\* An accepted request has its job.
LEMMA EnqueueKeepsInv ==
  ASSUME NEW r \in Requests, ReceptionInv, Enqueue(r)
  PROVE  ReceptionInv'
<1> DEFINE e == request[r].of
<1>1. /\ request[r].pc = "queuing" /\ job' = Queued(e) /\ keys' = keys
      /\ request'[r].of = e /\ request'[r].pc = "accepted"
      /\ \A s \in Requests \ {r} : request'[s] = request[s]
      /\ request' \in [Requests -> RequestState]
  BY DEF ReceptionInv, ReceptionTyped, RequestState, Enqueue, Go
<1>2. e \in Events
  BY <1>1 DEF ReceptionInv, ReceptionTyped, RequestState
<1>3. ReceptionInv'
  <2>1. JobsGoOn /\ job'[e].pc # "none"
    BY <1>1, <1>2, QueuedGoesOn DEF ReceptionInv
  <2>2. ReceptionTyped'
    BY <1>1, <2>1 DEF ReceptionInv, ReceptionTyped, JobsGoOn
  <2>3. KeysHaveReasons'
    <3> SUFFICES ASSUME NEW f \in keys', job'[f].pc = "none"
                 PROVE  \E s \in Requests :
                          request'[s].of = f /\ request'[s].pc \notin {"none", "accepted"}
      BY DEF KeysHaveReasons
    <3>1. f \in keys /\ job[f].pc = "none" /\ f # e
      BY <1>1, <2>1 DEF ReceptionInv, ReceptionTyped, JobsGoOn
    <3>2. PICK s \in Requests : request[s].of = f /\ request[s].pc \notin {"none", "accepted"}
      BY <3>1 DEF ReceptionInv, KeysHaveReasons
    <3> QED BY <1>1, <3>1, <3>2
  <2>4. NoSilentLoss'
    <3> SUFFICES ASSUME NEW f \in Events, f # e, NEW s \in Requests, request'[s].of = f,
                        \A q \in Requests : request'[q].of = f => request'[q].pc = "accepted"
                 PROVE  job'[f].pc # "none"
      BY <2>1 DEF NoSilentLoss
    <3>1. request[s].of = f /\ \A q \in Requests : request[q].of = f => request[q].pc = "accepted"
      BY <1>1
    <3> QED BY <2>1, <3>1 DEF ReceptionInv, NoSilentLoss, JobsGoOn
  <2> QED BY <2>2, <2>3, <2>4 DEF ReceptionInv
<1> QED BY <1>3

\* Every step of the webhook.
LEMMA WebhookKeepsInv ==
  ASSUME NEW r \in Requests, ReceptionInv, Webhook(r)
  PROVE  ReceptionInv'
<1> USE DEF Webhook
<1>1. ASSUME NEW e \in Events, Receive(r, e) \/ ReceiveFails(r, e) PROVE ReceptionInv'
  BY <1>1, ComingKeepsInv
<1>2. CASE Enqueue(r)
  BY <1>2, EnqueueKeepsInv
<1>3. CASE EnqueueFails(r)
  <2>1. request[r].of \in Events
    BY <1>3 DEF EnqueueFails, ReceptionInv, ReceptionTyped, RequestState
  <2>2. JobsGoOn
    BY <1>3, <2>1, QueuedGoesOn, StillGoesOn DEF EnqueueFails, ReceptionInv
  <2> QED BY <1>3, <2>2, StopKeepsInv DEF EnqueueFails
<1>4. CASE ReleaseKey(r)
  BY <1>4, StillGoesOn, StopKeepsInv DEF ReleaseKey, ReceptionInv
<1>5. CASE ReleaseFails(r)
  BY <1>5, StillGoesOn, StopKeepsInv DEF ReleaseFails, ReceptionInv
<1>6. CASE LoseRequest(r)
  BY <1>6, StillGoesOn, StopKeepsInv DEF LoseRequest, ReceptionInv
<1> QED BY <1>1, <1>2, <1>3, <1>4, <1>5, <1>6

-----------------------------------------------------------------------------
(* The whole system.                                                       *)

\* Every step of a job: it starts, ends, or leaves the queue alone.
LEMMA JobKeepsInv ==
  ASSUME NEW e \in Events, ReceptionInv, JobOf(e)
  PROVE  ReceptionInv'
<1>1. UNCHANGED <<request, keys>>
  BY DEF JobOf, reception, StartJob, ReadLink, LookUp, LookUpFails, FindRow, SaveNote,
         NoteFails, QuoteClient, SaveQuote, AnswerOnly, CancelJob
<1>2. Start(e) \/ Finish(e) \/ UNCHANGED job
  BY DEF JobOf, reception, StartJob, ReadLink, LookUp, LookUpFails, FindRow, SaveNote,
         NoteFails, QuoteClient, SaveQuote, AnswerOnly, CancelJob, Noted
<1> QED BY <1>1, <1>2, StartGoesOn, FinishGoesOn, StillGoesOn, JobsKeepInv DEF ReceptionInv

\* Every step of the system, and a stutter.
LEMMA NextKeepsInv == ASSUME ReceptionInv, [Next]_vars PROVE ReceptionInv'
<1>1. CASE \E r \in Requests : Webhook(r) /\ UNCHANGED lead
  BY <1>1, WebhookKeepsInv
<1>2. CASE \E e \in Events : JobOf(e)
  BY <1>2, JobKeepsInv
<1>3. CASE LoseWorker
  BY <1>3, RunAgainGoesOn, JobsKeepInv DEF LoseWorker, ReceptionInv
<1>4. CASE MarkEventDone
  <2>1. UNCHANGED reception
    BY <1>4 DEF MarkEventDone, ViewConversation, ReadLinkAgain, FindMarkRow, SaveMark, MarkFails
  <2> QED BY <2>1, StillGoesOn, JobsKeepInv DEF reception, ReceptionInv
<1>5. CASE \E q \in Quotes : Convert(q) \/ Close(q) \/ Settle(q)
  <2>1. UNCHANGED reception
    BY <1>5 DEF Convert, Close, Settle, Becomes
  <2> QED BY <2>1, StillGoesOn, JobsKeepInv DEF reception, ReceptionInv
<1>6. CASE UNCHANGED vars
  BY <1>6, StillGoesOn, JobsKeepInv DEF vars, reception, ReceptionInv
<1> QED BY <1>1, <1>2, <1>3, <1>4, <1>5, <1>6 DEF Next

\* Nothing has come at first.
LEMMA InitReception == ASSUME Init PROVE ReceptionInv
BY ReceptionConstants
DEF Init, ReceptionInit, ReceptionInv, ReceptionTyped, KeysHaveReasons, NoSilentLoss,
    NoRequest, NoJob, RequestState, JobState

\* An event all of whose requests were acknowledged has been queued
\* (ReceiveGatewayEvent.execute), however requests overlap, repeat and fail.
THEOREM AcknowledgedIsQueued == Spec => []NoSilentLoss
<1>1. Init => ReceptionInv
  BY InitReception
<1>2. ReceptionInv => NoSilentLoss
  BY DEF ReceptionInv
<1> QED BY <1>1, <1>2, NextKeepsInv, PTL DEF Spec

-----------------------------------------------------------------------------
(* The link.  Nobody holds on to it, so what a save is about to write is   *)
(* judged by what it found: a save that is not stale found the link as it  *)
(* still is, and writes it with the one change that it is there for.       *)

\* The show of the link's quote is over, or was marked so.
CycleDone(l, quotes) ==
    /\ l.quote # NoQuote
    /\ \/ quotes[l.quote] = "settled"
       \/ quotes[l.quote] = "converted" /\ l.done # NoQuote

\* What a job of e, in state s, means to save while the link is l.
FreshJob(e, s, l, quotes, newest) ==
    /\ s.pc = "writing" => s.row = l
    /\ s.pc = "looking" => s.kept = WithMessage(l, e) /\ l.quote # NoQuote
    /\ IF s.kept.quote > newest
       THEN s.kept = LinkQuote(l, s.kept.quote)
       ELSE \/ s.kept = WithMessage(l, e)
            \/ s.kept = Restarted(WithMessage(l, e)) /\ CycleDone(l, quotes)

JobSound(e, s, l, quotes, newest) ==
    /\ ~HasRead(s) => s.kept = NoLink
    /\ s.kept.quote <= newest + 1
    /\ HasRead(s) /\ ~s.stale => FreshJob(e, s, l, quotes, newest)

\* What the command of the staff means to save: a mark, of a quote that was sold.
MarkSound(m, l, quotes, newest) ==
    /\ m.pc # "idle" => m.viewed # NoQuote /\ quotes[m.viewed] \in {"converted", "settled"}
    /\ m.kept.quote <= newest
    /\ HasRead(m) /\ ~m.stale =>
          /\ m.kept = WithMark(l, m.viewed)
          /\ m.pc = "writing" => m.row = l

\* Unless saves crossed, the link is right at any time,
LinkSound(l, quotes, newest, seen) ==
    /\ l.seen = seen
    /\ l.quote \in {NoQuote, newest}
    /\ l.done \in {NoQuote, l.quote}
    /\ l.done # NoQuote => quotes[l.done] \in {"converted", "settled"}

\* and no job that noted its message has left a mark behind.
MarkGone(s, l, newest) ==
    /\ s.pc = "answering" \/ s.kept.quote > newest => l.done = NoQuote
    /\ s.pc \in {"saving", "writing"} /\ ~s.stale => s.kept.done = NoQuote

\* The part of TypeOK about the link.
LeadTyped ==
    /\ link \in LinkRow
    /\ quote \in [Quotes -> QuoteStatus]
    /\ work \in [Events -> WorkState]
    /\ mark \in MarkState
    /\ noted \in Events \cup {Never}
    /\ crossed \in BOOLEAN

\* Quotes are created one after another.
QuotesInOrder == Newest \in Quotes /\ Created = 1 .. Newest

LeadInv ==
    /\ LeadTyped
    /\ QuotesInOrder
    /\ link.quote <= Newest
    /\ \A e \in Events : work[e].pc # "idle" => Running(e)
    /\ \A e \in Events : JobSound(e, work[e], link, quote, Newest)
    /\ \A e, f \in Events : Quoting(e) /\ Quoting(f) => e = f
    /\ MarkSound(mark, link, quote, Newest)
    /\ ~crossed =>
          /\ LinkSound(link, quote, Newest, noted)
          /\ \A e \in Events : MarkGone(work[e], link, Newest)

\* A row of the link, and what its numbers are.
LEMMA LinkFields ==
  ASSUME NEW l \in LinkRow
  PROVE  /\ l.quote \in Quotes \cup {NoQuote} /\ l.done \in Quotes \cup {NoQuote}
         /\ l.seen \in Events \cup {Never}
         /\ l.quote \in Nat /\ l.seen \in Nat
<1>1. /\ l.quote \in Quotes \cup {NoQuote} /\ l.done \in Quotes \cup {NoQuote}
      /\ l.seen \in Events \cup {Never}
  BY DEF LinkRow
<1>2. Quotes \cup {NoQuote} \subseteq Nat /\ Events \cup {Never} \subseteq Nat
  BY ReceptionConstants, LeadConstants DEF Quotes, NoQuote, Never
<1> QED BY <1>1, <1>2

\* What noting a message, restarting the cycle, linking a quote and marking the show
\* change of a link, and what they leave alone.
LEMMA WithMessageRow ==
  ASSUME NEW l \in LinkRow, NEW e \in Events
  PROVE  /\ WithMessage(l, e) \in LinkRow
         /\ WithMessage(l, e).quote = l.quote /\ WithMessage(l, e).done = l.done
         /\ WithMessage(l, e).seen = IF e > l.seen THEN e ELSE l.seen
  BY DEF WithMessage, LinkRow

LEMMA RestartedRow ==
  ASSUME NEW l \in LinkRow
  PROVE  /\ Restarted(l) \in LinkRow
         /\ Restarted(l).quote = NoQuote /\ Restarted(l).done = NoQuote
         /\ Restarted(l).seen = l.seen
  BY DEF Restarted, LinkRow

LEMMA LinkQuoteRow ==
  ASSUME NEW l \in LinkRow, NEW q \in Quotes
  PROVE  /\ LinkQuote(l, q) \in LinkRow
         /\ LinkQuote(l, q).quote = q /\ LinkQuote(l, q).done = l.done
         /\ LinkQuote(l, q).seen = l.seen
  BY DEF LinkQuote, LinkRow

LEMMA WithMarkRow ==
  ASSUME NEW l \in LinkRow, NEW q \in Quotes \cup {NoQuote}
  PROVE  /\ WithMark(l, q) \in LinkRow
         /\ WithMark(l, q).quote = l.quote /\ WithMark(l, q).seen = l.seen
         /\ WithMark(l, q).done = IF l.done = NoQuote THEN q ELSE l.done
  BY DEF WithMark, LinkRow

\* A save takes each column from the row or from memory, and all of them from
\* memory if the row is the one that it found.
LEMMA WrittenRow ==
  ASSUME link \in LinkRow, NEW row \in LinkRow, NEW kept \in LinkRow
  PROVE  /\ Written(row, kept) \in LinkRow
         /\ Written(row, kept).quote \in {link.quote, kept.quote}
         /\ row = link => Written(row, kept) = kept
<1> DEFINE w == Written(row, kept)
           q == IF kept.quote = row.quote THEN link.quote ELSE kept.quote
           d == IF kept.done = row.done THEN link.done ELSE kept.done
           n == IF kept.seen = row.seen THEN link.seen ELSE kept.seen
<1>1. w = [quote |-> q, done |-> d, seen |-> n]
  BY DEF Written, LinkRow
<1>2. /\ q \in Quotes \cup {NoQuote} /\ d \in Quotes \cup {NoQuote}
      /\ n \in Events \cup {Never}
  BY DEF LinkRow
<1>3. q \in {link.quote, kept.quote}
  OBVIOUS
<1>4. w \in LinkRow /\ w.quote \in {link.quote, kept.quote}
  <2> HIDE DEF w, q, d, n
  <2> QED BY <1>1, <1>2, <1>3 DEF LinkRow
<1>5. row = link => w = kept
  <2> SUFFICES ASSUME row = link PROVE w = kept
    OBVIOUS
  <2>1. q = kept.quote /\ d = kept.done /\ n = kept.seen
    OBVIOUS
  <2>2. kept = [quote |-> kept.quote, done |-> kept.done, seen |-> kept.seen]
    BY DEF LinkRow
  <2> HIDE DEF w, q, d, n
  <2> QED BY <1>1, <2>1, <2>2
<1> QED BY <1>4, <1>5

\* The status that a job looks up, in terms of the quote and the mark.
LEMMA StatusIsDone ==
  ASSUME quote \in [Quotes -> QuoteStatus], NEW l \in LinkRow
  PROVE  /\ LeadStatus(l) = "EVENT_DONE" <=> CycleDone(l, quote)
         /\ LeadStatus(l) = "CONVERTED" => l.quote # NoQuote /\ quote[l.quote] = "converted"
<1>1. CASE l.quote = NoQuote
  BY <1>1 DEF LeadStatus, CycleDone
<1>2. CASE l.quote # NoQuote
  <2>1. quote[l.quote] \in QuoteStatus
    BY <1>2 DEF LinkRow
  <2>2. CASE quote[l.quote] = "converted"
    BY <1>2, <2>2 DEF LeadStatus, CycleDone
  <2>3. CASE quote[l.quote] = "settled"
    BY <1>2, <2>3 DEF LeadStatus, CycleDone
  <2>4. CASE quote[l.quote] = "closed"
    BY <1>2, <2>4 DEF LeadStatus, CycleDone
  <2>5. CASE quote[l.quote] \in {"none", "sent"}
    BY <1>2, <2>5 DEF LeadStatus, CycleDone
  <2> QED BY <2>1, <2>2, <2>3, <2>4, <2>5 DEF QuoteStatus
<1> QED BY <1>1, <1>2

\* The newest of the first n quotes.
LEMMA NewestIs ==
  ASSUME NEW n \in Nat, n # 0, Created = 1 .. n
  PROVE  Newest = n
<1>1. n \in Created /\ \A p \in Created : p <= n
  OBVIOUS
<1>2. \A m \in Created : (\A p \in Created : p <= m) => m = n
  <2> TAKE m \in Created
  <2> HAVE \A p \in Created : p <= m
  <2>1. n <= m /\ m <= n /\ m \in Nat
    BY <1>1
  <2> QED BY <2>1
<1> HIDE DEF Created
<1> QED BY <1>1, <1>2 DEF Newest

-----------------------------------------------------------------------------
(* Steps that leave the link alone.                                        *)

\* The job of e moves on to state s, and no row changes.
JobMoves(e, s) ==
    /\ s \in WorkState
    /\ work' = [work EXCEPT ![e] = s]
    /\ UNCHANGED <<link, quote, mark, noted>>
    /\ crossed' \in BOOLEAN /\ (crossed => crossed')
    /\ JobSound(e, s, link, quote, Newest)
    /\ s.kept.quote > Newest => \A f \in Events \ {e} : ~Quoting(f)
    /\ ~crossed' => MarkGone(s, link, Newest)
    /\ \A f \in Events : f # e /\ Running(f) => Running(f)'
    /\ s.pc # "idle" => Running(e)'

\* Any such move keeps the invariant.
LEMMA JobMovesKeepInv ==
  ASSUME LeadInv, NEW e \in Events, NEW s, JobMoves(e, s)
  PROVE  LeadInv'
<1> USE DEF LeadInv, JobMoves
<1>1. work \in [Events -> WorkState]
  BY DEF LeadTyped
<1>2. work'[e] = s /\ \A f \in Events \ {e} : work'[f] = work[f]
  BY <1>1
<1>3. LeadTyped'
  BY <1>1 DEF LeadTyped
<1>4. Created' = Created /\ Newest' = Newest
  BY DEF Created, Newest
<1>5. QuotesInOrder' /\ link'.quote <= Newest'
  BY <1>4 DEF QuotesInOrder
<1>6. \A f \in Events : work'[f].pc # "idle" => Running(f)'
  BY <1>2
<1>7. \A f \in Events : JobSound(f, work'[f], link', quote', Newest')
  BY <1>2, <1>4
<1>8. ASSUME NEW f \in Events, NEW g \in Events, Quoting(f)', Quoting(g)' PROVE f = g
  <2>1. \A h \in Events : h # e /\ Quoting(h)' => Quoting(h)
    BY <1>2, <1>4 DEF Quoting
  <2>2. Quoting(e)' => s.kept.quote > Newest
    BY <1>2, <1>4 DEF Quoting
  <2> QED BY <1>8, <2>1, <2>2
<1>9. MarkSound(mark', link', quote', Newest')
  BY <1>4
<1>10. ~crossed' => /\ LinkSound(link', quote', Newest', noted')
                    /\ \A f \in Events : MarkGone(work'[f], link', Newest')
  BY <1>2, <1>4
<1> QED BY <1>3, <1>5, <1>6, <1>7, <1>8, <1>9, <1>10

\* A job that has nothing to do, and one that answers.
LEMMA Idles ==
  /\ Idle \in WorkState /\ Idle.pc = "idle" /\ Idle.kept = NoLink
  /\ [Idle EXCEPT !.pc = "answering"] \in WorkState
  /\ [Idle EXCEPT !.pc = "answering"].pc = "answering"
  /\ [Idle EXCEPT !.pc = "answering"].kept = NoLink
  /\ NoLink \in LinkRow /\ NoLink.quote = NoQuote /\ NoLink.done = NoQuote
BY DEF Idle, WorkState, NoLink, LinkRow

\* A job that ends has nothing to save, nor has one that turns to the client.
LEMMA NothingKept ==
  ASSUME LeadInv, NEW e \in Events, NEW s,
         \/ s = Idle
         \/ s = [Idle EXCEPT !.pc = "answering"] /\ (~crossed' => link.done = NoQuote)
  PROVE  /\ JobSound(e, s, link, quote, Newest) /\ ~(s.kept.quote > Newest)
         /\ ~crossed' => MarkGone(s, link, Newest)
<1>1. Newest \in Nat
  BY LeadConstants DEF LeadInv, QuotesInOrder, Quotes
<1>2. /\ s.pc \in {"idle", "answering"} /\ s.kept = NoLink /\ s.kept.quote = 0
      /\ s.pc = "answering" => (~crossed' => link.done = NoQuote)
  BY Idles DEF NoQuote
<1>3. ~HasRead(s) /\ ~(s.kept.quote > Newest) /\ s.kept.quote <= Newest + 1
  BY <1>1, <1>2 DEF HasRead
<1> QED BY <1>2, <1>3 DEF JobSound, MarkGone

\* What the invariant says of one job and of the link.
LEMMA JobIsSound ==
  ASSUME LeadInv, NEW e \in Events
  PROVE  /\ work[e] \in WorkState /\ work[e].kept \in LinkRow /\ work[e].row \in LinkRow
         /\ JobSound(e, work[e], link, quote, Newest)
         /\ link \in LinkRow /\ link.quote \in Nat /\ work[e].kept.quote \in Nat
         /\ Newest \in Quotes /\ Newest \in Nat /\ link.quote <= Newest
         /\ ~crossed => MarkGone(work[e], link, Newest) /\ LinkSound(link, quote, Newest, noted)
<1>1. work[e] \in WorkState /\ work[e].kept \in LinkRow /\ work[e].row \in LinkRow
  BY DEF LeadInv, LeadTyped, WorkState
<1>2. link \in LinkRow /\ Newest \in Quotes /\ Newest \in Nat
  BY LeadConstants DEF LeadInv, LeadTyped, QuotesInOrder, Quotes
<1>3. link.quote \in Nat /\ work[e].kept.quote \in Nat
  BY <1>1, <1>2, LinkFields
<1> QED BY <1>1, <1>2, <1>3 DEF LeadInv

\* A job starts with nothing read.
LEMMA StartJobKeepsLead ==
  ASSUME LeadInv, job \in [Events -> JobState], NEW e \in Events, StartJob(e)
  PROVE  LeadInv'
<1> DEFINE s == [work[e] EXCEPT !.pc = "reading"]
<1>1. work[e].kept = NoLink
  <2>1. work[e].pc = "idle"
    BY DEF StartJob, Start, LeadInv, Running
  <2> QED BY <2>1, JobIsSound DEF JobSound, HasRead
<1>2. /\ s \in WorkState /\ s.pc = "reading" /\ s.kept = NoLink
      /\ work' = [work EXCEPT ![e] = s]
  BY <1>1, JobIsSound DEF WorkState, StartJob, Do
<1>3. ~(s.kept.quote > Newest) /\ s.kept.quote <= Newest + 1
  BY <1>2, Idles, JobIsSound DEF NoQuote
<1>4. JobSound(e, s, link, quote, Newest) /\ MarkGone(s, link, Newest)
  <2> HIDE DEF s
  <2> QED BY <1>2, <1>3 DEF JobSound, MarkGone, HasRead
<1>5. Running(e)' /\ \A f \in Events : f # e /\ Running(f) => Running(f)'
  BY DEF StartJob, Start, Running, JobState
<1>6. JobMoves(e, s)
  <2> HIDE DEF s
  <2> QED BY <1>2, <1>3, <1>4, <1>5 DEF JobMoves, StartJob, LeadInv, LeadTyped
<1> QED BY <1>6, JobMovesKeepInv

\* A step that leaves the queue alone leaves those who run.
LEMMA SameJobs ==
  ASSUME UNCHANGED job
  PROVE  \A f \in Events : Running(f) <=> Running(f)'
BY DEF Running

\* A job reads the link as it is.
LEMMA ReadLinkKeepsLead ==
  ASSUME LeadInv, NEW e \in Events, ReadLink(e)
  PROVE  LeadInv'
<1> DEFINE k == WithMessage(link, e)
           s == [work[e] EXCEPT !.kept = k,
                    !.pc = IF link.quote = NoQuote THEN "saving" ELSE "looking"]
<1>1. k \in LinkRow /\ k.quote = link.quote /\ k.done = link.done
  BY JobIsSound, WithMessageRow
<1>2. /\ s \in WorkState /\ s.kept = k
      /\ s.pc = IF link.quote = NoQuote THEN "saving" ELSE "looking"
      /\ work' = [work EXCEPT ![e] = s]
  <2> HIDE DEF k
  <2> QED BY <1>1, JobIsSound DEF WorkState, ReadLink, k
<1>3. ~(s.kept.quote > Newest) /\ s.kept.quote <= Newest + 1
  <2>1. s.kept.quote = link.quote
    BY <1>1, <1>2
  <2> HIDE DEF s
  <2> QED BY <2>1, JobIsSound
<1> HIDE DEF s
<1>4. JobSound(e, s, link, quote, Newest)
  BY <1>2, <1>3 DEF JobSound, FreshJob, HasRead
<1>5. ~crossed => MarkGone(s, link, Newest)
  <2> SUFFICES ASSUME ~crossed, link.quote = NoQuote PROVE s.kept.done = NoQuote
    BY <1>2, <1>3 DEF MarkGone
  <2> QED BY <1>1, <1>2, JobIsSound DEF LinkSound
<1>6. Running(e) /\ \A f \in Events : Running(f) <=> Running(f)'
  BY SameJobs DEF ReadLink, reception, LeadInv
<1>7. JobMoves(e, s)
  BY <1>2, <1>3, <1>4, <1>5, <1>6 DEF JobMoves, ReadLink, LeadInv, LeadTyped
<1> QED BY <1>7, JobMovesKeepInv

\* What a job looks up is the link as it is, if its copy is not stale.
LEMMA LookedUp ==
  ASSUME LeadInv, NEW e \in Events, work[e].pc = "looking"
  PROVE  /\ work[e].kept.quote <= Newest + 1
         /\ ~work[e].stale =>
              /\ work[e].kept = WithMessage(link, e) /\ link.quote # NoQuote
              /\ work[e].kept.quote = link.quote /\ work[e].kept.done = link.done
              /\ LeadStatus(work[e].kept) = "EVENT_DONE" <=> CycleDone(link, quote)
<1>1. JobSound(e, work[e], link, quote, Newest) /\ HasRead(work[e])
  BY JobIsSound DEF HasRead
<1>2. ASSUME ~work[e].stale
      PROVE  /\ work[e].kept = WithMessage(link, e) /\ link.quote # NoQuote
             /\ work[e].kept.quote = link.quote /\ work[e].kept.done = link.done
             /\ LeadStatus(work[e].kept) = "EVENT_DONE" <=> CycleDone(link, quote)
  <2>1. work[e].kept = WithMessage(link, e) /\ link.quote # NoQuote
    BY <1>1, <1>2 DEF JobSound, FreshJob
  <2>2. work[e].kept.quote = link.quote /\ work[e].kept.done = link.done
    BY <2>1, JobIsSound, WithMessageRow
  <2>3. CycleDone(work[e].kept, quote) <=> CycleDone(link, quote)
    BY <2>2 DEF CycleDone
  <2> QED BY <2>1, <2>2, <2>3, JobIsSound, StatusIsDone DEF LeadInv, LeadTyped
<1> QED BY <1>1, <1>2 DEF JobSound

\* A done cycle is restarted in memory.
LEMMA LookUpKeepsLead ==
  ASSUME LeadInv, NEW e \in Events, LookUp(e)
  PROVE  LeadInv'
<1> DEFINE old == work[e].kept
           k == IF LeadStatus(old) = "EVENT_DONE" THEN Restarted(old) ELSE old
           s == [work[e] EXCEPT !.pc = "saving", !.kept = k]
<1>1. old \in LinkRow /\ work[e] \in WorkState /\ work[e].pc = "looking"
  BY JobIsSound DEF LookUp
<1>2. k \in LinkRow
  BY <1>1, RestartedRow
<1>3. /\ s \in WorkState /\ s.kept = k /\ s.pc = "saving" /\ s.stale = work[e].stale
      /\ work' = [work EXCEPT ![e] = s]
  <2>1. work' = [work EXCEPT ![e] = s]
    BY DEF LookUp
  <2> HIDE DEF k
  <2> QED BY <1>1, <1>2, <2>1 DEF WorkState
<1>4. k.quote <= Newest + 1 /\ (k.quote > Newest => old.quote > Newest)
  BY <1>1, LookedUp, RestartedRow, JobIsSound DEF NoQuote
<1>5. ~work[e].stale => FreshJob(e, s, link, quote, Newest)
  <2> SUFFICES ASSUME ~work[e].stale PROVE FreshJob(e, s, link, quote, Newest)
    OBVIOUS
  <2>1. old = WithMessage(link, e) /\ old.quote = link.quote
    BY <1>1, LookedUp
  <2>2. ~(k.quote > Newest)
    BY <1>4, <2>1, JobIsSound
  <2>3. LeadStatus(old) = "EVENT_DONE" <=> CycleDone(link, quote)
    BY <1>1, LookedUp
  <2>4. k = old \/ (k = Restarted(old) /\ CycleDone(link, quote))
    BY <2>3
  <2> HIDE DEF s, k, old
  <2> QED BY <1>3, <2>1, <2>2, <2>4 DEF FreshJob
<1>6. ~crossed /\ ~work[e].stale => k.done = NoQuote
  <2> SUFFICES ASSUME ~crossed, ~work[e].stale PROVE k.done = NoQuote
    OBVIOUS
  <2>1. CASE CycleDone(link, quote)
    BY <1>1, <2>1, LookedUp, RestartedRow
  <2>2. CASE ~CycleDone(link, quote)
    <3>1. link.done = NoQuote
      BY <2>2, JobIsSound DEF LinkSound, CycleDone
    <3> QED BY <1>1, <2>2, <3>1, LookedUp
  <2> QED BY <2>1, <2>2
<1>7. MarkGone(work[e], link, Newest) \/ crossed
  BY JobIsSound
<1> HIDE DEF s, k
<1>8. JobSound(e, s, link, quote, Newest)
  BY <1>3, <1>4, <1>5 DEF JobSound, HasRead
<1>9. ~crossed => MarkGone(s, link, Newest)
  BY <1>3, <1>4, <1>6, <1>7 DEF MarkGone
<1>10. s.kept.quote > Newest => \A f \in Events \ {e} : ~Quoting(f)
  BY <1>3, <1>4 DEF LeadInv, Quoting
<1>11. Running(e) /\ \A f \in Events : Running(f) <=> Running(f)'
  BY <1>1, SameJobs DEF LookUp, reception, LeadInv
<1>12. JobMoves(e, s)
  BY <1>3, <1>8, <1>9, <1>10, <1>11 DEF JobMoves, LookUp, LeadInv, LeadTyped
<1> QED BY <1>12, JobMovesKeepInv

\* A failure leaves a done cycle as it is, and is then told apart by crossed.
LEMMA LookUpFailsKeepsLead ==
  ASSUME LeadInv, NEW e \in Events, LookUpFails(e)
  PROVE  LeadInv'
<1> DEFINE old == work[e].kept
           s == [work[e] EXCEPT !.pc = "saving"]
<1>1. old \in LinkRow /\ work[e] \in WorkState /\ work[e].pc = "looking"
  BY JobIsSound DEF LookUpFails
<1>2. /\ s \in WorkState /\ s.kept = old /\ s.pc = "saving" /\ s.stale = work[e].stale
      /\ work' = [work EXCEPT ![e] = s]
  BY <1>1 DEF WorkState, LookUpFails, Do
<1>3. crossed' = (crossed \/ LeadStatus(old) = "EVENT_DONE")
  BY DEF LookUpFails
<1>4. ~work[e].stale => FreshJob(e, s, link, quote, Newest)
  <2> SUFFICES ASSUME ~work[e].stale PROVE FreshJob(e, s, link, quote, Newest)
    OBVIOUS
  <2>1. old = WithMessage(link, e) /\ old.quote = link.quote
    BY <1>1, LookedUp
  <2>2. ~(old.quote > Newest)
    BY <2>1, JobIsSound
  <2> HIDE DEF s, old
  <2> QED BY <1>2, <2>1, <2>2 DEF FreshJob
<1>5. ~crossed' /\ ~work[e].stale => old.done = NoQuote
  <2> SUFFICES ASSUME ~crossed', ~work[e].stale PROVE old.done = NoQuote
    OBVIOUS
  <2>1. ~crossed /\ ~CycleDone(link, quote)
    BY <1>1, <1>3, LookedUp
  <2>2. link.done = NoQuote
    BY <2>1, JobIsSound DEF LinkSound, CycleDone
  <2> QED BY <1>1, <2>2, LookedUp
<1>6. MarkGone(work[e], link, Newest) \/ crossed
  BY JobIsSound
<1>7. old.quote <= Newest + 1
  BY <1>1, LookedUp
<1> HIDE DEF s
<1>8. JobSound(e, s, link, quote, Newest)
  BY <1>2, <1>4, <1>7 DEF JobSound, HasRead
<1>9. ~crossed' => MarkGone(s, link, Newest)
  BY <1>2, <1>3, <1>5, <1>6 DEF MarkGone
<1>10. s.kept.quote > Newest => \A f \in Events \ {e} : ~Quoting(f)
  BY <1>2 DEF LeadInv, Quoting
<1>11. Running(e) /\ \A f \in Events : Running(f) <=> Running(f)'
  BY <1>1, SameJobs DEF LookUpFails, reception, LeadInv
<1>12. crossed' \in BOOLEAN /\ (crossed => crossed')
  BY <1>3
<1>13. JobMoves(e, s)
  BY <1>2, <1>8, <1>9, <1>10, <1>11, <1>12 DEF JobMoves, LookUpFails
<1> QED BY <1>13, JobMovesKeepInv

\* The save finds the row as it is.
LEMMA FindRowKeepsLead ==
  ASSUME LeadInv, NEW e \in Events, FindRow(e)
  PROVE  LeadInv'
<1> DEFINE s == [work[e] EXCEPT !.pc = "writing", !.row = link]
<1>1. work[e] \in WorkState /\ work[e].pc = "saving" /\ link \in LinkRow
  BY JobIsSound DEF FindRow
<1>2. /\ s \in WorkState /\ s.kept = work[e].kept /\ s.pc = "writing"
      /\ s.stale = work[e].stale /\ s.row = link
      /\ work' = [work EXCEPT ![e] = s]
  BY <1>1 DEF WorkState, FindRow
<1> HIDE DEF s
<1>3. JobSound(e, s, link, quote, Newest)
  BY <1>1, <1>2, JobIsSound DEF JobSound, FreshJob, HasRead
<1>4. ~crossed => MarkGone(s, link, Newest)
  BY <1>1, <1>2, JobIsSound DEF MarkGone
<1>5. s.kept.quote > Newest => \A f \in Events \ {e} : ~Quoting(f)
  BY <1>2 DEF LeadInv, Quoting
<1>6. Running(e) /\ \A f \in Events : Running(f) <=> Running(f)'
  BY <1>1, SameJobs DEF FindRow, reception, LeadInv
<1>7. JobMoves(e, s)
  BY <1>2, <1>3, <1>4, <1>5, <1>6 DEF JobMoves, FindRow, LeadInv, LeadTyped
<1> QED BY <1>7, JobMovesKeepInv

\* A job that ends leaves the others running.
LEMMA FinishRuns ==
  ASSUME job \in [Events -> JobState], NEW e \in Events, Finish(e)
  PROVE  \A f \in Events : f # e /\ Running(f) => Running(f)'
BY DEF Finish, Running

\* A message that could not be noted leaves its job to end or answer.
LEMMA NoteFailsKeepsLead ==
  ASSUME LeadInv, job \in [Events -> JobState], NEW e \in Events, NoteFails(e)
  PROVE  LeadInv'
<1>1. /\ link' = link /\ crossed' = (crossed \/ link.done # NoQuote)
      /\ UNCHANGED <<quote, mark, noted>> /\ Noted(e)
  BY DEF NoteFails
<1>2. \A f \in Events : Outdated(work[f]) = work[f]
  BY <1>1 DEF Outdated
<1>3. work \in [Events -> WorkState]
  BY DEF LeadInv, LeadTyped
<1>4. Running(e)
  BY DEF NoteFails, HasRead, LeadInv
<1>5. PICK s : /\ s = Idle \/ s = [Idle EXCEPT !.pc = "answering"]
               /\ work' = [f \in Events |-> IF f = e THEN s ELSE Outdated(work[f])]
               /\ UNCHANGED job \/ (s = Idle /\ Finish(e))
  BY <1>1 DEF Noted
<1>6. work' = [work EXCEPT ![e] = s]
  BY <1>2, <1>3, <1>5
<1>7. ~crossed' => link.done = NoQuote
  BY <1>1
<1>8. /\ JobSound(e, s, link, quote, Newest) /\ ~(s.kept.quote > Newest)
      /\ ~crossed' => MarkGone(s, link, Newest)
  BY <1>5, <1>7, NothingKept
<1>9. /\ \A f \in Events : f # e /\ Running(f) => Running(f)'
      /\ s.pc # "idle" => Running(e)'
  BY <1>4, <1>5, Idles, FinishRuns, SameJobs
<1>10. s \in WorkState /\ crossed' \in BOOLEAN /\ (crossed => crossed')
  BY <1>1, <1>5, Idles
<1>11. JobMoves(e, s)
  BY <1>1, <1>6, <1>8, <1>9, <1>10 DEF JobMoves
<1> QED BY <1>11, JobMovesKeepInv

\* The bot quotes with the link as it is, and only one job does at a time.
LEMMA QuoteClientKeepsLead ==
  ASSUME LeadInv, NEW e \in Events, QuoteClient(e)
  PROVE  LeadInv'
<1> DEFINE k == LinkQuote(link, Newest + 1)
           s == [work[e] EXCEPT !.pc = "saving", !.kept = k]
<1>1. work[e] \in WorkState /\ work[e].pc = "answering" /\ link \in LinkRow /\ Newest \in Nat
  BY JobIsSound DEF QuoteClient
<1>2. Newest + 1 \in Quotes
  BY <1>1, LeadConstants DEF QuoteClient, Quotes
<1>3. k \in LinkRow /\ k.quote = Newest + 1 /\ k.done = link.done
  BY <1>1, <1>2, LinkQuoteRow
<1>4. /\ s \in WorkState /\ s.kept = k /\ s.pc = "saving"
      /\ work' = [work EXCEPT ![e] = s]
  <2>1. work' = [work EXCEPT ![e] = s]
    BY DEF QuoteClient
  <2> HIDE DEF k
  <2> QED BY <1>1, <1>3, <2>1 DEF WorkState
<1>5. k = LinkQuote(link, k.quote)
  BY <1>3
<1> HIDE DEF s, k
<1>6. k.quote <= Newest + 1 /\ k.quote > Newest
  BY <1>1, <1>3
<1>7. JobSound(e, s, link, quote, Newest)
  BY <1>4, <1>5, <1>6 DEF JobSound, FreshJob, HasRead
<1>8. ~crossed => MarkGone(s, link, Newest)
  BY <1>1, <1>3, <1>4, JobIsSound DEF MarkGone
<1>9. Running(e) /\ \A f \in Events : Running(f) <=> Running(f)'
  BY <1>1, SameJobs DEF QuoteClient, reception, LeadInv
<1>10. JobMoves(e, s)
  BY <1>4, <1>7, <1>8, <1>9 DEF JobMoves, QuoteClient, LeadInv, LeadTyped
<1> QED BY <1>10, JobMovesKeepInv

\* A job ends, or is cancelled.
LEMMA JobEndsKeepsLead ==
  ASSUME LeadInv, job \in [Events -> JobState], NEW e \in Events,
         AnswerOnly(e) \/ CancelJob(e)
  PROVE  LeadInv'
<1>1. /\ work' = [work EXCEPT ![e] = Idle] /\ Finish(e)
      /\ UNCHANGED <<link, quote, mark, noted, crossed>>
  BY DEF AnswerOnly, CancelJob
<1>2. /\ JobSound(e, Idle, link, quote, Newest) /\ ~(Idle.kept.quote > Newest)
      /\ ~crossed' => MarkGone(Idle, link, Newest)
  BY NothingKept
<1>3. JobMoves(e, Idle)
  BY <1>1, <1>2, Idles, FinishRuns DEF JobMoves, LeadInv, LeadTyped
<1> QED BY <1>3, JobMovesKeepInv

\* A worker that is lost takes what its jobs had read with it.
LEMMA LoseWorkerKeepsLead ==
  ASSUME LeadInv, LoseWorker
  PROVE  LeadInv'
<1> USE DEF LeadInv
<1>1. /\ \A e \in Events : work'[e] = Idle
      /\ work' \in [Events -> WorkState]
      /\ UNCHANGED <<link, quote, mark, noted, crossed>>
  BY Idles DEF LoseWorker
<1>2. Created' = Created /\ Newest' = Newest
  BY <1>1 DEF Created, Newest
<1>3. LeadTyped' /\ QuotesInOrder' /\ link'.quote <= Newest'
  BY <1>1, <1>2 DEF LeadTyped, QuotesInOrder
<1>4. \A e \in Events : /\ JobSound(e, Idle, link, quote, Newest)
                        /\ ~(Idle.kept.quote > Newest)
                        /\ ~crossed' => MarkGone(Idle, link, Newest)
  BY NothingKept
<1>5. \A e \in Events : /\ work'[e].pc = "idle"
                        /\ JobSound(e, work'[e], link', quote', Newest')
                        /\ ~Quoting(e)'
  BY <1>1, <1>2, <1>4, Idles DEF Quoting
<1>6. MarkSound(mark', link', quote', Newest')
  BY <1>1, <1>2
<1>7. ~crossed' => /\ LinkSound(link', quote', Newest', noted')
                   /\ \A e \in Events : MarkGone(work'[e], link', Newest')
  BY <1>1, <1>2, <1>4
<1> QED BY <1>3, <1>5, <1>6, <1>7

\* The command of the staff moves on to state m, and no row changes.
LEMMA MarkMovesKeepInv ==
  ASSUME LeadInv, NEW m \in MarkState, mark' = m,
         UNCHANGED <<job, link, quote, work, noted, crossed>>,
         MarkSound(m, link, quote, Newest)
  PROVE  LeadInv'
<1> USE DEF LeadInv
<1>1. Created' = Created /\ Newest' = Newest
  BY DEF Created, Newest
<1>2. LeadTyped' /\ QuotesInOrder' /\ link'.quote <= Newest'
  BY <1>1 DEF LeadTyped, QuotesInOrder
<1>3. /\ \A e \in Events : work'[e].pc # "idle" => Running(e)'
      /\ \A e \in Events : JobSound(e, work'[e], link', quote', Newest')
      /\ \A e, f \in Events : Quoting(e)' /\ Quoting(f)' => e = f
  BY <1>1 DEF Running, Quoting
<1>4. MarkSound(mark', link', quote', Newest')
  BY <1>1
<1>5. ~crossed' => /\ LinkSound(link', quote', Newest', noted')
                   /\ \A e \in Events : MarkGone(work'[e], link', Newest')
  BY <1>1
<1> QED BY <1>2, <1>3, <1>4, <1>5

\* What the invariant says of the command of the staff.
LEMMA MarkIsSound ==
  ASSUME LeadInv
  PROVE  /\ mark \in MarkState /\ mark.kept \in LinkRow /\ mark.row \in LinkRow
         /\ mark.viewed \in Quotes \cup {NoQuote}
         /\ MarkSound(mark, link, quote, Newest)
         /\ link \in LinkRow /\ link.quote \in Nat /\ link.quote <= Newest
         /\ Newest \in Quotes /\ Newest \in Nat
<1>1. /\ mark \in MarkState /\ mark.kept \in LinkRow /\ mark.row \in LinkRow
      /\ mark.viewed \in Quotes \cup {NoQuote}
  BY DEF LeadInv, LeadTyped, MarkState
<1>2. link \in LinkRow /\ Newest \in Quotes /\ Newest \in Nat
  BY LeadConstants DEF LeadInv, LeadTyped, QuotesInOrder, Quotes
<1> QED BY <1>1, <1>2, LinkFields DEF LeadInv

\* A command that has ended.
LEMMA NoMarkIsSound ==
  ASSUME LeadInv
  PROVE  NoMark \in MarkState /\ MarkSound(NoMark, link, quote, Newest)
<1>1. NoMark \in MarkState /\ NoMark.pc = "idle" /\ NoMark.kept = NoLink
  BY Idles DEF NoMark, MarkState
<1>2. NoMark.kept.quote <= Newest
  BY <1>1, Idles, MarkIsSound DEF NoQuote
<1> QED BY <1>1, <1>2 DEF MarkSound, HasRead

\* The steps of the command before its save.
LEMMA MarkEventDoneKeepsLead ==
  ASSUME LeadInv, ViewConversation \/ ReadLinkAgain \/ FindMarkRow \/ MarkFails
  PROVE  LeadInv'
<1>1. CASE ViewConversation
  <2> DEFINE m == [NoMark EXCEPT !.pc = "viewed", !.viewed = link.quote]
  <2>1. link.quote # NoQuote /\ quote[link.quote] = "converted" /\ link.quote \in Quotes
    BY <1>1, MarkIsSound, LinkFields, StatusIsDone DEF ViewConversation, LeadInv, LeadTyped
  <2>2. /\ m \in MarkState /\ m.pc = "viewed" /\ m.viewed = link.quote /\ m.kept = NoLink
    BY <2>1, Idles DEF NoMark, MarkState
  <2>3. m.kept.quote <= Newest
    BY <2>2, Idles, MarkIsSound DEF NoQuote
  <2>4. mark' = m /\ UNCHANGED <<job, link, quote, work, noted, crossed>>
    BY <1>1 DEF ViewConversation, reception
  <2> HIDE DEF m
  <2>5. MarkSound(m, link, quote, Newest)
    BY <2>1, <2>2, <2>3 DEF MarkSound, HasRead
  <2> QED BY <2>2, <2>4, <2>5, MarkMovesKeepInv
<1>2. CASE ReadLinkAgain
  <2> DEFINE k == WithMark(link, mark.viewed)
             m == [mark EXCEPT !.pc = "saving", !.kept = k]
  <2>1. /\ mark.pc = "viewed" /\ mark' = m
        /\ UNCHANGED <<job, link, quote, work, noted, crossed>>
    BY <1>2 DEF ReadLinkAgain, reception
  <2>2. k \in LinkRow /\ k.quote = link.quote
    BY MarkIsSound, WithMarkRow
  <2>3. k.quote <= Newest
    BY <2>2, MarkIsSound
  <2>4. /\ m \in MarkState /\ m.pc = "saving" /\ m.kept = k /\ m.viewed = mark.viewed
    <3> HIDE DEF k
    <3> QED BY <2>2, MarkIsSound DEF MarkState
  <2> HIDE DEF m
  <2>5. MarkSound(m, link, quote, Newest)
    BY <2>1, <2>3, <2>4, MarkIsSound DEF MarkSound
  <2> QED BY <2>1, <2>4, <2>5, MarkMovesKeepInv
<1>3. CASE FindMarkRow
  <2> DEFINE m == [mark EXCEPT !.pc = "writing", !.row = link]
  <2>1. /\ mark.pc = "saving" /\ mark' = m
        /\ UNCHANGED <<job, link, quote, work, noted, crossed>>
    BY <1>3 DEF FindMarkRow, reception
  <2>2. /\ m \in MarkState /\ m.pc = "writing" /\ m.kept = mark.kept
        /\ m.viewed = mark.viewed /\ m.row = link /\ m.stale = mark.stale
    BY MarkIsSound DEF MarkState
  <2> HIDE DEF m
  <2>3. MarkSound(m, link, quote, Newest)
    BY <2>1, <2>2, MarkIsSound DEF MarkSound, HasRead
  <2> QED BY <2>1, <2>2, <2>3, MarkMovesKeepInv
<1>4. CASE MarkFails
  <2>1. mark' = NoMark /\ UNCHANGED <<job, link, quote, work, noted, crossed>>
    BY <1>4 DEF MarkFails, reception
  <2> QED BY <2>1, NoMarkIsSound, MarkMovesKeepInv
<1> QED BY <1>1, <1>2, <1>3, <1>4

\* A quote that changes elsewhere stays created, sold and done if it was.
LEMMA QuoteChanges ==
  ASSUME LeadInv, NEW q \in Quotes, Convert(q) \/ Close(q) \/ Settle(q)
  PROVE  /\ quote' \in [Quotes -> QuoteStatus] /\ Created' = Created
         /\ \A p \in Quotes : quote[p] \in {"converted", "settled"} =>
                                quote'[p] \in {"converted", "settled"}
         /\ \A p \in Quotes : quote[p] = "settled" => quote'[p] = "settled"
         /\ UNCHANGED <<job, link, work, mark, noted, crossed>>
<1>1. quote \in [Quotes -> QuoteStatus]
  BY DEF LeadInv, LeadTyped
<1>2. PICK before, after :
        /\ quote[q] = before /\ quote' = [quote EXCEPT ![q] = after]
        /\ \/ before = "sent" /\ after \in {"converted", "closed"}
           \/ before = "converted" /\ after = "settled"
  BY DEF Convert, Close, Settle, Becomes
<1>3. \A p \in Quotes : quote'[p] = IF p = q THEN after ELSE quote[p]
  BY <1>1, <1>2
<1>4. after \in QuoteStatus
  BY <1>2 DEF QuoteStatus
<1>5. Created' = Created
  BY <1>2, <1>3 DEF Created
<1>6. UNCHANGED <<job, link, work, mark, noted, crossed>>
  BY DEF Convert, Close, Settle, Becomes, reception
<1> QED BY <1>1, <1>2, <1>3, <1>4, <1>5, <1>6

\* Quotes that change elsewhere.
LEMMA QuoteChangesKeepLead ==
  ASSUME LeadInv, NEW q \in Quotes, Convert(q) \/ Close(q) \/ Settle(q)
  PROVE  LeadInv'
<1> USE DEF LeadInv
<1>1. /\ quote' \in [Quotes -> QuoteStatus] /\ Created' = Created
      /\ \A p \in Quotes : quote[p] \in {"converted", "settled"} =>
                             quote'[p] \in {"converted", "settled"}
      /\ \A p \in Quotes : quote[p] = "settled" => quote'[p] = "settled"
      /\ UNCHANGED <<job, link, work, mark, noted, crossed>>
  BY QuoteChanges
<1>2. Newest' = Newest
  BY <1>1 DEF Newest
<1>3. LeadTyped' /\ QuotesInOrder' /\ link'.quote <= Newest'
  BY <1>1, <1>2 DEF LeadTyped, QuotesInOrder
<1>4. CycleDone(link, quote) => CycleDone(link, quote')
  <2>1. link.quote # NoQuote => link.quote \in Quotes
    BY MarkIsSound, LinkFields
  <2> QED BY <1>1, <2>1 DEF CycleDone
<1>5. \A e \in Events : JobSound(e, work'[e], link', quote', Newest')
  BY <1>1, <1>2, <1>4 DEF JobSound, FreshJob
<1>6. MarkSound(mark', link', quote', Newest')
  BY <1>1, <1>2, MarkIsSound DEF MarkSound
<1>7. /\ \A e \in Events : work'[e].pc # "idle" => Running(e)'
      /\ \A e, f \in Events : Quoting(e)' /\ Quoting(f)' => e = f
  BY <1>1, <1>2 DEF Running, Quoting
<1>8. ~crossed' => /\ LinkSound(link', quote', Newest', noted')
                   /\ \A e \in Events : MarkGone(work'[e], link', Newest')
  <2>1. link.done # NoQuote => link.done \in Quotes
    BY MarkIsSound, LinkFields
  <2> QED BY <1>1, <1>2, <2>1 DEF LinkSound
<1> QED BY <1>3, <1>5, <1>6, <1>7, <1>8

-----------------------------------------------------------------------------
(* Saves.                                                                  *)

\* What a save that is not stale writes.
LEMMA FreshSave ==
  ASSUME LeadInv, NEW e \in Events, work[e].pc = "writing",
         link' = Written(work[e].row, work[e].kept)
  PROVE  /\ link' \in LinkRow
         /\ link'.quote \in {link.quote, work[e].kept.quote}
         /\ ~work[e].stale =>
              /\ link' = work[e].kept
              /\ FreshJob(e, work[e], link, quote, Newest)
<1>1. work[e].kept \in LinkRow /\ work[e].row \in LinkRow /\ link \in LinkRow
  BY JobIsSound
<1>2. ~work[e].stale => FreshJob(e, work[e], link, quote, Newest) /\ work[e].row = link
  BY JobIsSound DEF JobSound, FreshJob, HasRead
<1> QED BY <1>1, <1>2, WrittenRow

\* What the save of the staff writes.
LEMMA FreshMark ==
  ASSUME LeadInv, mark.pc = "writing", link' = Written(mark.row, mark.kept)
  PROVE  /\ link' \in LinkRow
         /\ link'.quote \in {link.quote, mark.kept.quote}
         /\ ~mark.stale => link' = WithMark(link, mark.viewed)
<1>1. mark.kept \in LinkRow /\ mark.row \in LinkRow /\ link \in LinkRow
  BY MarkIsSound
<1>2. ~mark.stale => mark.kept = WithMark(link, mark.viewed) /\ mark.row = link
  BY MarkIsSound DEF MarkSound, HasRead
<1> QED BY <1>1, <1>2, WrittenRow

\* Those who had read the link that a save has changed are stale now.
LEMMA OutdatedJob ==
  ASSUME LeadInv, NEW f \in Events, NEW quotes, NEW n \in Nat,
         \/ n = Newest
         \/ n = Newest + 1 /\ ~Quoting(f),
         CycleDone(link, quote) => CycleDone(link, quotes)
  PROVE  /\ Outdated(work[f]) \in WorkState
         /\ Outdated(work[f]).pc = work[f].pc /\ Outdated(work[f]).kept = work[f].kept
         /\ ~Outdated(work[f]).stale => ~work[f].stale
         /\ JobSound(f, Outdated(work[f]), link', quotes, n)
<1> DEFINE s == work[f]
           t == Outdated(s)
<1>1. s \in WorkState /\ JobSound(f, s, link, quote, Newest) /\ Newest \in Nat /\ s.kept.quote \in Nat
  BY JobIsSound
<1>2. /\ t \in WorkState /\ t.pc = s.pc /\ t.kept = s.kept /\ t.row = s.row
      /\ ~t.stale => ~s.stale /\ (HasRead(s) => link' = link)
  <2>1. CASE HasRead(s) /\ link' # link
    <3>1. t = [s EXCEPT !.stale = TRUE]
      BY <2>1 DEF Outdated
    <3> HIDE DEF s, t
    <3> QED BY <1>1, <3>1 DEF WorkState
  <2>2. CASE ~(HasRead(s) /\ link' # link)
    <3>1. t = s
      BY <2>2 DEF Outdated
    <3> HIDE DEF s, t
    <3> QED BY <1>1, <2>2, <3>1
  <2> QED BY <2>1, <2>2
<1>3. s.kept.quote > n <=> s.kept.quote > Newest
  BY <1>1 DEF Quoting
<1>4. s.kept.quote <= n + 1
  BY <1>1 DEF JobSound
<1> HIDE DEF s, t
<1>5. JobSound(f, t, link', quotes, n)
  BY <1>1, <1>2, <1>3, <1>4 DEF JobSound, FreshJob, HasRead
<1> QED BY <1>2, <1>5 DEF s, t

\* So is the command of the staff.
LEMMA OutdatedMark ==
  ASSUME LeadInv, NEW quotes, NEW n \in Nat, Newest <= n,
         \A p \in Quotes : quote[p] \in {"converted", "settled"} => quotes[p] = quote[p]
  PROVE  Outdated(mark) \in MarkState /\ MarkSound(Outdated(mark), link', quotes, n)
<1> DEFINE m == Outdated(mark)
<1>1. /\ mark \in MarkState /\ MarkSound(mark, link, quote, Newest) /\ Newest \in Nat
      /\ mark.viewed \in Quotes \cup {NoQuote} /\ mark.kept.quote \in Nat
  BY MarkIsSound, LinkFields
<1>2. /\ m \in MarkState /\ m.pc = mark.pc /\ m.kept = mark.kept /\ m.row = mark.row
      /\ m.viewed = mark.viewed
      /\ ~m.stale => ~mark.stale /\ (HasRead(mark) => link' = link)
  <2>1. CASE HasRead(mark) /\ link' # link
    <3>1. m = [mark EXCEPT !.stale = TRUE]
      BY <2>1 DEF Outdated
    <3> HIDE DEF m
    <3> QED BY <1>1, <3>1 DEF MarkState
  <2>2. CASE ~(HasRead(mark) /\ link' # link)
    <3>1. m = mark
      BY <2>2 DEF Outdated
    <3> HIDE DEF m
    <3> QED BY <1>1, <2>2, <3>1
  <2> QED BY <2>1, <2>2
<1>3. mark.kept.quote <= n
  BY <1>1 DEF MarkSound
<1> HIDE DEF m
<1>4. MarkSound(m, link', quotes, n)
  BY <1>1, <1>2, <1>3 DEF MarkSound, HasRead
<1> QED BY <1>2, <1>4 DEF m

\* The save of a message.
LEMMA SaveNoteKeepsLead ==
  ASSUME LeadInv, job \in [Events -> JobState], NEW e \in Events, SaveNote(e)
  PROVE  LeadInv'
<1> USE DEF LeadInv
<1> DEFINE k == work[e].kept
<1>1. /\ work[e].pc = "writing" /\ ~(k.quote > Newest)
      /\ link' = Written(work[e].row, k) /\ crossed' = (crossed \/ work[e].stale)
      /\ noted' = (IF e > noted THEN e ELSE noted)
      /\ mark' = Outdated(mark) /\ quote' = quote
  BY DEF SaveNote, Write, Quoting
<1>2. PICK s : /\ s = Idle \/ s = [Idle EXCEPT !.pc = "answering"]
               /\ work' = [f \in Events |-> IF f = e THEN s ELSE Outdated(work[f])]
               /\ UNCHANGED job \/ (s = Idle /\ Finish(e))
  BY DEF SaveNote, Noted
<1>3. Created' = Created /\ Newest' = Newest
  BY <1>1 DEF Created, Newest
<1>4. link' \in LinkRow /\ link'.quote <= Newest
  BY <1>1, FreshSave, JobIsSound
<1>5. s \in WorkState /\ s.pc \in {"idle", "answering"} /\ s.kept = NoLink
  BY <1>2, Idles
<1>6. work'[e] = s /\ \A f \in Events \ {e} : work'[f] = Outdated(work[f])
  BY <1>2
<1>7. \A f \in Events : /\ Outdated(work[f]) \in WorkState
                        /\ Outdated(work[f]).pc = work[f].pc
                        /\ Outdated(work[f]).kept = work[f].kept
                        /\ ~Outdated(work[f]).stale => ~work[f].stale
                        /\ JobSound(f, Outdated(work[f]), link', quote, Newest)
  BY OutdatedJob, JobIsSound
<1>8. LeadTyped'
  <2>1. work' \in [Events -> WorkState]
    BY <1>2, <1>5, <1>7
  <2>2. mark' \in MarkState
    BY <1>1, OutdatedMark, MarkIsSound
  <2> QED BY <1>1, <1>4, <2>1, <2>2 DEF LeadTyped
<1>9. QuotesInOrder' /\ link'.quote <= Newest'
  BY <1>3, <1>4 DEF QuotesInOrder
<1>10. \A f \in Events : work'[f].pc # "idle" => Running(f)'
  <2>1. Running(e)
    BY <1>1
  <2>2. \A f \in Events \ {e} : Running(f) => Running(f)'
    BY <1>2, FinishRuns, SameJobs
  <2>3. s.pc # "idle" => Running(e)'
    BY <1>2, <2>1, Idles, SameJobs
  <2> QED BY <1>6, <1>7, <2>2, <2>3
<1>11. ~HasRead(s) /\ ~(s.kept.quote > Newest) /\ s.kept.quote <= Newest + 1
  BY <1>5, Idles, JobIsSound DEF HasRead, NoQuote
<1>12. \A f \in Events : JobSound(f, work'[f], link', quote', Newest')
  <2>1. JobSound(e, s, link', quote, Newest)
    BY <1>5, <1>11 DEF JobSound
  <2> QED BY <1>1, <1>3, <1>6, <1>7, <2>1
<1>13. \A f, g \in Events : Quoting(f)' /\ Quoting(g)' => f = g
  BY <1>3, <1>6, <1>7, <1>11 DEF Quoting
<1>14. MarkSound(mark', link', quote', Newest')
  BY <1>1, <1>3, OutdatedMark, MarkIsSound
<1>15. ASSUME ~crossed'
       PROVE  /\ LinkSound(link', quote', Newest', noted')
              /\ \A f \in Events : MarkGone(work'[f], link', Newest')
  <2>1. ~crossed /\ ~work[e].stale
    BY <1>1, <1>15
  <2>2. link' = k /\ FreshJob(e, work[e], link, quote, Newest)
    BY <1>1, <2>1, FreshSave
  <2>3. /\ LinkSound(link, quote, Newest, noted) /\ MarkGone(work[e], link, Newest)
        /\ link \in LinkRow
    BY <2>1, JobIsSound
  <2>4. k.done = NoQuote
    BY <1>1, <2>1, <2>3 DEF MarkGone
  <2> DEFINE l == WithMessage(link, e)
  <2>5. k = l \/ k = Restarted(l)
    BY <1>1, <2>2 DEF FreshJob
  <2>6. /\ l \in LinkRow /\ l.quote = link.quote
        /\ l.seen = IF e > link.seen THEN e ELSE link.seen
    BY <2>3, WithMessageRow
  <2> HIDE DEF l, k
  <2>7. k.seen = l.seen /\ k.quote \in {NoQuote, l.quote}
    BY <2>5, <2>6, RestartedRow
  <2>8. LinkSound(link', quote, Newest, noted')
    BY <1>1, <2>2, <2>3, <2>4, <2>6, <2>7 DEF LinkSound
  <2>9. \A f \in Events \ {e} : MarkGone(Outdated(work[f]), link', Newest)
    BY <1>7, <2>1, <2>2, <2>4 DEF MarkGone
  <2>10. MarkGone(s, link', Newest)
    BY <1>5, <2>2, <2>4 DEF MarkGone
  <2> QED BY <1>1, <1>3, <1>6, <2>8, <2>9, <2>10
<1> QED BY <1>8, <1>9, <1>10, <1>12, <1>13, <1>14, <1>15

\* A quote is linked as it is created: it is the next one.
LEMMA SaveQuoteCreates ==
  ASSUME LeadInv, NEW e \in Events, SaveQuote(e)
  PROVE  LET n == Newest + 1
         IN  /\ work[e].kept.quote = n /\ n \in Quotes /\ n \in Nat /\ Newest \in Nat
             /\ quote \in [Quotes -> QuoteStatus] /\ quote[n] = "none"
             /\ quote' \in [Quotes -> QuoteStatus]
             /\ \A p \in Quotes : quote'[p] = IF p = n THEN "sent" ELSE quote[p]
             /\ Created' = 1 .. n /\ Newest' = n
<1> USE DEF LeadInv
<1> DEFINE k == work[e].kept
           n == Newest + 1
<1>1. k.quote > Newest /\ quote' = [quote EXCEPT ![k.quote] = "sent"]
  BY DEF SaveQuote, Quoting
<1>2. k.quote = n /\ n \in Quotes /\ n \in Nat /\ Newest \in Nat
  <2>1. /\ k.quote \in Nat /\ Newest \in Nat /\ k.quote <= Newest + 1
        /\ k.quote \in Quotes \cup {NoQuote}
    BY JobIsSound, LinkFields DEF JobSound
  <2>2. k.quote = n /\ n \in Nat /\ n # 0
    BY <1>1, <2>1
  <2> QED BY <2>1, <2>2 DEF NoQuote
<1>3. quote \in [Quotes -> QuoteStatus] /\ quote[n] = "none"
  <2>1. n \notin Created
    BY <1>2 DEF QuotesInOrder
  <2> QED BY <1>2, <2>1 DEF LeadTyped, Created
<1>4. /\ quote' \in [Quotes -> QuoteStatus]
      /\ \A p \in Quotes : quote'[p] = IF p = n THEN "sent" ELSE quote[p]
  BY <1>1, <1>2, <1>3 DEF QuoteStatus
<1>5. Created' = 1 .. n
  <2>1. Created' = Created \cup {n}
    BY <1>2, <1>4 DEF Created
  <2>2. Created = 1 .. Newest
    BY DEF QuotesInOrder
  <2> QED BY <1>2, <2>1, <2>2
<1>6. Newest' = n
  <2>1. \A i \in Nat : i # 0 /\ Created' = 1 .. i => Newest' = i
    <3> TAKE i \in Nat
    <3> HAVE i # 0 /\ Created' = 1 .. i
    <3>1. i \in Created' /\ \A p \in Created' : p <= i
      OBVIOUS
    <3>2. \A m \in Created' : (\A p \in Created' : p <= m) => m = i
      <4> TAKE m \in Created'
      <4> HAVE \A p \in Created' : p <= m
      <4>1. i <= m /\ m <= i /\ m \in Nat
        BY <3>1
      <4> QED BY <4>1
    <3> HIDE DEF Created
    <3> QED BY <3>1, <3>2 DEF Newest
  <2> QED BY <1>2, <1>5, <2>1
<1> QED BY <1>2, <1>3, <1>4, <1>5, <1>6

\* The save of a quote.
LEMMA SaveQuoteKeepsLead ==
  ASSUME LeadInv, job \in [Events -> JobState], NEW e \in Events, SaveQuote(e)
  PROVE  LeadInv'
<1> USE DEF LeadInv
<1> DEFINE k == work[e].kept
           n == Newest + 1
<1>1. /\ work[e].pc = "writing" /\ k.quote > Newest
      /\ link' = Written(work[e].row, k) /\ crossed' = (crossed \/ work[e].stale)
      /\ quote' = [quote EXCEPT ![k.quote] = "sent"]
      /\ mark' = Outdated(mark) /\ noted' = noted
      /\ work' = [f \in Events |-> IF f = e THEN Idle ELSE Outdated(work[f])]
      /\ Finish(e)
  BY DEF SaveQuote, Write, Quoting
<1>2. k.quote = n /\ n \in Quotes /\ n \in Nat /\ Newest \in Nat
  BY SaveQuoteCreates
<1>3. quote \in [Quotes -> QuoteStatus] /\ quote[n] = "none"
  BY SaveQuoteCreates
<1>4. /\ quote' \in [Quotes -> QuoteStatus]
      /\ \A p \in Quotes : quote'[p] = IF p = n THEN "sent" ELSE quote[p]
  BY SaveQuoteCreates
<1>5. Created' = 1 .. n
  BY SaveQuoteCreates
<1>6. Newest' = n
  BY SaveQuoteCreates
<1>7. link' \in LinkRow /\ link'.quote <= n
  BY <1>1, <1>2, FreshSave, JobIsSound
<1>8. CycleDone(link, quote) => CycleDone(link, quote')
  <2>1. link.quote # n /\ link.quote \in Quotes \cup {NoQuote}
    BY <1>2, JobIsSound, LinkFields
  <2> QED BY <1>4, <2>1 DEF CycleDone
<1>9. \A f \in Events \ {e} : ~Quoting(f)
  BY <1>1 DEF Quoting
<1> HIDE DEF n
<1>10. \A f \in Events \ {e} : /\ Outdated(work[f]) \in WorkState
                               /\ Outdated(work[f]).pc = work[f].pc
                               /\ Outdated(work[f]).kept = work[f].kept
                               /\ ~Outdated(work[f]).stale => ~work[f].stale
                               /\ JobSound(f, Outdated(work[f]), link', quote', n)
  BY <1>2, <1>8, <1>9, OutdatedJob DEF n
<1>11. work'[e] = Idle /\ \A f \in Events \ {e} : work'[f] = Outdated(work[f])
  BY <1>1
<1>12. Outdated(mark) \in MarkState /\ MarkSound(Outdated(mark), link', quote', n)
  <2>1. Newest <= n
    BY <1>2 DEF n
  <2>2. \A p \in Quotes : quote[p] \in {"converted", "settled"} => quote'[p] = quote[p]
    BY <1>3, <1>4
  <2> QED BY <1>2, <2>1, <2>2, OutdatedMark
<1>13. LeadTyped'
  <2>1. work' \in [Events -> WorkState]
    BY <1>1, <1>10, Idles
  <2> QED BY <1>1, <1>4, <1>7, <1>12, <2>1 DEF LeadTyped
<1>14. QuotesInOrder' /\ link'.quote <= Newest'
  BY <1>2, <1>5, <1>6, <1>7 DEF QuotesInOrder
<1>15. \A f \in Events : work'[f].pc # "idle" => Running(f)'
  BY <1>1, <1>10, <1>11, Idles, FinishRuns
<1>16. ~HasRead(Idle) /\ ~(Idle.kept.quote > n) /\ Idle.kept.quote <= n + 1
  BY <1>2, Idles DEF HasRead, NoQuote
<1>17. \A f \in Events : JobSound(f, work'[f], link', quote', Newest')
  <2>1. JobSound(e, Idle, link', quote', n)
    BY <1>16, Idles DEF JobSound
  <2> QED BY <1>6, <1>10, <1>11, <2>1
<1>18. \A f \in Events : ~(work'[f].kept.quote > n)
  <2> TAKE f \in Events
  <2>1. CASE f = e
    BY <1>11, <1>16, <2>1
  <2>2. CASE f # e
    <3>1. ~(work[f].kept.quote > Newest) /\ work[f].kept.quote \in Nat
      BY <1>9, <2>2, JobIsSound DEF Quoting
    <3> QED BY <1>2, <1>10, <1>11, <2>2, <3>1 DEF n
  <2> QED BY <2>1, <2>2
<1>19. \A f, g \in Events : Quoting(f)' /\ Quoting(g)' => f = g
  BY <1>6, <1>18 DEF Quoting
<1>20. MarkSound(mark', link', quote', Newest')
  BY <1>1, <1>6, <1>12
<1>21. ASSUME ~crossed'
       PROVE  /\ LinkSound(link', quote', Newest', noted')
              /\ \A f \in Events : MarkGone(work'[f], link', Newest')
  <2>1. ~crossed /\ ~work[e].stale
    BY <1>1, <1>21
  <2>2. link' = k /\ FreshJob(e, work[e], link, quote, Newest)
    BY <1>1, <2>1, FreshSave
  <2>3. /\ LinkSound(link, quote, Newest, noted) /\ MarkGone(work[e], link, Newest)
        /\ link \in LinkRow
    BY <2>1, JobIsSound
  <2>4. k.done = NoQuote
    BY <1>1, <2>1, <2>3 DEF MarkGone
  <2>5. k = LinkQuote(link, k.quote)
    BY <1>1, <2>2 DEF FreshJob
  <2>6. k.seen = link.seen
    BY <1>2, <2>3, <2>5, LinkQuoteRow
  <2>7. LinkSound(link', quote', n, noted')
    BY <1>1, <1>2, <2>2, <2>3, <2>4, <2>6 DEF LinkSound
  <2>8. \A f \in Events \ {e} : MarkGone(Outdated(work[f]), link', n)
    BY <1>10, <2>1, <2>2, <2>4 DEF MarkGone
  <2>9. MarkGone(Idle, link', n)
    BY <2>2, <2>4, Idles DEF MarkGone
  <2> QED BY <1>6, <1>11, <2>7, <2>8, <2>9
<1> QED BY <1>13, <1>14, <1>15, <1>17, <1>19, <1>20, <1>21

\* The save of a mark.
LEMMA SaveMarkKeepsLead ==
  ASSUME LeadInv, SaveMark
  PROVE  LeadInv'
<1> USE DEF LeadInv
<1>1. /\ mark.pc = "writing" /\ link' = Written(mark.row, mark.kept)
      /\ crossed' = (crossed \/ mark.stale \/ link.quote # mark.viewed \/ \E e \in Events : Running(e))
      /\ work' = [e \in Events |-> Outdated(work[e])]
      /\ mark' = NoMark /\ UNCHANGED <<job, quote, noted>>
  BY DEF SaveMark, reception
<1>2. Created' = Created /\ Newest' = Newest
  BY <1>1 DEF Created, Newest
<1>3. link' \in LinkRow /\ link'.quote <= Newest
  BY <1>1, FreshMark, MarkIsSound DEF MarkSound
<1>4. \A f \in Events : /\ Outdated(work[f]) \in WorkState
                        /\ Outdated(work[f]).pc = work[f].pc
                        /\ Outdated(work[f]).kept = work[f].kept
                        /\ ~Outdated(work[f]).stale => ~work[f].stale
                        /\ JobSound(f, Outdated(work[f]), link', quote, Newest)
  BY OutdatedJob, MarkIsSound
<1>5. \A f \in Events : work'[f] = Outdated(work[f])
  BY <1>1
<1>6. LeadTyped'
  BY <1>1, <1>3, <1>4, NoMarkIsSound DEF LeadTyped
<1>7. QuotesInOrder' /\ link'.quote <= Newest'
  BY <1>2, <1>3 DEF QuotesInOrder
<1>8. /\ \A f \in Events : work'[f].pc # "idle" => Running(f)'
      /\ \A f \in Events : JobSound(f, work'[f], link', quote', Newest')
      /\ \A f, g \in Events : Quoting(f)' /\ Quoting(g)' => f = g
  BY <1>1, <1>2, <1>4, <1>5, SameJobs DEF Quoting
<1>9. MarkSound(mark', link', quote', Newest')
  <2>1. MarkSound(NoMark, link', quote, Newest)
    <3>1. NoMark.pc = "idle" /\ NoMark.kept = NoLink
      BY DEF NoMark
    <3>2. NoMark.kept.quote <= Newest
      BY <3>1, Idles, MarkIsSound DEF NoQuote
    <3> QED BY <3>1, <3>2 DEF MarkSound, HasRead
  <2> QED BY <1>1, <1>2, <2>1
<1>10. ASSUME ~crossed'
       PROVE  /\ LinkSound(link', quote', Newest', noted')
              /\ \A f \in Events : MarkGone(work'[f], link', Newest')
  <2> DEFINE q == mark.viewed
  <2>1. ~crossed /\ ~mark.stale /\ link.quote = q /\ \A f \in Events : ~Running(f)
    BY <1>1, <1>10
  <2>2. link' = WithMark(link, q)
    BY <1>1, <2>1, FreshMark
  <2>3. /\ LinkSound(link, quote, Newest, noted) /\ link \in LinkRow
        /\ q \in Quotes \cup {NoQuote} /\ quote[q] \in {"converted", "settled"}
    BY <1>1, <2>1, MarkIsSound DEF MarkSound
  <2>4. /\ link'.quote = link.quote /\ link'.seen = link.seen
        /\ link'.done = IF link.done = NoQuote THEN q ELSE link.done
    BY <2>2, <2>3, WithMarkRow
  <2>5. LinkSound(link', quote, Newest, noted)
    BY <2>1, <2>3, <2>4 DEF LinkSound
  <2>6. \A f \in Events : MarkGone(work'[f], link', Newest)
    <3> TAKE f \in Events
    <3>1. work[f].pc = "idle"
      BY <2>1
    <3>2. work[f].kept = NoLink
      BY <3>1, JobIsSound DEF JobSound, HasRead
    <3>3. ~(NoLink.quote > Newest)
      BY Idles, MarkIsSound DEF NoQuote
    <3> QED BY <1>4, <1>5, <3>1, <3>2, <3>3 DEF MarkGone
  <2> QED BY <1>1, <1>2, <2>5, <2>6
<1> QED BY <1>6, <1>7, <1>8, <1>9, <1>10

-----------------------------------------------------------------------------
(* The link in the whole system.                                           *)

\* The webhook queues jobs, and leaves alone those that run.
LEMMA WebhookKeepsLead ==
  ASSUME LeadInv, NEW r \in Requests, Webhook(r), UNCHANGED lead
  PROVE  LeadInv'
<1> USE DEF LeadInv
<1>1. \A e, f \in Events : Running(f) /\ job' = Queued(e) => Running(f)'
  BY DEF Queued, Running
<1>2. \A f \in Events : Running(f) => Running(f)'
  <2>1. CASE job' = job
    BY <2>1, SameJobs
  <2>2. CASE job' = Queued(request[r].of)
    BY <2>2 DEF Queued, Running
  <2> QED BY <2>1, <2>2 DEF Webhook, Receive, ReceiveFails, Enqueue, EnqueueFails, ReleaseKey,
                            ReleaseFails, LoseRequest
<1>3. UNCHANGED <<link, quote, work, mark, noted, crossed>>
  BY DEF lead
<1>4. Created' = Created /\ Newest' = Newest
  BY <1>3 DEF Created, Newest
<1>5. LeadTyped' /\ QuotesInOrder'
  BY <1>3, <1>4 DEF LeadTyped, QuotesInOrder
<1>6. \A e \in Events : Quoting(e)' <=> Quoting(e)
  BY <1>3, <1>4 DEF Quoting
<1> QED BY <1>2, <1>3, <1>4, <1>5, <1>6

\* Every step of a job.
LEMMA JobKeepsLead ==
  ASSUME LeadInv, job \in [Events -> JobState], NEW e \in Events, JobOf(e)
  PROVE  LeadInv'
BY StartJobKeepsLead, ReadLinkKeepsLead, LookUpKeepsLead, LookUpFailsKeepsLead,
   FindRowKeepsLead, SaveNoteKeepsLead, NoteFailsKeepsLead, QuoteClientKeepsLead,
   SaveQuoteKeepsLead, JobEndsKeepsLead DEF JobOf

\* Every step of the system, and a stutter.
LEMMA NextKeepsLead ==
  ASSUME LeadInv, job \in [Events -> JobState], [Next]_vars
  PROVE  LeadInv'
<1>1. CASE \E r \in Requests : Webhook(r) /\ UNCHANGED lead
  BY <1>1, WebhookKeepsLead
<1>2. CASE \E e \in Events : JobOf(e)
  BY <1>2, JobKeepsLead
<1>3. CASE LoseWorker
  BY <1>3, LoseWorkerKeepsLead
<1>4. CASE MarkEventDone
  BY <1>4, MarkEventDoneKeepsLead, SaveMarkKeepsLead DEF MarkEventDone
<1>5. CASE \E q \in Quotes : Convert(q) \/ Close(q) \/ Settle(q)
  BY <1>5, QuoteChangesKeepLead
<1>6. CASE UNCHANGED vars
  <2>1. UNCHANGED <<job, link, quote, work, mark, noted, crossed>>
    BY <1>6 DEF vars, lead, reception
  <2>2. MarkSound(mark, link, quote, Newest) /\ mark \in MarkState
    BY MarkIsSound
  <2> QED BY <2>1, <2>2, MarkMovesKeepInv
<1> QED BY <1>1, <1>2, <1>3, <1>4, <1>5, <1>6 DEF Next

\* The first quote is the one that is linked.
LEMMA InitLead == ASSUME Init PROVE LeadInv
<1> USE DEF LeadInv
<1>1. 1 \in Quotes /\ Created = 1 .. 1
  BY LeadConstants DEF Init, Quotes, Created
<1>2. Newest = 1
  BY <1>1, NewestIs
<1>3. QuotesInOrder
  BY <1>1, <1>2 DEF QuotesInOrder
<1>4. /\ link \in LinkRow /\ link.quote = 1 /\ link.done = NoQuote /\ link.seen = Never
      /\ noted = Never
  BY <1>1 DEF Init, LinkRow
<1>5. \A e \in Events : work[e] = Idle
  BY DEF Init
<1>6. NoMark \in MarkState /\ NoMark.pc = "idle" /\ NoMark.kept = NoLink
  BY Idles DEF NoMark, MarkState
<1>7. LeadTyped
  BY <1>4, <1>6, Idles DEF Init, LeadTyped, QuoteStatus, Quotes
<1>8. /\ ~HasRead(Idle) /\ Idle.kept.quote <= 2 /\ ~(Idle.kept.quote > 1)
      /\ ~HasRead(NoMark) /\ NoMark.kept.quote <= 1
  BY <1>6, Idles DEF HasRead, NoQuote
<1>9. \A e \in Events : JobSound(e, Idle, link, quote, 1) /\ MarkGone(Idle, link, 1)
  BY <1>8, Idles DEF JobSound, MarkGone
<1>10. MarkSound(mark, link, quote, 1)
  BY <1>6, <1>8 DEF Init, MarkSound
<1>11. LinkSound(link, quote, 1, noted)
  BY <1>4 DEF LinkSound
<1>12. \A e \in Events : work[e].pc = "idle" /\ ~Quoting(e)
  BY <1>2, <1>5, <1>8, Idles DEF Quoting
<1> QED BY <1>2, <1>3, <1>4, <1>5, <1>7, <1>9, <1>10, <1>11, <1>12

\* No more faults than there may be.
FaultsBounded == faults \in 0 .. MaxFaults

\* A step has at most one fault more.
LEMMA NextKeepsFaults == ASSUME FaultsBounded, [Next]_vars PROVE FaultsBounded'
<1>1. UNCHANGED faults \/ Fault
  BY DEF Next, JobOf, MarkEventDone, Webhook, Receive, ReceiveFails, Enqueue, EnqueueFails,
         ReleaseKey, ReleaseFails, LoseRequest, StartJob, ReadLink, LookUp, LookUpFails, FindRow,
         SaveNote, NoteFails, QuoteClient, SaveQuote, AnswerOnly, CancelJob, LoseWorker,
         ViewConversation, ReadLinkAgain, FindMarkRow, SaveMark, MarkFails, Convert, Close,
         Settle, Becomes, vars
<1> QED BY <1>1, ReceptionConstants DEF FaultsBounded, Fault

\* The inductive invariant of the whole system.
Inv == ReceptionInv /\ LeadInv /\ FaultsBounded

\* The three invariants hold at first,
LEMMA InitInv == ASSUME Init PROVE Inv
<1>1. ReceptionInv
  BY InitReception
<1>2. FaultsBounded
  BY ReceptionConstants DEF Init, ReceptionInit, FaultsBounded
<1> QED BY <1>1, <1>2, InitLead DEF Inv

\* and every step keeps them.
LEMMA StepKeepsInv == ASSUME Inv, [Next]_vars PROVE Inv'
BY NextKeepsInv, NextKeepsLead, NextKeepsFaults DEF Inv, ReceptionInv, ReceptionTyped

\* Every variable has its type, and a job that has read the link is running: no
\* job is left at work after its end, its cancelling or the loss of the worker.
THEOREM TypeCorrect == Spec => []TypeOK
<1>1. Inv => TypeOK
  BY DEF Inv, LeadInv, LeadTyped, ReceptionInv, ReceptionTyped, FaultsBounded, TypeOK,
         ReceptionTypeOK
<1> QED BY <1>1, InitInv, StepKeepsInv, PTL DEF Spec

\* However the jobs, the bot's quotes, a mark of the staff and the changes of
\* quotes elsewhere overlap, the link (ProcessGatewayEvent._record_incoming,
\* link_created_quote, MarkEventDone.execute) is wrong only after a save of a
\* link that another one had changed.
THEOREM LinkStaysRight == Spec => []LinkIsRight
<1>1. Inv => LinkIsRight
  BY DEF Inv, LeadInv, LinkSound, LinkIsRight
<1> QED BY <1>1, InitInv, StepKeepsInv, PTL DEF Spec

\* Steps that change the link's quote, one by one.
LEMMA NextMovesLink == ASSUME Inv, [Next]_vars PROVE LinkMoves
<1> SUFFICES ASSUME link'.quote # link.quote PROVE LinkMoves
  BY DEF LinkMoves
<1>1. LeadInv
  BY DEF Inv
<1>2. ASSUME NEW e \in Events, SaveNote(e) PROVE LinkMoves
  <2>1. /\ work[e].pc = "writing" /\ link' = Written(work[e].row, work[e].kept)
        /\ ~(work[e].kept.quote > Newest)
    BY <1>2 DEF SaveNote, Write, Quoting
  <2>2. CASE work[e].stale
    BY <2>1, <2>2 DEF LinkMoves
  <2>3. CASE ~work[e].stale
    <3> DEFINE l == WithMessage(link, e)
    <3>1. link' = work[e].kept /\ FreshJob(e, work[e], link, quote, Newest)
      BY <1>1, <2>1, <2>3, FreshSave
    <3>2. l \in LinkRow /\ l.quote = link.quote
      BY <1>1, JobIsSound, WithMessageRow
    <3>3. link' = l \/ (link' = Restarted(l) /\ CycleDone(link, quote))
      BY <2>1, <3>1 DEF FreshJob
    <3>4. link'.quote = NoQuote /\ CycleDone(link, quote)
      BY <3>2, <3>3, RestartedRow
    <3>5. crossed \/ link.done \in {NoQuote, link.quote}
      BY <1>1 DEF LeadInv, LinkSound
    <3> QED BY <3>4, <3>5 DEF LinkMoves, CycleDone
  <2> QED BY <2>2, <2>3
<1>3. ASSUME NEW e \in Events, SaveQuote(e) PROVE LinkMoves
  <2>1. /\ work[e].pc = "writing" /\ link' = Written(work[e].row, work[e].kept)
    BY <1>3 DEF SaveQuote, Write
  <2>2. CASE work[e].stale
    BY <2>1, <2>2 DEF LinkMoves
  <2>3. CASE ~work[e].stale
    <3>1. link' = work[e].kept
      BY <1>1, <2>1, <2>3, FreshSave
    <3>2. work[e].kept.quote = Newest + 1 /\ Newest' = Newest + 1 /\ Newest \in Nat
      BY <1>1, <1>3, SaveQuoteCreates
    <3>3. link'.quote = Newest' /\ link'.quote # Newest
      BY <3>1, <3>2
    <3> QED BY <3>3 DEF LinkMoves
  <2> QED BY <2>2, <2>3
<1>4. CASE SaveMark
  <2>1. mark.pc = "writing" /\ link' = Written(mark.row, mark.kept)
    BY <1>4 DEF SaveMark
  <2>2. CASE mark.stale
    BY <2>1, <2>2 DEF LinkMoves
  <2>3. CASE ~mark.stale
    <3>1. link' = WithMark(link, mark.viewed)
      BY <1>1, <2>1, <2>3, FreshMark
    <3>2. link'.quote = link.quote
      BY <1>1, <3>1, MarkIsSound, WithMarkRow
    <3> QED BY <3>2
  <2> QED BY <2>2, <2>3
<1>5. \/ \E e \in Events : SaveNote(e) \/ SaveQuote(e)
      \/ SaveMark
  <2>1. link' # link
    OBVIOUS
  <2> QED BY <2>1 DEF Next, JobOf, MarkEventDone, lead, StartJob, ReadLink, LookUp, LookUpFails,
             FindRow, NoteFails, QuoteClient, AnswerOnly, CancelJob, LoseWorker,
             ViewConversation, ReadLinkAgain, FindMarkRow, MarkFails, Convert, Close, Settle,
             Becomes, vars
<1> QED BY <1>2, <1>3, <1>4, <1>5

\* The link takes a quote only as the newest, and lets one go only when its show
\* is over or was marked so (ConversationLink.link_quote, restart_lead_cycle), but for
\* a save of a link that another one had changed.
THEOREM LinkFollowsTheQuotes == Spec => LinkFollowsQuotes
<1>1. Inv /\ [Next]_vars => [LinkMoves]_vars
  BY NextMovesLink
<1> QED BY <1>1, InitInv, StepKeepsInv, PTL DEF Spec, LinkFollowsQuotes
=============================================================================

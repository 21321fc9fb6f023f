-------------------------------- MODULE Lead --------------------------------
(***************************************************************************)
(* The commercial cycle of a conversation, which never closes: the link    *)
(* keeps the newest quote, whether its show was marked as done, and when   *)
(* the client last wrote.  The cycle starts again when a client writes     *)
(* whose show is done.  Jobs of the worker, the bot and the staff read the *)
(* link and save all of it later, without a lock; quotes and shows change  *)
(* in other modules (QuotePayments, Occupancy) while they do.              *)
(*                                                                         *)
(* Who has the conversation is in Inbox; what the bot says, in Bot.        *)
(***************************************************************************)
EXTENDS Reception

CONSTANT MaxQuotes   \* bound: quotes of the conversation

ASSUME LeadConstants == MaxQuotes \in Nat \ {0}

VARIABLES
    link,      \* the row of conversation_links
    quote,     \* status of each quote, in the order they were created
    work,      \* event -> what its job has read and is about to save
    mark,      \* the command of the staff that marks the show as done
    noted,     \* history: the newest message that was noted
    crossed    \* history: a stale link was saved, or a show marked beside a
               \* job, or a failure kept a done cycle from restarting

lead == <<link, quote, work, mark, noted, crossed>>
vars == <<reception, faults, lead>>

-----------------------------------------------------------------------------

NoQuote == 0
Never == 0

Quotes == 1 .. MaxQuotes

\* done stands for event_done_at: the quote whose show the staff meant.
LinkRow == [quote : Quotes \cup {NoQuote}, done : Quotes \cup {NoQuote}, seen : Events \cup {Never}]

NoLink == [quote |-> NoQuote, done |-> NoQuote, seen |-> Never]

\* sent: also while its payment has started; settled: converted, with its
\* event settled.
QuoteStatus == {"none", "sent", "converted", "settled", "closed"}

\* kept: the link in memory; row: the row as the save found it; stale
\* (history): another save has changed the row since the link was read.
Idle == [pc |-> "idle", kept |-> NoLink, row |-> NoLink, stale |-> FALSE]

WorkState ==
    [pc : {"idle", "reading", "looking", "saving", "writing", "answering"},
     kept : LinkRow, row : LinkRow, stale : BOOLEAN]

NoMark == [pc |-> "idle", kept |-> NoLink, row |-> NoLink, stale |-> FALSE, viewed |-> NoQuote]

MarkState ==
    [pc : {"idle", "viewed", "saving", "writing"},
     kept : LinkRow, row : LinkRow, stale : BOOLEAN, viewed : Quotes \cup {NoQuote}]

TypeOK ==
    /\ ReceptionTypeOK
    /\ link \in LinkRow
    /\ quote \in [Quotes -> QuoteStatus]
    /\ work \in [Events -> WorkState]
    /\ \A e \in Events : work[e].pc # "idle" => Running(e)
    /\ mark \in MarkState
    /\ noted \in Events \cup {Never}
    /\ crossed \in BOOLEAN

Created == {q \in Quotes : quote[q] # "none"}

Newest == IF Created = {} THEN NoQuote ELSE CHOOSE q \in Created : \A p \in Created : p <= q

\* A save reads the row again, since no one has held on to it, and updates every
\* column in which it differs from the link in memory.
Written(row, kept) == [c \in DOMAIN kept |-> IF kept[c] = row[c] THEN link[c] ELSE kept[c]]

Write(s) ==
    /\ link' = Written(s.row, s.kept)
    /\ crossed' = (crossed \/ s.stale)

HasRead(s) == s.pc \in {"looking", "saving", "writing"}

Outdated(s) == IF HasRead(s) /\ link' # link THEN [s EXCEPT !.stale = TRUE] ELSE s

\* A mark counts only with a quote that was converted.
LeadStatus_AnyMark(l) ==
    IF l.quote = NoQuote THEN "QUOTING"
    ELSE IF l.done # NoQuote \/ quote[l.quote] = "settled" THEN "EVENT_DONE"
    ELSE IF quote[l.quote] = "converted" THEN "CONVERTED" ELSE "QUOTE_SENT"

LeadStatus(l) ==
    IF l.quote = NoQuote THEN "QUOTING"
    ELSE CASE quote[l.quote] = "converted" -> IF l.done # NoQuote THEN "EVENT_DONE" ELSE "CONVERTED"
           [] quote[l.quote] = "settled" -> "EVENT_DONE"
           [] quote[l.quote] = "closed" -> "QUOTE_CLOSED"
           [] OTHER -> "QUOTE_SENT"

Do(e, pc) == work' = [work EXCEPT ![e].pc = pc]

\* What follows once the message was noted, or could not be: the bot answers
\* a conversation that is left to it, and the job of any other ends.
Noted(e) ==
    \/ work' = [f \in Events |-> IF f = e THEN [Idle EXCEPT !.pc = "answering"] ELSE Outdated(work[f])]
       /\ UNCHANGED job
    \/ work' = [f \in Events |-> IF f = e THEN Idle ELSE Outdated(work[f])]
       /\ Finish(e)

-----------------------------------------------------------------------------
(* The job of a message of the client.                                     *)

StartJob(e) ==
    /\ Start(e)
    /\ Do(e, "reading")
    /\ UNCHANGED <<request, keys, faults, link, quote, mark, noted, crossed>>

\* A message that comes late does not turn the clock back.
WithMessage(l, e) == IF e > l.seen THEN [l EXCEPT !.seen = e] ELSE l

ReadLink(e) ==
    /\ work[e].pc = "reading"
    /\ work' = [work EXCEPT ![e].kept = WithMessage(link, e),
                            ![e].pc = IF link.quote = NoQuote THEN "saving" ELSE "looking"]
    /\ UNCHANGED <<reception, faults, link, quote, mark, noted, crossed>>

Restarted_KeepsMark(l) == [l EXCEPT !.quote = NoQuote]

Restarted(l) == [l EXCEPT !.quote = NoQuote, !.done = NoQuote]

\* The quote and its event are looked up on another connection.
LookUp(e) ==
    LET kept == work[e].kept
    IN  /\ work[e].pc = "looking"
        /\ work' = [work EXCEPT ![e].pc = "saving",
                ![e].kept = IF LeadStatus(kept) = "EVENT_DONE" THEN Restarted(kept) ELSE kept]
        /\ UNCHANGED <<reception, faults, link, quote, mark, noted, crossed>>

LookUpFails(e) ==
    /\ work[e].pc = "looking" /\ Fault
    /\ Do(e, "saving")
    /\ crossed' = (crossed \/ LeadStatus(work[e].kept) = "EVENT_DONE")
    /\ UNCHANGED <<reception, link, quote, mark, noted>>

FindRow(e) ==
    /\ work[e].pc = "saving"
    /\ work' = [work EXCEPT ![e].pc = "writing", ![e].row = link]
    /\ UNCHANGED <<reception, faults, link, quote, mark, noted, crossed>>

\* A job whose link has a quote that no one else can see yet.
Quoting(e) == work[e].kept.quote > Newest

SaveNote(e) ==
    /\ work[e].pc = "writing" /\ ~Quoting(e)
    /\ Write(work[e])
    /\ noted' = IF e > noted THEN e ELSE noted
    /\ mark' = Outdated(mark)
    /\ Noted(e)
    /\ UNCHANGED <<request, keys, faults, quote>>

\* A failure of the inbox is logged, and the bot answers all the same.
NoteFails(e) ==
    /\ work[e].pc = "reading" \/ (HasRead(work[e]) /\ ~Quoting(e))
    /\ Fault
    /\ link' = link
    /\ crossed' = (crossed \/ link.done # NoQuote)
    /\ Noted(e)
    /\ UNCHANGED <<request, keys, quote, mark, noted>>

\* The newest quote wins.
LinkQuote_First(l, q) == IF l.quote = NoQuote THEN [l EXCEPT !.quote = q] ELSE l

LinkQuote(l, q) == [l EXCEPT !.quote = q]

\* The bot creates a quote in its turn, of which there is one at a time (module
\* Inbox), and links it in the same transaction.
QuoteClient(e) ==
    /\ work[e].pc = "answering"
    /\ Newest < MaxQuotes
    /\ \A f \in Events : ~Quoting(f)
    /\ work' = [work EXCEPT ![e].pc = "saving", ![e].kept = LinkQuote(link, Newest + 1)]
    /\ UNCHANGED <<reception, faults, link, quote, mark, noted, crossed>>

SaveQuote(e) ==
    /\ work[e].pc = "writing" /\ Quoting(e)
    /\ Write(work[e])
    /\ quote' = [quote EXCEPT ![work[e].kept.quote] = "sent"]
    /\ mark' = Outdated(mark)
    /\ work' = [f \in Events |-> IF f = e THEN Idle ELSE Outdated(work[f])]
    /\ Finish(e)
    /\ UNCHANGED <<request, keys, faults, noted>>

AnswerOnly(e) ==
    /\ work[e].pc = "answering"
    /\ work' = [work EXCEPT ![e] = Idle]
    /\ Finish(e)
    /\ UNCHANGED <<request, keys, faults, link, quote, mark, noted, crossed>>

\* arq cancels a job that lasts too long, and does not run it again.
CancelJob(e) ==
    /\ Running(e) /\ Fault
    /\ work' = [work EXCEPT ![e] = Idle]
    /\ Finish(e)
    /\ UNCHANGED <<request, keys, link, quote, mark, noted, crossed>>

LoseWorker ==
    /\ \E e \in Events : Running(e)
    /\ Fault
    /\ RunAgain
    /\ work' = [e \in Events |-> Idle]
    /\ UNCHANGED <<request, keys, link, quote, mark, noted, crossed>>

-----------------------------------------------------------------------------
(* The staff marks the show as done.                                       *)

\* Only what the view shows as converted; a show already done is left alone.
ViewConversation ==
    /\ mark.pc = "idle"
    /\ LeadStatus(link) = "CONVERTED"
    /\ mark' = [NoMark EXCEPT !.pc = "viewed", !.viewed = link.quote]
    /\ UNCHANGED <<reception, faults, link, quote, work, noted, crossed>>

WithMark(l, q) == IF l.done = NoQuote THEN [l EXCEPT !.done = q] ELSE l

\* The link is read again, and its quote is not compared with the view.
ReadLinkAgain ==
    /\ mark.pc = "viewed"
    /\ mark' = [mark EXCEPT !.pc = "saving", !.kept = WithMark(link, mark.viewed)]
    /\ UNCHANGED <<reception, faults, link, quote, work, noted, crossed>>

FindMarkRow ==
    /\ mark.pc = "saving"
    /\ mark' = [mark EXCEPT !.pc = "writing", !.row = link]
    /\ UNCHANGED <<reception, faults, link, quote, work, noted, crossed>>

SaveMark ==
    /\ mark.pc = "writing"
    /\ link' = Written(mark.row, mark.kept)
    /\ crossed' = (crossed \/ mark.stale \/ link.quote # mark.viewed \/ \E e \in Events : Running(e))
    /\ work' = [e \in Events |-> Outdated(work[e])]
    /\ mark' = NoMark
    /\ UNCHANGED <<reception, faults, quote, noted>>

MarkFails ==
    /\ mark.pc # "idle" /\ Fault
    /\ mark' = NoMark
    /\ UNCHANGED <<reception, link, quote, work, noted, crossed>>

-----------------------------------------------------------------------------
(* What happens to a quote and its show elsewhere.                         *)

Becomes(q, before, after) ==
    /\ quote[q] = before
    /\ quote' = [quote EXCEPT ![q] = after]
    /\ UNCHANGED <<reception, faults, link, work, mark, noted, crossed>>

Convert(q) == Becomes(q, "sent", "converted")
Close(q) == Becomes(q, "sent", "closed")
Settle(q) == Becomes(q, "converted", "settled")

-----------------------------------------------------------------------------

\* The bot has quoted once.
Init ==
    /\ ReceptionInit
    /\ link = [quote |-> 1, done |-> NoQuote, seen |-> Never]
    /\ quote = [q \in Quotes |-> IF q = 1 THEN "sent" ELSE "none"]
    /\ work = [e \in Events |-> Idle]
    /\ mark = NoMark
    /\ noted = Never
    /\ crossed = FALSE

JobOf(e) ==
    \/ StartJob(e) \/ ReadLink(e) \/ LookUp(e) \/ LookUpFails(e) \/ FindRow(e) \/ SaveNote(e)
    \/ NoteFails(e) \/ QuoteClient(e) \/ SaveQuote(e) \/ AnswerOnly(e) \/ CancelJob(e)

MarkEventDone == ViewConversation \/ ReadLinkAgain \/ FindMarkRow \/ SaveMark \/ MarkFails

Next ==
    \/ \E r \in Requests : Webhook(r) /\ UNCHANGED lead
    \/ \E e \in Events : JobOf(e)
    \/ LoseWorker
    \/ MarkEventDone
    \/ \E q \in Quotes : Convert(q) \/ Close(q) \/ Settle(q)

Spec == Init /\ [][Next]_vars

-----------------------------------------------------------------------------
(* Properties.                                                             *)

\* The link takes a quote only when the bot creates it, and lets one go only when
\* its show is over or was marked so; a save brings an old quote back, or drops a
\* newer one, only if the row was changed since that save read it.
LinkMoves ==
    link'.quote # link.quote =>
        \/ link'.quote = Newest' /\ link'.quote # Newest
        \/ /\ link'.quote = NoQuote
           /\ \/ quote[link.quote] = "settled"
              \/ quote[link.quote] = "converted" /\ (link.done = link.quote \/ crossed)
        \/ mark.pc = "writing" /\ mark.stale
        \/ \E e \in Events : work[e].pc = "writing" /\ work[e].stale

LinkFollowsQuotes == [][LinkMoves]_vars

\* Whatever is under way, the link is right unless a save was stale or a failure
\* kept a done cycle from restarting: it has the newest message, the newest quote
\* or none, and a mark of the quote that it has.
LinkIsRight ==
    ~crossed =>
        /\ link.seen = noted
        /\ link.quote \in {NoQuote, Newest}
        /\ link.done \in {NoQuote, link.quote}
=============================================================================

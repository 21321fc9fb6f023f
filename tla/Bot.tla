-------------------------------- MODULE Bot --------------------------------
(***************************************************************************)
(* The conversation of one client with the bot.  Two engines answer: an    *)
(* agent, a language model that calls tools, and menus, which ask one      *)
(* question after another.  A message is answered in a turn; what a turn   *)
(* does to the database (a quote, a payment, the reply) is committed       *)
(* before its session is saved in Redis, and either may be the last thing  *)
(* that happens.                                                           *)
(*                                                                         *)
(* Turns come one at a time, which is what the lock of module Inbox is     *)
(* for.  The words of client and model are left out: what a message says   *)
(* is told apart by the question that the client had before his eyes.      *)
(***************************************************************************)
EXTENDS Integers

CONSTANTS
    Messages,    \* messages of the client under way at the same time
    None,
    MaxMisses,   \* answers in a row that are not understood
    MaxReplies,  \* replies of the model in a turn
    MaxQuotes,   \* bound: quotes of the conversation
    MaxUpsets    \* bound: turns cut short and messages written ahead

ASSUME BotConstants ==
    /\ None \notin Messages
    /\ MaxMisses \in Nat \ {0} /\ MaxReplies \in Nat \ {0}
    /\ MaxQuotes \in Nat /\ MaxUpsets \in Nat

VARIABLES
    session,   \* the session in Redis
    last,      \* last_message_id of that session, while its job is not done
    quote,     \* the status of the quotes of the conversation, by age
    message,   \* the jobs that wait for a turn
    turn,      \* the turn under way
    mode,      \* "bot" or "human": the conversation in Chatwoot
    shown,     \* what the last reply asked
    upsets,    \* turns cut short and messages written ahead so far
    ahead,     \* history: a message was written before the last was answered
    lost       \* history: a turn did or said something and its session was not saved

vars == <<session, last, quote, message, turn, mode, shown, upsets, ahead, lost>>

-----------------------------------------------------------------------------

Questions == {"CATEGORY", "PACKAGE", "THEME", "EXTRAS", "DATE", "TIME", "DISTRICT",
              "ADDRESS", "NAME", "MOBILITY", "OBSERVATIONS"}

BotStep == Questions \cup {"CONFIRM", "ALTERNATIVES", "PAID"}

Nothing == "NOTHING"    \* nothing asked, or free text of the agent

Quotes == 1 .. MaxQuotes

Session == [engine : {"none", "menu", "agent"}, step : BotStep, answered : SUBSET Questions,
            stray : BOOLEAN,    \* history: an answer is stored for another question
            quote : Quotes \cup {0}, misses : 0 .. MaxMisses - 1, started : BOOLEAN]

NoSession == [engine |-> "none", step |-> "CATEGORY", answered |-> {},
              stray |-> FALSE, quote |-> 0, misses |-> 0, started |-> FALSE]

BotSession == [NoSession EXCEPT !.engine = "menu"]

AgentSession == [NoSession EXCEPT !.engine = "agent"]

\* A quote is over when it cannot be paid any more: past its deadline, swept or
\* not, converted or cancelled.
QuoteStatus == {"ABSENT", "SENT", "PAYMENT_STARTED", "OVER"}

Existing == {q \in Quotes : quote[q] # "ABSENT"}

\* link_created_quote: the conversation is linked to its newest quote.
Newest(q) == q \in Existing /\ \A p \in Existing : p <= q

Message == [kind : {"none", "text", "person", "restart"}, about : BotStep \cup {Nothing}]

NoMessage == [kind |-> "none", about |-> Nothing]

Turn == [pc : {"none", "agent", "saving", "handing", "ended"}, of : Messages \cup {None},
         session : Session, replies : 0 .. MaxReplies,
         changed : BOOLEAN,   \* changed_state of run_turn
         made : BOOLEAN]      \* history: it made a quote or started a payment

NoTurn == [pc |-> "none", of |-> None, session |-> NoSession, replies |-> 0,
           changed |-> FALSE, made |-> FALSE]

-----------------------------------------------------------------------------
(* What a step of a turn commits.                                          *)

Waits(m) == turn.pc = "none" /\ message[m].kind # "none" /\ last # m

\* The reply, with what was done for it, is committed; the session is not yet.
Reply(m, s, asked, made) ==
    /\ turn' = [NoTurn EXCEPT !.pc = "saving", !.of = m, !.session = s, !.made = made]
    /\ shown' = asked
    /\ UNCHANGED <<session, last, message, mode, upsets, ahead, lost>>

\* The client is told that a person will answer.
HandOver(m, made) ==
    /\ turn' = [NoTurn EXCEPT !.pc = "handing", !.of = m, !.made = made]
    /\ shown' = Nothing
    /\ UNCHANGED <<session, last, message, mode, upsets, ahead, lost>>

AddQuote(q) ==
    /\ q \in Quotes \ Existing /\ \A p \in Quotes \ Existing : q <= p
    /\ quote' = [quote EXCEPT ![q] = "SENT"]

Payable(q) == q # 0 /\ quote[q] \in {"SENT", "PAYMENT_STARTED"}

StartPayment(q) == quote' = [quote EXCEPT ![q] = "PAYMENT_STARTED"]

-----------------------------------------------------------------------------
(* A turn of the menus.                                                    *)

InMenus(m, step) ==
    Waits(m) /\ message[m].kind = "text" /\ session.engine = "menu" /\ session.step = step

\* The greeting forgets the answers; without packages a person takes over.
Greet(m) == Reply(m, BotSession, "CATEGORY", FALSE) \/ HandOver(m, FALSE)

\* What the client wrote about one question may be read as the answer to another.
Answered(m, questions) ==
    [session EXCEPT !.answered = @ \cup questions, !.misses = 0,
                    !.stray = @ \/ message[m].about # session.step]

\* Themes are asked if the package has any, extras if there are any.
Follows ==
    [s \in Questions \ {"OBSERVATIONS"} |->
        CASE s = "CATEGORY" -> {"PACKAGE"}
          [] s = "PACKAGE"  -> {"THEME", "EXTRAS", "DATE"}
          [] s = "THEME"    -> {"EXTRAS", "DATE"}
          [] s = "EXTRAS"   -> {"DATE"}
          [] s = "DATE"     -> {"TIME"}
          [] s = "TIME"     -> {"DISTRICT"}
          [] s = "DISTRICT" -> {"ADDRESS"}
          [] s = "ADDRESS"  -> {"NAME"}
          [] s = "NAME"     -> {"MOBILITY"}
          [] s = "MOBILITY" -> {"OBSERVATIONS"}]

\* A date that is asked again finds the rest answered.
Complete(step, answered) ==
    \/ step \in {"OBSERVATIONS", "ALTERNATIVES"}
    \/ step = "TIME" /\ {"ADDRESS", "DISTRICT", "NAME"} \subseteq answered

Ask(m, step) ==
    /\ InMenus(m, step)
    /\ ~Complete(step, session.answered)
    /\ \E next \in Follows[step] :
          Reply(m, [Answered(m, {step}) EXCEPT !.step = next], next, FALSE)
    /\ UNCHANGED quote

\* A business error undoes the turn: its session is the one before the turn.
Undone == [session EXCEPT !.misses = 0]

Offered_KeepsStep == Undone
Offered == [Undone EXCEPT !.step = "ALTERNATIVES"]

Corrected == [Undone EXCEPT !.step = "DATE"]

Quoted_First(s, q) == [s EXCEPT !.quote = IF @ = 0 THEN q ELSE @, !.started = FALSE]
Quoted(s, q) == [s EXCEPT !.quote = q, !.started = FALSE]

CreateQuote(m, s) ==
    \/ \E q \in Quotes :
          /\ AddQuote(q)
          /\ Reply(m, [Quoted(s, q) EXCEPT !.step = "CONFIRM"], "CONFIRM", TRUE)
    \/ /\ \/ Reply(m, Offered, "ALTERNATIVES", FALSE)
          \/ Reply(m, Corrected, "DATE", FALSE)
          \/ HandOver(m, FALSE)
       /\ UNCHANGED quote

OnLastAnswer(m, step) ==
    /\ step \in {"TIME", "OBSERVATIONS"}
    /\ InMenus(m, step)
    /\ Complete(step, session.answered)
    /\ CreateQuote(m, Answered(m, {step}))

OnAlternatives(m) ==
    /\ InMenus(m, "ALTERNATIVES")
    /\ \/ CreateQuote(m, Answered(m, {"DATE", "TIME"}))
       \/ Reply(m, Corrected, "DATE", FALSE) /\ UNCHANGED quote
       \/ HandOver(m, FALSE) /\ UNCHANGED quote

\* The room is checked again only if the payment has not begun.
OnConfirm(m) ==
    /\ InMenus(m, "CONFIRM")
    /\ LET status == quote[session.quote] IN
       \/ /\ Payable(session.quote) /\ StartPayment(session.quote)
          /\ Reply(m, [Undone EXCEPT !.step = "PAID"], "PAID", TRUE)
       \/ /\ status = "SENT" /\ Reply(m, Offered, "ALTERNATIVES", FALSE)
          /\ UNCHANGED quote
       \/ /\ status = "OVER" /\ Reply(m, Undone, "CONFIRM", FALSE)
          /\ UNCHANGED quote
       \/ HandOver(m, FALSE) /\ UNCHANGED quote

OnPaid(m) ==
    /\ InMenus(m, "PAID")
    /\ Reply(m, Undone, "PAID", FALSE)
    /\ UNCHANGED quote

TooMany_Late(misses) == misses > MaxMisses
TooMany(misses) == misses >= MaxMisses

Misunderstand(m, step) ==
    /\ step # "PAID" /\ InMenus(m, step)
    /\ IF TooMany(session.misses + 1)
       THEN HandOver(m, FALSE)
       ELSE Reply(m, [session EXCEPT !.misses = @ + 1], step, FALSE)
    /\ UNCHANGED quote

-----------------------------------------------------------------------------
(* A turn of the agent.                                                    *)

\* The agent answers unless the conversation fell back to the menus, and again
\* once the client writes "menu".
StartAgent(m) ==
    /\ Waits(m) /\ message[m].kind # "person"
    /\ session.engine # "menu" \/ message[m].kind = "restart"
    /\ turn' = [NoTurn EXCEPT !.pc = "agent", !.of = m,
                   !.session = IF session.engine = "agent" THEN session ELSE AgentSession]
    /\ UNCHANGED <<session, last, quote, message, mode, shown, upsets, ahead, lost>>

Says ==
    /\ turn.pc = "agent"
    /\ turn' = [turn EXCEPT !.pc = "saving"]
    /\ shown' = Nothing
    /\ UNCHANGED <<session, last, quote, message, mode, upsets, ahead, lost>>

Changed_OfLast(outcome) == outcome
Changed(outcome) == turn.changed \/ outcome

\* A reply of the model may ask for more than one tool.
AfterTool(s, changed) ==
    /\ turn.pc = "agent" /\ turn.replies < MaxReplies
    /\ \E n \in {turn.replies, turn.replies + 1} :
          turn' = [turn EXCEPT !.session = s, !.replies = n, !.changed = Changed(changed),
                               !.made = @ \/ changed]
    /\ UNCHANGED <<session, last, message, mode, upsets, ahead, lost>>

CreateByAgent ==
    /\ \E q \in Quotes : /\ AddQuote(q)
                         /\ AfterTool(Quoted(turn.session, q), TRUE)
    /\ shown' = Nothing

PayByAgent ==
    /\ Payable(turn.session.quote) /\ ~turn.session.started
    /\ StartPayment(turn.session.quote)
    /\ AfterTool([turn.session EXCEPT !.started = TRUE], TRUE)
    /\ shown' = Nothing

\* The catalog, or a tool that was refused.
OtherTool == AfterTool(turn.session, FALSE) /\ UNCHANGED <<quote, shown>>

\* The model asks for a person, a tool breaks, or there are too many replies.
AgentHandsOver ==
    /\ turn.pc = "agent"
    /\ HandOver(turn.of, turn.made)
    /\ UNCHANGED quote

\* The menus begin only if the turn changed nothing.
ModelFails ==
    /\ turn.pc = "agent"
    /\ IF turn.changed THEN HandOver(turn.of, turn.made) ELSE Greet(turn.of)
    /\ UNCHANGED quote

-----------------------------------------------------------------------------
(* The beginning and the end of a turn.                                    *)

Upset == upsets < MaxUpsets /\ upsets' = upsets + 1

Busy == turn.pc # "none" \/ \E m \in Messages : message[m].kind # "none"

\* The bot gets what is written while Chatwoot leaves the conversation to it.
Write(m) ==
    /\ mode = "bot" /\ message[m].kind = "none" /\ turn.of # m
    /\ IF Busy THEN Upset /\ ahead' = TRUE ELSE UNCHANGED <<upsets, ahead>>
    /\ \E kind \in {"text", "person", "restart"} :
          message' = [message EXCEPT ![m] = [kind |-> kind, about |-> shown]]
    /\ UNCHANGED <<session, last, quote, turn, mode, shown, lost>>

AskForPerson(m) ==
    /\ Waits(m) /\ message[m].kind = "person"
    /\ HandOver(m, FALSE)
    /\ UNCHANGED quote

Done(m) ==
    /\ message' = [message EXCEPT ![m] = NoMessage]
    /\ last' = IF last = m THEN None ELSE last

\* A job that is repeated finds its message answered.
Repeated(m) ==
    /\ turn.pc = "none" /\ message[m].kind # "none" /\ last = m
    /\ Done(m)
    /\ UNCHANGED <<session, quote, turn, mode, shown, upsets, ahead, lost>>

Save ==
    /\ turn.pc = "saving"
    /\ session' = turn.session
    /\ last' = turn.of
    /\ turn' = [NoTurn EXCEPT !.pc = "ended", !.of = turn.of]
    /\ UNCHANGED <<quote, message, mode, shown, upsets, ahead, lost>>

EndTurn ==
    /\ turn.pc = "ended"
    /\ Done(turn.of)
    /\ turn' = NoTurn
    /\ UNCHANGED <<session, quote, mode, shown, upsets, ahead, lost>>

\* Without Chatwoot the conversation stays with the bot.
HandsOver ==
    /\ turn.pc = "handing"
    /\ session' = NoSession
    /\ \/ mode' = "human" /\ UNCHANGED upsets
       \/ Upset /\ UNCHANGED mode
    /\ Done(turn.of)
    /\ turn' = NoTurn
    /\ UNCHANGED <<quote, shown, ahead, lost>>

\* Redis does not answer, or the job takes too long: it is not repeated.
GiveUp ==
    /\ turn.pc # "none" /\ Upset
    /\ lost' = (lost \/ turn.pc \in {"saving", "handing"} \/ turn.made)
    /\ Done(turn.of)
    /\ turn' = NoTurn
    /\ UNCHANGED <<session, quote, mode, shown, ahead>>

\* The worker dies, and the job is repeated.  The menus do the same again; the
\* model may do something else.
LoseWorker ==
    /\ turn.pc # "none" /\ Upset
    /\ lost' = (\/ lost
                \/ turn.made /\ turn.session.engine # "menu"
                \/ turn.pc \in {"saving", "handing"} /\ message[turn.of].kind = "restart")
    /\ turn' = NoTurn
    /\ UNCHANGED <<session, last, quote, message, mode, shown, ahead>>

\* The life of the session ends, or an employee takes the conversation.
Forget ==
    /\ session.engine # "none"
    /\ session' = NoSession
    /\ last' = None
    /\ mode' \in {mode, "human"}
    /\ UNCHANGED <<quote, message, turn, shown, upsets, ahead, lost>>

GiveBack ==
    /\ mode = "human" /\ mode' = "bot"
    /\ UNCHANGED <<session, last, quote, message, turn, shown, upsets, ahead, lost>>

\* What the rest of the system does to quotes (module QuotePayments).
ChangeQuote(q) ==
    /\ Payable(q)
    /\ quote' = [quote EXCEPT ![q] = "OVER"]
    /\ UNCHANGED <<session, last, message, turn, mode, shown, upsets, ahead, lost>>

-----------------------------------------------------------------------------

Init ==
    /\ session = NoSession
    /\ last = None
    /\ quote = [q \in Quotes |-> "ABSENT"]
    /\ message = [m \in Messages |-> NoMessage]
    /\ turn = NoTurn
    /\ mode = "bot"
    /\ shown = Nothing
    /\ upsets = 0
    /\ ahead = FALSE
    /\ lost = FALSE

MenuTurn(m) ==
    \/ \E step \in Questions : Ask(m, step) \/ OnLastAnswer(m, step)
    \/ \E step \in BotStep : Misunderstand(m, step)
    \/ OnAlternatives(m) \/ OnConfirm(m) \/ OnPaid(m)

AgentTurn ==
    \/ Says \/ CreateByAgent \/ PayByAgent \/ OtherTool \/ AgentHandsOver \/ ModelFails

Next ==
    \/ \E m \in Messages :
          \/ Write(m) \/ Repeated(m) \/ AskForPerson(m) \/ MenuTurn(m) \/ StartAgent(m)
    \/ AgentTurn
    \/ Save \/ EndTurn \/ HandsOver \/ GiveUp \/ LoseWorker
    \/ Forget \/ GiveBack
    \/ \E q \in Quotes : ChangeQuote(q)

Spec == Init /\ [][Next]_vars

-----------------------------------------------------------------------------
(* Properties.                                                             *)

\* Sessions and rows keep to their fields, and no session counts MaxMisses
\* misses: at the last of them a person has taken over.
TypeOK ==
    /\ session \in Session
    /\ last \in Messages \cup {None}
    /\ quote \in [Quotes -> QuoteStatus]
    /\ message \in [Messages -> Message]
    /\ turn \in Turn
    /\ mode \in {"bot", "human"}
    /\ shown \in BotStep \cup {Nothing}
    /\ upsets \in 0 .. MaxUpsets
    /\ ahead \in BOOLEAN
    /\ lost \in BOOLEAN

Quiet == ~ahead /\ ~lost

\* The step makes a quote from the answers that the menus asked for.
QuotedByMenus(q) ==
    quote[q] = "ABSENT" /\ quote'[q] = "SENT" /\ turn'.session.engine = "menu"

\* A quote of the menus has an answer to every question that is always asked, and
\* each was given when the client had that question before his eyes, through
\* misunderstandings, rejected dates, corrections and repeated jobs: unless he
\* wrote ahead, or a turn was not saved.
AnsweredBefore ==
    \A q \in Quotes : QuotedByMenus(q) /\ Quiet =>
        /\ Questions \ {"THEME", "EXTRAS", "OBSERVATIONS"} \subseteq turn'.session.answered
        /\ ~turn'.session.stray

QuotedAsAnswered == [][AnsweredBefore]_vars

\* Payment starts only for the newest quote of the conversation, the one that
\* the inbox shows, however often the client asked for another one.
PaysNewest ==
    \A q \in Quotes :
        quote[q] = "SENT" /\ quote'[q] = "PAYMENT_STARTED" => Newest(q) \/ lost

PaysNewestQuote == [][PaysNewest]_vars

\* A turn of the agent that made a quote or started a payment never falls back
\* to the menus, which would begin anew: it ends with the agent or with a person.
StaysWithAgent ==
    turn.pc = "agent" /\ turn.made /\ turn'.pc = "saving" => turn'.session.engine = "agent"

NoFallbackAfterEffects == [][StaysWithAgent]_vars

(* What the repository says and the code does not keep.                    *)

\* "Almacena el texto como observaciones de la cotización": a quote of the menus
\* has what the client answered when he was asked for observations.
ObservationsAreQuoted ==
    [][\A q \in Quotes :
          QuotedByMenus(q) => "OBSERVATIONS" \in turn'.session.answered]_vars
=============================================================================

------------------------------ MODULE BotProofs ------------------------------
(***************************************************************************)
(* What Bot promises of the quotes and payments of a conversation, for any *)
(* number of messages, quotes, replies of the model, misunderstandings,    *)
(* and turns that are cut short: the four properties that its run checks.  *)
(***************************************************************************)
EXTENDS Bot, TLAPS

-----------------------------------------------------------------------------
(* The invariant.                                                          *)

\* Quotes are created in order.
Made(quotes) == {q \in Quotes : quotes[q] # "ABSENT"}

InOrder(quotes) == \A q \in Made(quotes) : \A p \in Quotes : p < q => p \in Made(quotes)

NewestOf(q, quotes) == q \in Made(quotes) /\ \A p \in Made(quotes) : p <= q

\* A turn is about a message; between turns nothing is left of the last one.
TurnsClean ==
    /\ turn.pc = "none" => turn = NoTurn
    /\ turn.pc # "none" => turn.of \in Messages /\ message[turn.of].kind # "none"
    /\ turn.pc = "ended" => turn = [NoTurn EXCEPT !.pc = "ended", !.of = turn.of]
    /\ turn.pc = "handing" => turn.session.engine # "menu"

\* The agent stays with its own session, and knows what it has done.
AgentKnows ==
    turn.pc = "agent" => turn.session.engine = "agent" /\ (turn.made => turn.changed)

\* A session that can pay has the newest quote,
PaysRight(s, quotes) ==
    /\ s.engine = "menu" /\ s.step = "CONFIRM" => NewestOf(s.quote, quotes)
    /\ s.engine = "agent" => s.quote = 0 \/ NewestOf(s.quote, quotes)

\* but for the one in Redis while the agent has a newer one.
SessionsPayRight ==
    ~lost =>
        /\ PaysRight(session, quote) \/ (turn.made /\ turn.session.engine # "menu")
        /\ turn.pc \in {"agent", "saving"} => PaysRight(turn.session, quote)

\* Questions that the menus always ask.
Required == Questions \ {"THEME", "EXTRAS", "OBSERVATIONS"}

\* Those that come before a step.
Before(step) ==
    CASE step = "CATEGORY" -> {}
      [] step = "PACKAGE" -> {"CATEGORY"}
      [] step \in {"THEME", "EXTRAS", "DATE"} -> {"CATEGORY", "PACKAGE"}
      [] step = "TIME" -> {"CATEGORY", "PACKAGE", "DATE"}
      [] step = "DISTRICT" -> {"CATEGORY", "PACKAGE", "DATE", "TIME"}
      [] step = "ADDRESS" -> {"CATEGORY", "PACKAGE", "DATE", "TIME", "DISTRICT"}
      [] step = "NAME" -> Required \ {"NAME", "MOBILITY"}
      [] step = "MOBILITY" -> Required \ {"MOBILITY"}
      [] OTHER -> Required

\* The menus have every answer, or are on their way to the name for the first time.
AnswersInOrder(s) ==
    s.engine = "menu" =>
        \/ Required \subseteq s.answered
        \/ /\ Before(s.step) \subseteq s.answered
           /\ "NAME" \in s.answered => s.step = "MOBILITY"

Pending(m) == message[m].kind # "none"

\* The client has the question of the session before his eyes.
ShowsStep == session.engine = "menu" => shown = session.step

\* Unless he wrote ahead, or a turn was not saved.
AnswersToThePoint ==
    Quiet =>
        /\ \A m, n \in Messages : Pending(m) /\ Pending(n) => m = n
        /\ ~session.stray /\ ~turn.session.stray
        /\ \A m \in Messages :
              message[m].kind = "text" /\ last # m /\ session.engine = "menu" =>
                  message[m].about = session.step
        /\ (\A m \in Messages : ~Pending(m)) => ShowsStep
        /\ \A m \in Messages : Pending(m) /\ last = m => ShowsStep
        /\ \A m \in Messages :
              message[m].kind = "restart"
                  /\ (turn.pc = "none" \/ (turn.pc = "agent" /\ ~turn.made)) => ShowsStep
        /\ turn.pc = "ended" => ShowsStep
        /\ turn.pc \in {"agent", "saving", "handing"} => last # turn.of
        /\ turn.pc = "agent" /\ session.engine = "menu" => message[turn.of].kind = "restart"
        /\ turn.pc = "saving" /\ turn.session.engine = "menu" => shown = turn.session.step

BotInv ==
    /\ TypeOK
    /\ InOrder(quote)
    /\ TurnsClean
    /\ AgentKnows
    /\ SessionsPayRight
    /\ AnswersInOrder(session) /\ AnswersInOrder(turn.session)
    /\ AnswersToThePoint

-----------------------------------------------------------------------------
(* Sessions and quotes.                                                    *)

\* A session that starts anew has no quote and no answers.
LEMMA NewSessions ==
  /\ NoSession \in Session /\ NoSession.engine = "none" /\ ~NoSession.stray
  /\ BotSession \in Session /\ BotSession.engine = "menu" /\ BotSession.step = "CATEGORY"
  /\ ~BotSession.stray /\ BotSession.quote = 0
  /\ AgentSession \in Session /\ AgentSession.engine = "agent" /\ AgentSession.quote = 0
  /\ ~AgentSession.stray
<1>1. 0 \in 0 .. MaxMisses - 1
  BY BotConstants
<1> QED BY <1>1 DEF NoSession, BotSession, AgentSession, Session, BotStep, Questions

\* It has nothing to pay, and nothing to ask before.
LEMMA NewSessionsRight ==
  ASSUME NEW quotes
  PROVE  /\ \A s \in {NoSession, BotSession, AgentSession} :
               PaysRight(s, quotes) /\ AnswersInOrder(s)
<1>1. Before("CATEGORY") = {} /\ BotSession.answered = {}
  BY DEF Before, BotSession, NoSession
<1> QED BY <1>1, NewSessions DEF PaysRight, AnswersInOrder

\* What an answer, an error, a step and a quote change of a session.
LEMMA AnsweredIs ==
  ASSUME session \in Session, NEW m, NEW questions \in SUBSET Questions
  PROVE  LET s == Answered(m, questions)
         IN  /\ s \in Session /\ s.engine = session.engine /\ s.step = session.step
             /\ s.answered = session.answered \cup questions /\ s.quote = session.quote
             /\ s.stray = (session.stray \/ message[m].about # session.step)
<1>1. 0 \in 0 .. MaxMisses - 1
  BY BotConstants
<1> QED BY <1>1 DEF Answered, Session

LEMMA UndoneIs ==
  ASSUME session \in Session
  PROVE  /\ Undone \in Session /\ Undone.engine = session.engine /\ Undone.step = session.step
         /\ Undone.answered = session.answered /\ Undone.quote = session.quote
         /\ Undone.stray = session.stray
<1>1. 0 \in 0 .. MaxMisses - 1
  BY BotConstants
<1> QED BY <1>1 DEF Undone, Session

LEMMA StepIs ==
  ASSUME NEW old \in Session, NEW step \in BotStep
  PROVE  LET s == [old EXCEPT !.step = step]
         IN  /\ s \in Session /\ s.engine = old.engine /\ s.step = step
             /\ s.answered = old.answered /\ s.quote = old.quote /\ s.stray = old.stray
BY DEF Session

LEMMA QuotedIs ==
  ASSUME NEW old \in Session, NEW q \in Quotes
  PROVE  LET s == Quoted(old, q)
         IN  /\ s \in Session /\ s.engine = old.engine /\ s.step = old.step
             /\ s.answered = old.answered /\ s.quote = q /\ s.stray = old.stray
BY DEF Quoted, Session

\* Between turns.
LEMMA NewTurns ==
  /\ NoTurn \in Turn /\ NoTurn.pc = "none" /\ NoTurn.session = NoSession
  /\ NoTurn.made = FALSE /\ NoTurn.changed = FALSE
BY BotConstants, NewSessions DEF NoTurn, Turn

\* A quote that is paid, or is over, was there before.
LEMMA QuoteGoesOn ==
  ASSUME quote \in [Quotes -> QuoteStatus], NEW q, Payable(q),
         NEW status \in {"PAYMENT_STARTED", "OVER"}, quote' = [quote EXCEPT ![q] = status]
  PROVE  quote' \in [Quotes -> QuoteStatus] /\ Made(quote') = Made(quote)
BY DEF Payable, QuoteStatus, Made

\* A quote is created as the newest.
LEMMA QuoteAdded ==
  ASSUME quote \in [Quotes -> QuoteStatus], InOrder(quote), NEW q \in Quotes, AddQuote(q)
  PROVE  /\ quote' \in [Quotes -> QuoteStatus] /\ InOrder(quote') /\ NewestOf(q, quote')
<1>1. quote[q] = "ABSENT" /\ \A p \in Quotes : quote[p] = "ABSENT" => q <= p
  BY DEF AddQuote, Existing
<1>2. quote' \in [Quotes -> QuoteStatus] /\ \A p \in Quotes : quote'[p] = IF p = q THEN "SENT" ELSE quote[p]
  BY DEF AddQuote, QuoteStatus
<1>3. Made(quote') = Made(quote) \cup {q}
  BY <1>2 DEF Made
<1>4. q \in Nat /\ Quotes \subseteq Nat
  BY DEF Quotes
<1>5. \A p \in Quotes : p < q => p \in Made(quote)
  BY <1>1, <1>4 DEF Made
<1>6. \A p \in Made(quote) : p <= q
  <2> SUFFICES ASSUME NEW p \in Made(quote), q < p PROVE FALSE
    BY <1>4 DEF Made
  <2>1. q \in Made(quote)
    BY DEF InOrder
  <2> QED BY <1>1, <2>1 DEF Made
<1>7. InOrder(quote')
  BY <1>3, <1>5 DEF InOrder
<1> QED BY <1>2, <1>3, <1>4, <1>6, <1>7 DEF NewestOf

\* What may be paid depends on the quotes there are, not on their status.
LEMMA SameQuotes ==
  ASSUME NEW a, NEW b, Made(a) = Made(b), NEW s
  PROVE  (InOrder(a) => InOrder(b)) /\ (PaysRight(s, a) => PaysRight(s, b))
BY DEF InOrder, PaysRight, NewestOf

-----------------------------------------------------------------------------
(* What a turn commits.                                                    *)

\* Unless the client wrote ahead, nothing waits but the message of the turn.
LEMMA OnlyOne ==
  ASSUME BotInv, Quiet, NEW m \in Messages, Pending(m)
  PROVE  \A n \in Messages : Pending(n) => n = m
BY DEF BotInv, AnswersToThePoint

\* The menus reply.
LEMMA ReplyKeepsInv ==
  ASSUME BotInv, NEW m \in Messages, Pending(m), Quiet => last # m,
         turn.pc = "none" \/ (turn.pc = "agent" /\ turn.of = m /\ ~turn.made),
         NEW s \in Session, s.engine = "menu", AnswersInOrder(s), Quiet => ~s.stray,
         NEW made \in BOOLEAN, Reply(m, s, s.step, made),
         quote' \in [Quotes -> QuoteStatus], InOrder(quote'),
         ~lost => PaysRight(session, quote') /\ PaysRight(s, quote')
  PROVE  BotInv'
<1> USE DEF BotInv
<1> DEFINE t == [NoTurn EXCEPT !.pc = "saving", !.of = m, !.session = s, !.made = made]
<1>1. /\ t \in Turn /\ t.pc = "saving" /\ t.of = m /\ t.session = s
  BY NewTurns DEF Turn
<1>2. /\ turn' = t /\ shown' = s.step
      /\ UNCHANGED <<session, last, message, mode, upsets, ahead, lost>>
  BY DEF Reply
<1> HIDE DEF t
<1>3. TypeOK'
  <2>1. s.step \in BotStep
    BY DEF Session
  <2> QED BY <1>1, <1>2, <2>1 DEF TypeOK
<1>4. TurnsClean' /\ AgentKnows'
  BY <1>1, <1>2 DEF TurnsClean, AgentKnows, Pending
<1>5. SessionsPayRight'
  BY <1>1, <1>2 DEF SessionsPayRight
<1>6. AnswersInOrder(session)' /\ AnswersInOrder(turn.session)'
  BY <1>1, <1>2
<1>7. AnswersToThePoint'
  <2> SUFFICES ASSUME Quiet PROVE AnswersToThePoint'
    BY <1>2 DEF AnswersToThePoint, Quiet
  <2>1. \A n \in Messages : Pending(n) => n = m
    BY OnlyOne
  <2>2. \A n \in Messages : Pending(n)' <=> Pending(n)
    BY <1>2 DEF Pending
  <2> QED BY <1>1, <1>2, <2>1, <2>2 DEF AnswersToThePoint, Pending
<1> QED BY <1>3, <1>4, <1>5, <1>6, <1>7

\* The conversation is handed over.
LEMMA HandOverKeepsInv ==
  ASSUME BotInv, NEW m \in Messages, Pending(m), Quiet => last # m,
         turn.pc = "none" \/ (turn.pc = "agent" /\ turn.of = m),
         NEW made \in BOOLEAN, turn.made => made, HandOver(m, made), UNCHANGED quote
  PROVE  BotInv'
<1> USE DEF BotInv
<1> DEFINE t == [NoTurn EXCEPT !.pc = "handing", !.of = m, !.made = made]
<1>1. /\ t \in Turn /\ t.pc = "handing" /\ t.of = m /\ t.session = NoSession /\ t.made = made
  BY NewTurns DEF Turn
<1>2. /\ turn' = t /\ shown' = Nothing
      /\ UNCHANGED <<session, last, message, mode, upsets, ahead, lost, quote>>
  BY DEF HandOver
<1> HIDE DEF t
<1>3. TypeOK'
  BY <1>1, <1>2 DEF TypeOK
<1>4. TurnsClean' /\ AgentKnows'
  BY <1>1, <1>2, NewSessions DEF TurnsClean, AgentKnows, Pending
<1>5. SessionsPayRight'
  BY <1>1, <1>2, NewSessions DEF SessionsPayRight
<1>6. AnswersInOrder(session)' /\ AnswersInOrder(turn.session)'
  BY <1>1, <1>2, NewSessionsRight
<1>7. AnswersToThePoint'
  <2> SUFFICES ASSUME Quiet PROVE AnswersToThePoint'
    BY <1>2 DEF AnswersToThePoint, Quiet
  <2>1. \A n \in Messages : Pending(n) => n = m
    BY OnlyOne
  <2>2. \A n \in Messages : Pending(n)' <=> Pending(n)
    BY <1>2 DEF Pending
  <2> QED BY <1>1, <1>2, <2>1, <2>2, NewSessions DEF AnswersToThePoint, Pending
<1> QED BY <1>2, <1>3, <1>4, <1>5, <1>6, <1>7

\* The agent goes on with turn t, which may have made something.
AgentGoesOn(t) ==
    /\ turn.pc = "agent" /\ turn' = t
    /\ t \in Turn /\ t.pc \in {"agent", "saving"} /\ t.of = turn.of
    /\ t.session.engine = "agent" /\ (Quiet => ~t.session.stray)
    /\ (turn.made => t.made) /\ (t.made => t.changed)
    /\ quote' \in [Quotes -> QuoteStatus] /\ InOrder(quote')
    /\ Made(quote') = Made(quote) \/ t.made
    /\ ~lost => PaysRight(t.session, quote')
    /\ shown' = shown \/ (shown' = Nothing /\ (t.made \/ t.pc = "saving"))
    /\ UNCHANGED <<session, last, message, mode, upsets, ahead, lost>>

\* So it keeps the invariant.
LEMMA AgentGoesOnKeepsInv ==
  ASSUME BotInv, NEW t, AgentGoesOn(t)
  PROVE  BotInv'
<1> USE DEF BotInv, AgentGoesOn
<1>1. TypeOK'
  BY DEF TypeOK
<1>2. TurnsClean' /\ AgentKnows'
  BY DEF TurnsClean, AgentKnows
<1>3. SessionsPayRight'
  <2> SUFFICES ASSUME ~lost, ~t.made PROVE PaysRight(session, quote')
    BY DEF SessionsPayRight
  <2>1. PaysRight(session, quote) /\ Made(quote) = Made(quote')
    BY DEF SessionsPayRight
  <2> QED BY <2>1, SameQuotes
<1>4. AnswersInOrder(session)' /\ AnswersInOrder(turn.session)'
  BY DEF AnswersInOrder
<1>5. AnswersToThePoint'
  <2> SUFFICES ASSUME Quiet PROVE AnswersToThePoint'
    BY DEF AnswersToThePoint, Quiet
  <2>1. \A n \in Messages : Pending(n)' <=> Pending(n)
    BY DEF Pending
  <2>2. turn.of \in Messages /\ Pending(turn.of) /\ last # turn.of
    BY DEF TurnsClean, AnswersToThePoint, Pending
  <2>3. \A n \in Messages : Pending(n) => n = turn.of
    BY <2>2, OnlyOne
  <2> QED BY <2>1, <2>2, <2>3 DEF AnswersToThePoint, Pending, ShowsStep
<1> QED BY <1>1, <1>2, <1>3, <1>4, <1>5

-----------------------------------------------------------------------------
(* The menus.                                                              *)

\* The invariant of a session in the menus that gets an answer.
LEMMA MenuSession ==
  ASSUME BotInv, NEW m \in Messages, NEW step, InMenus(m, step)
  PROVE  /\ session \in Session /\ session.engine = "menu" /\ session.step = step
         /\ AnswersInOrder(session)
         /\ Pending(m) /\ last # m /\ turn.pc = "none" /\ turn.made = FALSE
         /\ ~lost => PaysRight(session, quote)
         /\ Quiet => ~session.stray /\ message[m].about = step
         /\ quote \in [Quotes -> QuoteStatus] /\ InOrder(quote)
<1>1. turn = NoTurn /\ message[m].kind = "text" /\ last # m /\ session.step = step
  BY DEF InMenus, Waits, BotInv, TurnsClean
<1> QED BY <1>1, NewTurns
        DEF InMenus, Waits, Pending, BotInv, TypeOK, SessionsPayRight, AnswersToThePoint

\* A reply that leaves the quotes alone, and does not ask for the payment anew.
LEMMA PlainReply ==
  ASSUME BotInv, NEW m \in Messages, NEW step, InMenus(m, step), UNCHANGED quote,
         NEW s \in Session, Reply(m, s, s.step, FALSE),
         s.engine = "menu", AnswersInOrder(s), Quiet => ~s.stray,
         s.step = "CONFIRM" => step = "CONFIRM" /\ s.quote = session.quote
  PROVE  BotInv'
<1>1. ~lost => PaysRight(s, quote')
  BY MenuSession DEF PaysRight
<1> QED BY <1>1, MenuSession, ReplyKeepsInv

\* An answer in the menus.
LEMMA AnswerTo ==
  ASSUME BotInv, NEW m \in Messages, NEW step, InMenus(m, step), NEW questions \in SUBSET Questions
  PROVE  LET s == Answered(m, questions)
         IN  /\ s \in Session /\ s.engine = "menu"
             /\ s.answered = session.answered \cup questions
             /\ s.stray = (session.stray \/ message[m].about # step)
<1>1. session \in Session /\ session.engine = "menu" /\ session.step = step
  BY MenuSession
<1> QED BY <1>1, AnsweredIs

\* The menus hand over.
LEMMA MenuHandsOver ==
  ASSUME BotInv, NEW m \in Messages, NEW step, InMenus(m, step), HandOver(m, FALSE),
         UNCHANGED quote
  PROVE  BotInv'
BY MenuSession, HandOverKeepsInv

\* One question leads to the next.
LEMMA NextQuestion ==
  ASSUME NEW step \in Questions \ {"OBSERVATIONS"}, NEW next \in Follows[step]
  PROVE  /\ next \in Questions /\ Before(next) \subseteq Before(step) \cup {step}
         /\ step = "NAME" => next = "MOBILITY"
         /\ step = "MOBILITY" => Required \subseteq Before(step) \cup {step}
<1> USE DEF Questions, Required
<1>1. Follows[step] =
        CASE step = "CATEGORY" -> {"PACKAGE"}
          [] step = "PACKAGE"  -> {"THEME", "EXTRAS", "DATE"}
          [] step = "THEME"    -> {"EXTRAS", "DATE"}
          [] step = "EXTRAS"   -> {"DATE"}
          [] step = "DATE"     -> {"TIME"}
          [] step = "TIME"     -> {"DISTRICT"}
          [] step = "DISTRICT" -> {"ADDRESS"}
          [] step = "ADDRESS"  -> {"NAME"}
          [] step = "NAME"     -> {"MOBILITY"}
          [] step = "MOBILITY" -> {"OBSERVATIONS"}
  BY DEF Follows
<1>2. CASE step \in {"CATEGORY", "PACKAGE"}
  BY <1>1, <1>2 DEF Before
<1>3. CASE step \in {"THEME", "EXTRAS"}
  BY <1>1, <1>3 DEF Before
<1>4. CASE step \in {"DATE", "TIME"}
  BY <1>1, <1>4 DEF Before
<1>5. CASE step \in {"DISTRICT", "ADDRESS"}
  BY <1>1, <1>5 DEF Before
<1>6. CASE step = "NAME"
  BY <1>1, <1>6 DEF Before
<1>7. CASE step = "MOBILITY"
  BY <1>1, <1>7 DEF Before
<1> QED BY <1>2, <1>3, <1>4, <1>5, <1>6, <1>7

\* A question is asked and the answer to the last one kept.
LEMMA AskKeepsInv ==
  ASSUME BotInv, NEW m \in Messages, NEW step \in Questions, Ask(m, step)
  PROVE  BotInv'
<1>1. /\ InMenus(m, step) /\ step # "OBSERVATIONS" /\ UNCHANGED quote
  BY DEF Ask, Complete
<1>2. PICK next \in Follows[step] : Reply(m, [Answered(m, {step}) EXCEPT !.step = next], next, FALSE)
  BY DEF Ask
<1>3. next \in Questions /\ next \in BotStep /\ next # "CONFIRM"
  BY <1>1, NextQuestion DEF BotStep, Questions
<1> DEFINE a == Answered(m, {step})
           s == [a EXCEPT !.step = next]
<1>4. /\ a \in Session /\ a.engine = "menu" /\ a.answered = session.answered \cup {step}
      /\ a.stray = (session.stray \/ message[m].about # step)
  BY <1>1, AnswerTo
<1> HIDE DEF a
<1>5. /\ s \in Session /\ s.engine = "menu" /\ s.step = next
      /\ s.answered = session.answered \cup {step} /\ s.stray = a.stray
  BY <1>3, <1>4, StepIs
<1>6. Reply(m, s, s.step, FALSE)
  BY <1>2, <1>5 DEF a
<1> HIDE DEF s
<1>7. AnswersInOrder(s)
  <2>1. \/ Required \subseteq session.answered
        \/ /\ Before(step) \subseteq session.answered
           /\ "NAME" \in session.answered => step = "MOBILITY"
    BY <1>1, MenuSession DEF AnswersInOrder
  <2>2. /\ Before(next) \subseteq Before(step) \cup {step}
        /\ step = "NAME" => next = "MOBILITY"
        /\ step = "MOBILITY" => Required \subseteq Before(step) \cup {step}
    BY <1>1, NextQuestion
  <2> QED BY <1>5, <2>1, <2>2 DEF AnswersInOrder
<1>8. Quiet => ~s.stray
  BY <1>1, <1>4, <1>5, MenuSession
<1> QED BY <1>1, <1>3, <1>5, <1>6, <1>7, <1>8, PlainReply

\* Where the menus ask for another date, or offer others, every answer is there.
LEMMA AskAgainKeepsInv ==
  ASSUME BotInv, NEW m \in Messages, NEW step, InMenus(m, step), UNCHANGED quote,
         Required \subseteq session.answered,
         Reply(m, Offered, "ALTERNATIVES", FALSE) \/ Reply(m, Corrected, "DATE", FALSE)
  PROVE  BotInv'
<1>1. PICK next \in {"ALTERNATIVES", "DATE"} :
        Reply(m, [Undone EXCEPT !.step = next], next, FALSE)
  BY DEF Offered, Corrected
<1> DEFINE s == [Undone EXCEPT !.step = next]
<1>2. /\ s \in Session /\ s.engine = "menu" /\ s.step = next
      /\ s.answered = session.answered /\ s.stray = session.stray
  <2>1. next \in BotStep
    BY DEF BotStep, Questions
  <2> QED BY <2>1, MenuSession, UndoneIs, StepIs
<1>3. Reply(m, s, s.step, FALSE)
  BY <1>1, <1>2
<1> HIDE DEF s
<1> QED BY <1>2, <1>3, MenuSession, PlainReply DEF AnswersInOrder

\* A quote is made of all the answers, or not at all.
LEMMA CreateQuoteKeepsInv ==
  ASSUME BotInv, NEW m \in Messages, NEW step, InMenus(m, step), step # "CONFIRM",
         NEW questions \in SUBSET Questions, CreateQuote(m, Answered(m, questions)),
         Required \subseteq session.answered
  PROVE  BotInv'
<1> DEFINE a == Answered(m, questions)
<1>1. /\ a \in Session /\ a.engine = "menu" /\ Required \subseteq a.answered
      /\ a.stray = (session.stray \/ message[m].about # step)
  BY AnswerTo
<1>2. ASSUME NEW q \in Quotes, AddQuote(q),
             Reply(m, [Quoted(a, q) EXCEPT !.step = "CONFIRM"], "CONFIRM", TRUE)
      PROVE  BotInv'
  <2> DEFINE b == Quoted(a, q)
             s == [b EXCEPT !.step = "CONFIRM"]
  <2> HIDE DEF a
  <2>1. /\ b \in Session /\ b.engine = "menu" /\ b.answered = a.answered /\ b.quote = q
        /\ b.stray = a.stray
    BY <1>1, QuotedIs
  <2> HIDE DEF b
  <2>2. /\ s \in Session /\ s.engine = "menu" /\ s.step = "CONFIRM" /\ s.quote = q
        /\ Required \subseteq s.answered /\ s.stray = a.stray
    BY <1>1, <2>1, StepIs DEF BotStep
  <2>3. Reply(m, s, s.step, TRUE)
    BY <1>2, <2>2 DEF b
  <2> HIDE DEF s
  <2>4. /\ quote' \in [Quotes -> QuoteStatus] /\ InOrder(quote') /\ NewestOf(q, quote')
    BY <1>2, MenuSession, QuoteAdded
  <2>5. PaysRight(session, quote') /\ PaysRight(s, quote')
    BY <2>2, <2>4, MenuSession DEF PaysRight
  <2>6. AnswersInOrder(s) /\ (Quiet => ~s.stray)
    BY <1>1, <2>2, MenuSession DEF AnswersInOrder
  <2> QED BY <2>2, <2>3, <2>4, <2>5, <2>6, MenuSession, ReplyKeepsInv
<1> HIDE DEF a
<1>3. CASE UNCHANGED quote /\ (\/ Reply(m, Offered, "ALTERNATIVES", FALSE)
                               \/ Reply(m, Corrected, "DATE", FALSE))
  BY <1>3, AskAgainKeepsInv
<1>4. CASE UNCHANGED quote /\ HandOver(m, FALSE)
  BY <1>4, MenuHandsOver
<1> QED BY <1>2, <1>3, <1>4 DEF CreateQuote, a

\* At the last question, whichever it is, every other one has its answer.
LEMMA CompleteHasAll ==
  ASSUME NEW s, AnswersInOrder(s), s.engine = "menu",
         \/ s.step \in {"OBSERVATIONS", "ALTERNATIVES", "CONFIRM", "PAID"}
         \/ s.step = "TIME" /\ Complete("TIME", s.answered)
  PROVE  Required \subseteq s.answered
BY DEF AnswersInOrder, Before, Complete

\* The last answer.
LEMMA OnLastAnswerKeepsInv ==
  ASSUME BotInv, NEW m \in Messages, NEW step \in Questions, OnLastAnswer(m, step)
  PROVE  BotInv'
<1>1. /\ InMenus(m, step) /\ step \in {"TIME", "OBSERVATIONS"}
      /\ Complete(step, session.answered) /\ CreateQuote(m, Answered(m, {step}))
  BY DEF OnLastAnswer
<1>2. Required \subseteq session.answered
  BY <1>1, MenuSession, CompleteHasAll
<1> QED BY <1>1, <1>2, CreateQuoteKeepsInv

\* The choice of another date.
LEMMA OnAlternativesKeepsInv ==
  ASSUME BotInv, NEW m \in Messages, OnAlternatives(m)
  PROVE  BotInv'
<1>1. InMenus(m, "ALTERNATIVES")
  BY DEF OnAlternatives
<1>2. Required \subseteq session.answered
  BY <1>1, MenuSession, CompleteHasAll
<1>3. CASE CreateQuote(m, Answered(m, {"DATE", "TIME"}))
  <2>1. {"DATE", "TIME"} \in SUBSET Questions
    BY DEF Questions
  <2> QED BY <1>1, <1>2, <1>3, <2>1, CreateQuoteKeepsInv
<1>4. CASE UNCHANGED quote /\ Reply(m, Corrected, "DATE", FALSE)
  BY <1>1, <1>2, <1>4, AskAgainKeepsInv
<1>5. CASE UNCHANGED quote /\ HandOver(m, FALSE)
  BY <1>1, <1>5, MenuHandsOver
<1> QED BY <1>3, <1>4, <1>5 DEF OnAlternatives

\* An error that leaves the session where it was.
LEMMA StaysKeepsInv ==
  ASSUME BotInv, NEW m \in Messages, NEW step, InMenus(m, step), UNCHANGED quote,
         Reply(m, Undone, step, FALSE)
  PROVE  BotInv'
<1>1. /\ Undone \in Session /\ Undone.engine = "menu" /\ Undone.step = step
      /\ Undone.answered = session.answered /\ Undone.quote = session.quote
      /\ Undone.stray = session.stray
  BY MenuSession, UndoneIs
<1>2. Reply(m, Undone, Undone.step, FALSE)
  BY <1>1
<1> QED BY <1>1, <1>2, MenuSession, PlainReply DEF AnswersInOrder

\* The quote is confirmed.
LEMMA OnConfirmKeepsInv ==
  ASSUME BotInv, NEW m \in Messages, OnConfirm(m)
  PROVE  BotInv'
<1>1. InMenus(m, "CONFIRM")
  BY DEF OnConfirm
<1>2. Required \subseteq session.answered
  BY <1>1, MenuSession, CompleteHasAll
<1>3. CASE /\ Payable(session.quote) /\ StartPayment(session.quote)
           /\ Reply(m, [Undone EXCEPT !.step = "PAID"], "PAID", TRUE)
  <2> DEFINE s == [Undone EXCEPT !.step = "PAID"]
  <2>1. /\ s \in Session /\ s.engine = "menu" /\ s.step = "PAID"
        /\ s.answered = session.answered /\ s.stray = session.stray
    <3>1. /\ Undone \in Session /\ Undone.engine = "menu"
          /\ Undone.answered = session.answered /\ Undone.stray = session.stray
      BY <1>1, MenuSession, UndoneIs
    <3>2. "PAID" \in BotStep
      BY DEF BotStep
    <3> QED BY <3>1, <3>2, StepIs
  <2>2. Reply(m, s, s.step, TRUE)
    BY <1>3, <2>1
  <2> HIDE DEF s
  <2>3. quote' \in [Quotes -> QuoteStatus] /\ Made(quote') = Made(quote)
    BY <1>1, <1>3, MenuSession, QuoteGoesOn DEF StartPayment
  <2>4. InOrder(quote') /\ (~lost => PaysRight(session, quote') /\ PaysRight(s, quote'))
    BY <1>1, <2>1, <2>3, MenuSession, SameQuotes DEF PaysRight
  <2> QED BY <1>1, <1>2, <2>1, <2>2, <2>3, <2>4, MenuSession, ReplyKeepsInv DEF AnswersInOrder
<1>4. CASE UNCHANGED quote /\ Reply(m, Offered, "ALTERNATIVES", FALSE)
  BY <1>1, <1>2, <1>4, AskAgainKeepsInv
<1>5. CASE UNCHANGED quote /\ Reply(m, Undone, "CONFIRM", FALSE)
  BY <1>1, <1>5, StaysKeepsInv
<1>6. CASE UNCHANGED quote /\ HandOver(m, FALSE)
  BY <1>1, <1>6, MenuHandsOver
<1> QED BY <1>3, <1>4, <1>5, <1>6 DEF OnConfirm

\* A message that is not understood.
LEMMA MisunderstandKeepsInv ==
  ASSUME BotInv, NEW m \in Messages, NEW step \in BotStep, Misunderstand(m, step)
  PROVE  BotInv'
<1>1. InMenus(m, step) /\ UNCHANGED quote
  BY DEF Misunderstand
<1> DEFINE s == [session EXCEPT !.misses = @ + 1]
<1>2. CASE ~TooMany(session.misses + 1) /\ Reply(m, s, step, FALSE)
  <2>1. session.misses + 1 \in 0 .. MaxMisses - 1
    <3>1. session.misses \in 0 .. MaxMisses - 1
      BY <1>1, MenuSession DEF Session
    <3> QED BY <1>2, <3>1, BotConstants DEF TooMany
  <2>2. /\ s \in Session /\ s.engine = "menu" /\ s.step = step
        /\ s.answered = session.answered /\ s.quote = session.quote
        /\ s.stray = session.stray
    BY <1>1, <2>1, MenuSession DEF Session
  <2>3. Reply(m, s, s.step, FALSE)
    BY <1>2, <2>2
  <2> HIDE DEF s
  <2> QED BY <1>1, <2>2, <2>3, MenuSession, PlainReply DEF AnswersInOrder
<1>3. CASE HandOver(m, FALSE)
  BY <1>1, <1>3, MenuHandsOver
<1> QED BY <1>2, <1>3 DEF Misunderstand

\* Every turn of the menus.
LEMMA MenuTurnKeepsInv ==
  ASSUME BotInv, NEW m \in Messages, MenuTurn(m)
  PROVE  BotInv'
<1>1. CASE OnPaid(m)
  BY <1>1, StaysKeepsInv DEF OnPaid
<1> QED BY <1>1, AskKeepsInv, OnLastAnswerKeepsInv, MisunderstandKeepsInv,
           OnAlternativesKeepsInv, OnConfirmKeepsInv DEF MenuTurn

-----------------------------------------------------------------------------
(* The agent.                                                              *)

\* The invariant of a turn of the agent.
LEMMA AgentSessionIs ==
  ASSUME BotInv, turn.pc = "agent"
  PROVE  /\ turn \in Turn /\ turn.session \in Session /\ turn.session.engine = "agent"
         /\ turn.replies \in 0 .. MaxReplies /\ turn.changed \in BOOLEAN /\ turn.made \in BOOLEAN
         /\ (turn.made => turn.changed)
         /\ turn.of \in Messages /\ Pending(turn.of)
         /\ Quiet => last # turn.of /\ ~turn.session.stray
         /\ ~lost => PaysRight(turn.session, quote)
         /\ quote \in [Quotes -> QuoteStatus] /\ InOrder(quote)
<1>1. turn \in Turn /\ turn.session \in Session
  BY DEF BotInv, TypeOK, Turn
<1>2. /\ turn.replies \in 0 .. MaxReplies /\ turn.changed \in BOOLEAN /\ turn.made \in BOOLEAN
  BY <1>1 DEF Turn
<1> QED BY <1>1, <1>2 DEF BotInv, TypeOK, TurnsClean, AgentKnows, SessionsPayRight, AnswersToThePoint, Pending

\* A turn of the agent starts with its own session.
LEMMA StartAgentKeepsInv ==
  ASSUME BotInv, NEW m \in Messages, StartAgent(m)
  PROVE  BotInv'
<1> USE DEF BotInv
<1> DEFINE s == IF session.engine = "agent" THEN session ELSE AgentSession
           t == [NoTurn EXCEPT !.pc = "agent", !.of = m, !.session = s]
<1>1. /\ message[m].kind # "none" /\ last # m /\ turn = NoTurn
      /\ session.engine = "menu" => message[m].kind = "restart"
      /\ turn' = t /\ UNCHANGED <<session, last, quote, message, mode, shown, upsets, ahead, lost>>
  BY DEF StartAgent, Waits, TurnsClean
<1>2. /\ s \in Session /\ s.engine = "agent" /\ (Quiet => ~s.stray)
      /\ ~lost => PaysRight(s, quote)
  <2>1. CASE session.engine = "agent"
    BY <1>1, <2>1, NewTurns DEF TypeOK, AnswersToThePoint, SessionsPayRight
  <2>2. CASE session.engine # "agent"
    BY <2>2, NewSessions, NewSessionsRight
  <2> QED BY <2>1, <2>2
<1> HIDE DEF s
<1>3. t \in Turn /\ t.pc = "agent" /\ t.of = m /\ t.session = s /\ t.made = FALSE
  BY <1>2, NewTurns DEF Turn
<1> HIDE DEF t
<1>4. TypeOK'
  BY <1>1, <1>3 DEF TypeOK
<1>5. TurnsClean' /\ AgentKnows'
  BY <1>1, <1>2, <1>3 DEF TurnsClean, AgentKnows
<1>6. SessionsPayRight'
  BY <1>1, <1>2, <1>3, NewTurns DEF SessionsPayRight
<1>7. AnswersInOrder(session)' /\ AnswersInOrder(turn.session)'
  BY <1>1, <1>2, <1>3 DEF AnswersInOrder
<1>8. AnswersToThePoint'
  <2> SUFFICES ASSUME Quiet PROVE AnswersToThePoint'
    BY <1>1 DEF AnswersToThePoint, Quiet
  <2>1. \A n \in Messages : Pending(n) => n = m
    BY <1>1, OnlyOne DEF Pending
  <2>2. \A n \in Messages : Pending(n)' <=> Pending(n)
    BY <1>1 DEF Pending
  <2>3. ShowsStep' <=> ShowsStep
    BY <1>1 DEF ShowsStep
  <2> QED BY <1>1, <1>2, <1>3, <2>1, <2>2, <2>3, NewTurns DEF AnswersToThePoint, Pending
<1> QED BY <1>1, <1>4, <1>5, <1>6, <1>7, <1>8

\* A tool, after which the session is s.
LEMMA ToolKeepsInv ==
  ASSUME BotInv, NEW s \in Session, NEW changed \in BOOLEAN, AfterTool(s, changed),
         s.engine = "agent", s.stray = turn.session.stray,
         quote' \in [Quotes -> QuoteStatus], InOrder(quote'),
         ~lost => PaysRight(s, quote'),
         IF changed THEN shown' = Nothing ELSE UNCHANGED <<quote, shown>>
  PROVE  BotInv'
<1>1. turn.pc = "agent" /\ turn.replies < MaxReplies
  BY DEF AfterTool
<1>2. PICK n \in {turn.replies, turn.replies + 1} :
        turn' = [turn EXCEPT !.session = s, !.replies = n, !.changed = Changed(changed),
                             !.made = @ \/ changed]
  BY DEF AfterTool
<1> DEFINE t == [turn EXCEPT !.session = s, !.replies = n, !.changed = Changed(changed),
                             !.made = @ \/ changed]
<1>3. n \in 0 .. MaxReplies /\ Changed(changed) \in BOOLEAN
  <2>1. turn.replies \in 0 .. MaxReplies
    BY <1>1, AgentSessionIs
  <2>2. n \in 0 .. MaxReplies
    BY <1>1, <2>1, BotConstants
  <2> QED BY <2>2, <1>1, AgentSessionIs DEF Changed
<1>4. /\ t \in Turn /\ t.pc = "agent" /\ t.of = turn.of /\ t.session = s
      /\ t.changed = Changed(changed) /\ t.made = (turn.made \/ changed)
  BY <1>1, <1>3, AgentSessionIs DEF Turn
<1>5. turn' = t
  BY <1>2
<1> HIDE DEF t
<1>6. (turn.made => t.made) /\ (t.made => t.changed)
  BY <1>1, <1>4, AgentSessionIs DEF Changed
<1>7. changed => t.made
  BY <1>4
<1>8. AgentGoesOn(t)
  BY <1>1, <1>4, <1>5, <1>6, <1>7, AgentSessionIs DEF AgentGoesOn, AfterTool
<1> QED BY <1>8, AgentGoesOnKeepsInv

\* Every step of the agent.
LEMMA AgentTurnKeepsInv ==
  ASSUME BotInv, AgentTurn
  PROVE  BotInv'
<1> DEFINE s == turn.session
<1>1. turn.pc = "agent"
  BY DEF AgentTurn, Says, CreateByAgent, PayByAgent, OtherTool, AgentHandsOver, ModelFails, AfterTool
<1>2. /\ s \in Session /\ s.engine = "agent" /\ quote \in [Quotes -> QuoteStatus] /\ InOrder(quote)
      /\ ~lost => PaysRight(s, quote)
  BY <1>1, AgentSessionIs
<1>3. CASE Says
  <2> DEFINE t == [turn EXCEPT !.pc = "saving"]
  <2>1. /\ t \in Turn /\ t.pc = "saving" /\ t.of = turn.of /\ t.session = turn.session
        /\ t.made = turn.made /\ t.changed = turn.changed /\ turn' = t
    BY <1>1, <1>3, AgentSessionIs DEF Turn, Says
  <2> HIDE DEF t
  <2>2. AgentGoesOn(t)
    BY <1>1, <1>3, <2>1, AgentSessionIs DEF AgentGoesOn, Says
  <2> QED BY <2>2, AgentGoesOnKeepsInv
<1>4. CASE CreateByAgent
  <2>1. PICK q \in Quotes : AddQuote(q) /\ AfterTool(Quoted(s, q), TRUE) /\ shown' = Nothing
    BY <1>4 DEF CreateByAgent
  <2> DEFINE b == Quoted(s, q)
  <2>2. b \in Session /\ b.engine = "agent" /\ b.quote = q /\ b.stray = s.stray
    BY <1>2, QuotedIs
  <2>3. quote' \in [Quotes -> QuoteStatus] /\ InOrder(quote') /\ NewestOf(q, quote')
    BY <1>2, <2>1, QuoteAdded
  <2> HIDE DEF b
  <2>4. PaysRight(b, quote')
    BY <2>2, <2>3 DEF PaysRight
  <2> QED BY <2>1, <2>2, <2>3, <2>4, ToolKeepsInv DEF b
<1>5. CASE PayByAgent
  <2> DEFINE b == [s EXCEPT !.started = TRUE]
  <2>1. /\ Payable(s.quote) /\ StartPayment(s.quote) /\ AfterTool(b, TRUE) /\ shown' = Nothing
    BY <1>5 DEF PayByAgent
  <2>2. /\ b \in Session /\ b.engine = "agent" /\ b.quote = s.quote /\ b.stray = s.stray
    BY <1>2 DEF Session
  <2> HIDE DEF b
  <2>3. quote' \in [Quotes -> QuoteStatus] /\ Made(quote') = Made(quote)
    BY <1>2, <2>1, QuoteGoesOn DEF StartPayment
  <2>4. InOrder(quote') /\ (~lost => PaysRight(s, quote'))
    BY <1>2, <2>3, SameQuotes
  <2>5. ~lost => PaysRight(b, quote')
    BY <1>2, <2>2, <2>4 DEF PaysRight
  <2> QED BY <2>1, <2>2, <2>3, <2>4, <2>5, ToolKeepsInv
<1>6. CASE OtherTool
  <2>1. AfterTool(s, FALSE) /\ UNCHANGED <<quote, shown>>
    BY <1>6 DEF OtherTool
  <2> HIDE DEF s
  <2> QED BY <1>2, <2>1, ToolKeepsInv DEF s
<1>7. ASSUME HandOver(turn.of, turn.made), UNCHANGED quote PROVE BotInv'
  BY <1>1, <1>7, AgentSessionIs, HandOverKeepsInv
<1>8. CASE ModelFails /\ ~turn.changed
  <2> DEFINE m == turn.of
  <2>1. /\ m \in Messages /\ Pending(m) /\ (Quiet => last # m) /\ ~turn.made /\ UNCHANGED quote
    BY <1>1, <1>8, AgentSessionIs DEF ModelFails
  <2>2. CASE Reply(m, BotSession, "CATEGORY", FALSE)
    <3>1. /\ BotSession \in Session /\ BotSession.engine = "menu" /\ ~BotSession.stray
          /\ Reply(m, BotSession, BotSession.step, FALSE)
          /\ AnswersInOrder(BotSession) /\ PaysRight(BotSession, quote')
      BY <2>2, NewSessions, NewSessionsRight
    <3>2. ~lost => PaysRight(session, quote')
      BY <2>1 DEF BotInv, SessionsPayRight
    <3> QED BY <1>1, <1>2, <2>1, <3>1, <3>2, ReplyKeepsInv
  <2>3. CASE HandOver(m, FALSE)
    BY <1>1, <2>1, <2>3, HandOverKeepsInv
  <2> QED BY <1>1, <1>8, <2>2, <2>3 DEF ModelFails, Greet
<1> HIDE DEF s
<1> QED BY <1>3, <1>4, <1>5, <1>6, <1>7, <1>8 DEF AgentTurn, AgentHandsOver, ModelFails

-----------------------------------------------------------------------------
(* The beginning and the end of a turn, and what comes between turns.      *)

\* An upset more is not too many.
LEMMA UpsetsBounded ==
  ASSUME upsets \in 0 .. MaxUpsets, Upset \/ UNCHANGED upsets
  PROVE  upsets' \in 0 .. MaxUpsets
BY BotConstants DEF Upset

\* A message that is done waits no more, and no other is touched.
LEMMA DoneIs ==
  ASSUME TypeOK, NEW m \in Messages, Done(m)
  PROVE  /\ message' \in [Messages -> Message] /\ message'[m].kind = "none"
         /\ \A n \in Messages \ {m} : message'[n] = message[n]
         /\ last' \in Messages \cup {None}
BY DEF TypeOK, Done, Message, NoMessage, BotStep, Questions

\* The message m is done with, and no turn is left.
Ends(m) ==
    /\ Pending(m) /\ Done(m)
    /\ turn' = NoTurn
    /\ UNCHANGED <<quote, shown, ahead>>
    /\ mode' \in {mode, "human"} /\ (Upset \/ UNCHANGED upsets)
    /\ lost' \in BOOLEAN /\ (lost => lost')
    /\ \/ session' = NoSession
       \/ /\ session' = session
          /\ turn.made /\ turn.session.engine # "menu" => lost'
          /\ Quiet /\ ~lost' => ShowsStep

LEMMA EndsKeepInv ==
  ASSUME BotInv, NEW m \in Messages, Ends(m)
  PROVE  BotInv'
<1> USE DEF BotInv, Ends
<1>1. /\ message' \in [Messages -> Message] /\ message'[m].kind = "none"
      /\ \A n \in Messages \ {m} : message'[n] = message[n]
      /\ last' \in Messages \cup {None}
  BY DoneIs
<1>2. session' \in Session /\ AnswersInOrder(session')
  BY NewSessions, NewSessionsRight DEF TypeOK
<1>3. TypeOK'
  BY <1>1, <1>2, NewTurns, UpsetsBounded DEF TypeOK
<1>4. TurnsClean' /\ AgentKnows'
  BY NewTurns DEF TurnsClean, AgentKnows
<1>5. SessionsPayRight'
  BY NewTurns, NewSessionsRight DEF SessionsPayRight
<1>6. AnswersInOrder(session)' /\ AnswersInOrder(turn.session)'
  BY <1>2, NewTurns, NewSessionsRight
<1>7. AnswersToThePoint'
  <2> SUFFICES ASSUME Quiet, ~lost' PROVE AnswersToThePoint'
    BY DEF AnswersToThePoint, Quiet
  <2>1. \A n \in Messages : Pending(n) => n = m
    BY OnlyOne
  <2>2. \A n \in Messages : message'[n].kind = "none"
    BY <1>1, <2>1 DEF Pending
  <2>3. ShowsStep'
    BY NewSessions DEF ShowsStep
  <2>4. ~session'.stray
    BY NewSessions DEF AnswersToThePoint
  <2> QED BY <2>2, <2>3, <2>4, NewTurns, NewSessions DEF AnswersToThePoint, Pending
<1> QED BY <1>3, <1>4, <1>5, <1>6, <1>7

\* The client writes.
LEMMA WriteKeepsInv ==
  ASSUME BotInv, NEW m \in Messages, Write(m)
  PROVE  BotInv'
<1> USE DEF BotInv
<1>1. PICK kind \in {"text", "person", "restart"} :
        message' = [message EXCEPT ![m] = [kind |-> kind, about |-> shown]]
  BY DEF Write
<1>2. /\ message[m].kind = "none" /\ turn.of # m
      /\ UNCHANGED <<session, last, quote, turn, mode, shown, lost>>
      /\ Upset \/ UNCHANGED upsets
      /\ ahead' \in BOOLEAN /\ (ahead => ahead') /\ (Busy => ahead')
  BY DEF Write, TypeOK
<1>3. /\ message' \in [Messages -> Message]
      /\ message'[m].kind = kind /\ message'[m].about = shown
      /\ \A n \in Messages \ {m} : message'[n] = message[n]
  BY <1>1 DEF TypeOK, Message
<1>4. TypeOK'
  BY <1>2, <1>3, UpsetsBounded DEF TypeOK
<1>5. TurnsClean' /\ AgentKnows' /\ SessionsPayRight'
  BY <1>2, <1>3 DEF TurnsClean, AgentKnows, SessionsPayRight
<1>6. AnswersToThePoint'
  <2> SUFFICES ASSUME Quiet, ~Busy PROVE AnswersToThePoint'
    BY <1>2 DEF AnswersToThePoint, Quiet
  <2>1. turn.pc = "none" /\ \A n \in Messages : message[n].kind = "none"
    BY DEF Busy
  <2>2. ShowsStep
    BY <2>1 DEF AnswersToThePoint, Pending
  <2>3. \A n \in Messages \ {m} : message'[n].kind = "none"
    BY <1>3, <2>1
  <2>4. ShowsStep'
    BY <1>2, <2>2 DEF ShowsStep
  <2>5. session.engine = "menu" => message'[m].about = session.step
    BY <1>3, <2>2 DEF ShowsStep
  <2> QED BY <1>2, <2>1, <2>3, <2>4, <2>5 DEF AnswersToThePoint, Pending
<1> QED BY <1>2, <1>4, <1>5, <1>6

\* A message that was answered is dropped.
LEMMA RepeatedKeepsInv ==
  ASSUME BotInv, NEW m \in Messages, Repeated(m)
  PROVE  BotInv'
<1>1. turn = NoTurn /\ turn' = turn /\ Pending(m) /\ last = m /\ Done(m)
  BY DEF Repeated, BotInv, TurnsClean, Pending
<1>2. UNCHANGED <<session, quote, mode, shown, upsets, ahead, lost>>
  BY DEF Repeated
<1>3. Quiet => ShowsStep
  BY <1>1 DEF BotInv, AnswersToThePoint
<1>4. Ends(m)
  BY <1>1, <1>2, <1>3, NewTurns DEF Ends, BotInv, TypeOK
<1> QED BY <1>4, EndsKeepInv

\* The client asks for a person.
LEMMA AskForPersonKeepsInv ==
  ASSUME BotInv, NEW m \in Messages, AskForPerson(m)
  PROVE  BotInv'
<1>1. turn = NoTurn /\ Pending(m) /\ last # m /\ HandOver(m, FALSE) /\ UNCHANGED quote
  BY DEF AskForPerson, Waits, Pending, BotInv, TurnsClean
<1> QED BY <1>1, NewTurns, HandOverKeepsInv

\* The session of the turn takes the place of the last one.
LEMMA SaveKeepsInv ==
  ASSUME BotInv, Save
  PROVE  BotInv'
<1> USE DEF BotInv
<1> DEFINE t == [NoTurn EXCEPT !.pc = "ended", !.of = turn.of]
<1>1. /\ turn.pc = "saving" /\ session' = turn.session /\ last' = turn.of
      /\ turn' = t /\ UNCHANGED <<quote, message, mode, shown, upsets, ahead, lost>>
  BY DEF Save
<1>2. turn \in Turn /\ turn.session \in Session /\ turn.of \in Messages /\ Pending(turn.of)
  BY <1>1 DEF TypeOK, Turn, TurnsClean, Pending
<1>3. /\ t \in Turn /\ t.pc = "ended" /\ t.of = turn.of /\ t.session = NoSession
      /\ t.made = FALSE
  BY <1>2, NewTurns DEF Turn
<1>4. t = [NoTurn EXCEPT !.pc = "ended", !.of = t.of]
  BY <1>3
<1> HIDE DEF t
<1>5. TypeOK'
  BY <1>1, <1>2, <1>3 DEF TypeOK
<1>6. TurnsClean' /\ AgentKnows'
  BY <1>1, <1>2, <1>3, <1>4, NewSessions DEF TurnsClean, AgentKnows, Pending
<1>7. SessionsPayRight'
  BY <1>1, <1>3 DEF SessionsPayRight
<1>8. AnswersInOrder(session)' /\ AnswersInOrder(turn.session)'
  BY <1>1, <1>3, NewSessionsRight
<1>9. AnswersToThePoint'
  <2> SUFFICES ASSUME Quiet PROVE AnswersToThePoint'
    BY <1>1 DEF AnswersToThePoint, Quiet
  <2>1. \A n \in Messages : Pending(n) => n = turn.of
    BY <1>2, OnlyOne
  <2>2. \A n \in Messages : Pending(n)' <=> Pending(n)
    BY <1>1 DEF Pending
  <2>3. ShowsStep' /\ ~session'.stray
    BY <1>1 DEF AnswersToThePoint, ShowsStep
  <2> QED BY <1>1, <1>2, <1>3, <2>1, <2>2, <2>3, NewSessions DEF AnswersToThePoint, Pending
<1> QED BY <1>1, <1>5, <1>6, <1>7, <1>8, <1>9

\* A turn ends, or is given up.
LEMMA TurnEndsKeepsInv ==
  ASSUME BotInv, EndTurn \/ HandsOver \/ GiveUp
  PROVE  BotInv'
<1> DEFINE m == turn.of
<1>1. m \in Messages /\ Pending(m)
  BY DEF EndTurn, HandsOver, GiveUp, BotInv, TurnsClean, Pending
<1>2. turn.pc = "ended" => ~turn.made
  BY DEF BotInv, TurnsClean, NoTurn
<1>3. turn.pc \in {"agent", "saving", "handing", "ended", "none"} /\ mode \in {"bot", "human"}
      /\ lost \in BOOLEAN /\ turn.made \in BOOLEAN
  BY DEF BotInv, TypeOK, Turn
<1>4. CASE EndTurn
  <2>1. Quiet => ShowsStep
    BY <1>4 DEF EndTurn, BotInv, AnswersToThePoint
  <2>2. Ends(m)
    BY <1>1, <1>2, <1>3, <1>4, <2>1 DEF EndTurn, Ends
  <2> QED BY <1>1, <2>2, EndsKeepInv
<1>5. CASE HandsOver
  <2>1. Ends(m)
    BY <1>1, <1>3, <1>5 DEF HandsOver, Ends
  <2> QED BY <1>1, <2>1, EndsKeepInv
<1>6. CASE GiveUp
  <2>1. lost' = (lost \/ turn.pc \in {"saving", "handing"} \/ turn.made)
    BY <1>6 DEF GiveUp
  <2>2. Quiet /\ ~lost' => ShowsStep
    <3> SUFFICES ASSUME Quiet, ~lost' PROVE ShowsStep
      OBVIOUS
    <3>1. CASE turn.pc = "ended"
      BY <3>1 DEF BotInv, AnswersToThePoint
    <3>2. CASE turn.pc = "agent"
      <4>1. ~turn.made
        BY <2>1
      <4> QED BY <1>1, <3>2, <4>1 DEF BotInv, AnswersToThePoint, ShowsStep
    <3> QED BY <1>3, <1>6, <2>1, <3>1, <3>2 DEF GiveUp
  <2>3. Ends(m)
    BY <1>1, <1>3, <1>6, <2>1, <2>2 DEF GiveUp, Ends
  <2> QED BY <1>1, <2>3, EndsKeepInv
<1> QED BY <1>4, <1>5, <1>6

\* A turn whose worker is lost leaves its message.
LEMMA LoseWorkerKeepsInv ==
  ASSUME BotInv, LoseWorker
  PROVE  BotInv'
<1> USE DEF BotInv
<1>1. /\ turn.pc # "none" /\ turn' = NoTurn /\ Upset
      /\ lost' = (\/ lost
                  \/ turn.made /\ turn.session.engine # "menu"
                  \/ turn.pc \in {"saving", "handing"} /\ message[turn.of].kind = "restart")
      /\ UNCHANGED <<session, last, quote, message, mode, shown, ahead>>
  BY DEF LoseWorker
<1>2. /\ turn.of \in Messages /\ Pending(turn.of)
      /\ turn.pc \in {"agent", "saving", "handing", "ended"}
  BY <1>1 DEF TurnsClean, Pending, TypeOK, Turn
<1>3. TypeOK'
  BY <1>1, NewTurns, UpsetsBounded DEF TypeOK
<1>4. TurnsClean' /\ AgentKnows'
  BY <1>1, NewTurns DEF TurnsClean, AgentKnows
<1>5. SessionsPayRight'
  BY <1>1, NewTurns DEF SessionsPayRight
<1>6. AnswersInOrder(session)' /\ AnswersInOrder(turn.session)'
  BY <1>1, NewTurns, NewSessionsRight
<1>7. AnswersToThePoint'
  <2> SUFFICES ASSUME Quiet, ~lost' PROVE AnswersToThePoint'
    BY <1>1 DEF AnswersToThePoint, Quiet
  <2>1. \A n \in Messages : Pending(n) => n = turn.of
    BY <1>2, OnlyOne
  <2>2. \A n \in Messages : Pending(n)' <=> Pending(n)
    BY <1>1 DEF Pending
  <2>3. ShowsStep' <=> ShowsStep
    BY <1>1 DEF ShowsStep
  <2>4. turn.made => turn.session.engine = "menu"
    BY <1>1 DEF TypeOK, Turn
  <2>5. message[turn.of].kind = "restart" => ShowsStep
    <3>1. CASE turn.pc = "agent"
      BY <1>2, <2>4, <3>1 DEF AnswersToThePoint, AgentKnows, TypeOK, Turn
    <3>2. CASE turn.pc = "ended"
      BY <3>2 DEF AnswersToThePoint
    <3> QED BY <1>1, <1>2, <3>1, <3>2
  <2> QED BY <1>1, <1>2, <2>1, <2>2, <2>3, <2>5, NewTurns, NewSessions DEF AnswersToThePoint, Pending
<1> QED BY <1>1, <1>3, <1>4, <1>5, <1>6, <1>7

\* The session is forgotten, the conversation given back, or a quote changed
\* elsewhere.
LEMMA OthersKeepInv ==
  ASSUME BotInv, Forget \/ GiveBack \/ (\E q \in Quotes : ChangeQuote(q)) \/ UNCHANGED vars
  PROVE  BotInv'
<1> USE DEF BotInv
<1>1. /\ UNCHANGED <<message, turn, shown, upsets, ahead, lost>>
      /\ mode' \in {"bot", "human"}
      /\ \/ UNCHANGED <<session, last>>
         \/ session' = NoSession /\ last' = None
  BY DEF Forget, GiveBack, ChangeQuote, vars, TypeOK
<1>2. quote' \in [Quotes -> QuoteStatus] /\ Made(quote') = Made(quote)
  <2>1. CASE quote' = quote
    BY <2>1 DEF TypeOK
  <2>2. ASSUME NEW q \in Quotes, ChangeQuote(q)
        PROVE  quote' \in [Quotes -> QuoteStatus] /\ Made(quote') = Made(quote)
    BY <2>2, QuoteGoesOn DEF ChangeQuote, TypeOK
  <2> QED BY <2>1, <2>2 DEF Forget, GiveBack, vars
<1>3. InOrder(quote') /\ \A s : PaysRight(s, quote) => PaysRight(s, quote')
  BY <1>2, SameQuotes
<1>4. TypeOK'
  BY <1>1, <1>2, NewSessions DEF TypeOK
<1>5. TurnsClean' /\ AgentKnows'
  BY <1>1 DEF TurnsClean, AgentKnows
<1>6. SessionsPayRight'
  BY <1>1, <1>3, NewSessionsRight DEF SessionsPayRight
<1>7. AnswersInOrder(session)' /\ AnswersInOrder(turn.session)'
  BY <1>1, NewSessionsRight
<1>8. AnswersToThePoint'
  <2> SUFFICES ASSUME Quiet PROVE AnswersToThePoint'
    BY <1>1 DEF AnswersToThePoint, Quiet
  <2>1. \A n \in Messages : Pending(n)' <=> Pending(n)
    BY <1>1 DEF Pending
  <2>2. CASE UNCHANGED <<session, last>>
    <3>1. ShowsStep' <=> ShowsStep
      BY <1>1, <2>2 DEF ShowsStep
    <3> QED BY <1>1, <2>1, <2>2, <3>1 DEF AnswersToThePoint
  <2>3. CASE session' = NoSession /\ last' = None
    <3>1. ShowsStep' /\ ~session'.stray /\ session'.engine # "menu"
      BY <2>3, NewSessions DEF ShowsStep
    <3>2. turn.pc \in {"agent", "saving", "handing"} => last' # turn.of
      BY <2>3, BotConstants DEF TurnsClean
    <3> QED BY <1>1, <2>1, <3>1, <3>2 DEF AnswersToThePoint
  <2> QED BY <1>1, <2>2, <2>3
<1> QED BY <1>3, <1>4, <1>5, <1>6, <1>7, <1>8

-----------------------------------------------------------------------------
(* The theorems.                                                           *)

\* At first there is no session, no quote and no message.
LEMMA InitInv == ASSUME Init PROVE BotInv
<1> USE DEF Init
<1>1. TypeOK
  <2>1. session \in Session /\ turn \in Turn
    BY NewSessions, NewTurns
  <2>2. quote \in [Quotes -> QuoteStatus] /\ message \in [Messages -> Message]
    BY DEF QuoteStatus, Message, NoMessage
  <2>3. upsets \in 0 .. MaxUpsets
    BY BotConstants
  <2> QED BY <2>1, <2>2, <2>3 DEF TypeOK
<1>2. Made(quote) = {}
  BY DEF Made
<1>3. InOrder(quote)
  BY <1>2 DEF InOrder
<1>4. TurnsClean /\ AgentKnows
  BY NewTurns DEF TurnsClean, AgentKnows
<1>5. SessionsPayRight /\ AnswersInOrder(session) /\ AnswersInOrder(turn.session)
  BY NewTurns, NewSessionsRight DEF SessionsPayRight
<1>6. AnswersToThePoint
  BY NewTurns, NewSessions DEF AnswersToThePoint, Pending, NoMessage, ShowsStep
<1> QED BY <1>1, <1>3, <1>4, <1>5, <1>6 DEF BotInv

\* Every step of the conversation, and a stutter.
LEMMA NextKeepsInv == ASSUME BotInv, [Next]_vars PROVE BotInv'
<1>1. ASSUME NEW m \in Messages,
             \/ Write(m) \/ Repeated(m) \/ AskForPerson(m) \/ MenuTurn(m) \/ StartAgent(m)
      PROVE  BotInv'
  BY <1>1, WriteKeepsInv, RepeatedKeepsInv, AskForPersonKeepsInv, MenuTurnKeepsInv,
     StartAgentKeepsInv
<1>2. CASE AgentTurn
  BY <1>2, AgentTurnKeepsInv
<1>3. CASE Save \/ EndTurn \/ HandsOver \/ GiveUp \/ LoseWorker
  BY <1>3, SaveKeepsInv, TurnEndsKeepsInv, LoseWorkerKeepsInv
<1>4. CASE Forget \/ GiveBack \/ (\E q \in Quotes : ChangeQuote(q)) \/ UNCHANGED vars
  BY <1>4, OthersKeepInv
<1> QED BY <1>1, <1>2, <1>3, <1>4 DEF Next

\* Sessions and rows keep to their fields, and no session counts MaxMisses misses
\* (HandleIncomingMessage._on_miss hands over at the last of them).
THEOREM TypeCorrect == Spec => []TypeOK
<1>1. BotInv => TypeOK
  BY DEF BotInv
<1> QED BY <1>1, InitInv, NextKeepsInv, PTL DEF Spec

\* A step of the menus that makes a quote.
LEMMA MenusQuote ==
  ASSUME BotInv, NEW q \in Quotes, [Next]_vars, QuotedByMenus(q)
  PROVE  \E m \in Messages : \E step \in BotStep : \E questions \in SUBSET Questions :
            /\ InMenus(m, step) /\ Required \subseteq session.answered
            /\ CreateQuote(m, Answered(m, questions))
<1>1. /\ quote[q] = "ABSENT" /\ quote'[q] = "SENT" /\ quote' # quote
      /\ turn'.session.engine = "menu"
  BY DEF QuotedByMenus
<1>2. ASSUME NEW s, NEW status, status # "SENT", quote' = [quote EXCEPT ![s] = status]
      PROVE  FALSE
  BY <1>1, <1>2 DEF BotInv, TypeOK
<1>3. ASSUME NEW m \in Messages, NEW step \in Questions, OnLastAnswer(m, step)
      PROVE  /\ step \in BotStep /\ {step} \in SUBSET Questions
             /\ InMenus(m, step) /\ Required \subseteq session.answered
             /\ CreateQuote(m, Answered(m, {step}))
  <2>1. InMenus(m, step) /\ step \in {"TIME", "OBSERVATIONS"} /\ Complete(step, session.answered)
    BY <1>3 DEF OnLastAnswer
  <2>2. Required \subseteq session.answered
    BY <2>1, MenuSession, CompleteHasAll
  <2> QED BY <1>3, <2>1, <2>2 DEF OnLastAnswer, BotStep
<1>4. ASSUME NEW m \in Messages, OnAlternatives(m)
      PROVE  /\ InMenus(m, "ALTERNATIVES") /\ Required \subseteq session.answered
             /\ CreateQuote(m, Answered(m, {"DATE", "TIME"}))
             /\ "ALTERNATIVES" \in BotStep /\ {"DATE", "TIME"} \in SUBSET Questions
  <2>1. InMenus(m, "ALTERNATIVES")
    BY <1>4 DEF OnAlternatives
  <2>2. Required \subseteq session.answered
    BY <2>1, MenuSession, CompleteHasAll
  <2> QED BY <1>1, <1>4, <2>1, <2>2 DEF OnAlternatives, BotStep, Questions
<1>5. ASSUME AgentTurn PROVE FALSE
  <2>1. CreateByAgent
    BY <1>1, <1>2, <1>5 DEF AgentTurn, Says, PayByAgent, StartPayment, OtherTool, AgentHandsOver,
                            ModelFails
  <2>2. PICK p \in Quotes : AfterTool(Quoted(turn.session, p), TRUE)
    BY <2>1 DEF CreateByAgent
  <2>3. turn \in Turn /\ turn.session \in Session /\ turn.session.engine = "agent"
    BY <2>2, AgentSessionIs DEF AfterTool
  <2>4. Quoted(turn.session, p).engine = "agent"
    BY <2>3, QuotedIs
  <2>5. turn'.session = Quoted(turn.session, p)
    BY <2>2, <2>3 DEF AfterTool, Turn
  <2> QED BY <1>1, <2>4, <2>5
<1>6. PICK m \in Messages : (\E step \in Questions : OnLastAnswer(m, step)) \/ OnAlternatives(m)
  <2>1. ASSUME NEW m \in Messages, OnConfirm(m) PROVE FALSE
    BY <1>1, <1>2, <2>1 DEF OnConfirm, StartPayment
  <2> QED BY <1>1, <1>2, <1>5, <2>1
          DEF Next, MenuTurn, Write, Repeated, AskForPerson, StartAgent, Ask, Misunderstand, OnPaid,
              Save, EndTurn, HandsOver, GiveUp, LoseWorker, Forget, GiveBack, ChangeQuote, vars
<1> QED BY <1>3, <1>4, <1>6

\* So no quote of the menus lacks an answer.
LEMMA StepAnsweredBefore == ASSUME BotInv, [Next]_vars PROVE AnsweredBefore
<1> SUFFICES ASSUME NEW q \in Quotes, QuotedByMenus(q), Quiet
             PROVE  Required \subseteq turn'.session.answered /\ ~turn'.session.stray
  BY DEF AnsweredBefore, Required
<1>1. PICK m \in Messages, step \in BotStep, questions \in SUBSET Questions :
        /\ InMenus(m, step) /\ Required \subseteq session.answered
        /\ CreateQuote(m, Answered(m, questions))
  BY MenusQuote
<1> DEFINE a == Answered(m, questions)
<1>2. a \in Session /\ Required \subseteq a.answered /\ ~a.stray
  <2>1. /\ a \in Session /\ a.answered = session.answered \cup questions
        /\ a.stray = (session.stray \/ message[m].about # step)
    BY <1>1, AnswerTo
  <2>2. ~session.stray /\ message[m].about = step
    BY <1>1, MenuSession
  <2> QED BY <1>1, <2>1, <2>2
<1> HIDE DEF a
<1>3. PICK p \in Quotes : Reply(m, [Quoted(a, p) EXCEPT !.step = "CONFIRM"], "CONFIRM", TRUE)
  BY <1>1 DEF CreateQuote, QuotedByMenus, a
<1> DEFINE s == [Quoted(a, p) EXCEPT !.step = "CONFIRM"]
<1>4. s \in Session /\ s.answered = a.answered /\ s.stray = a.stray
  <2> DEFINE b == Quoted(a, p)
  <2>1. b \in Session /\ b.answered = a.answered /\ b.stray = a.stray
    BY <1>2, QuotedIs
  <2> HIDE DEF b
  <2>2. LET c == [b EXCEPT !.step = "CONFIRM"]
        IN  c \in Session /\ c.answered = b.answered /\ c.stray = b.stray
    BY <2>1, StepIs DEF BotStep
  <2> QED BY <2>1, <2>2 DEF b
<1>5. turn'.session = s
  BY <1>3, NewTurns DEF Reply, Turn
<1> QED BY <1>2, <1>4, <1>5

\* A quote of the menus has an answer to every question that is always asked, given
\* when the client had that question before his eyes (HandleIncomingMessage._advance
\* and the methods of its steps), unless he wrote ahead or a turn was not saved.
THEOREM QuotesAreOfAnswers == Spec => QuotedAsAnswered
<1>1. BotInv /\ [Next]_vars => [AnsweredBefore]_vars
  BY StepAnsweredBefore
<1> QED BY <1>1, InitInv, NextKeepsInv, PTL DEF Spec, QuotedAsAnswered

\* Who starts a payment has the newest quote in hand.
LEMMA StepPaysNewest == ASSUME BotInv, [Next]_vars PROVE PaysNewest
<1> SUFFICES ASSUME NEW q \in Quotes, quote[q] = "SENT", quote'[q] = "PAYMENT_STARTED", ~lost
             PROVE  Newest(q)
  BY DEF PaysNewest
<1>1. quote \in [Quotes -> QuoteStatus] /\ quote' # quote
  BY DEF BotInv, TypeOK
<1>2. ASSUME NEW p, NEW status, status # "PAYMENT_STARTED", quote' = [quote EXCEPT ![p] = status]
      PROVE  FALSE
  BY <1>1, <1>2
<1>3. ASSUME NEW p, StartPayment(p) PROVE p = q
  BY <1>1, <1>3 DEF StartPayment
<1>4. NewestOf(q, quote) => Newest(q)
  BY DEF NewestOf, Newest, Made, Existing
<1>5. ASSUME NEW m \in Messages, OnConfirm(m) PROVE NewestOf(q, quote)
  <2>1. InMenus(m, "CONFIRM") /\ StartPayment(session.quote)
    BY <1>1, <1>5 DEF OnConfirm
  <2>2. PaysRight(session, quote) /\ session.engine = "menu" /\ session.step = "CONFIRM"
    BY <2>1, MenuSession
  <2> QED BY <1>3, <2>1, <2>2 DEF PaysRight
<1>6. ASSUME PayByAgent PROVE NewestOf(q, quote)
  <2>1. /\ turn.pc = "agent" /\ StartPayment(turn.session.quote) /\ turn.session.quote # 0
    BY <1>6 DEF PayByAgent, AfterTool, Payable
  <2>2. PaysRight(turn.session, quote) /\ turn.session.engine = "agent"
    BY <2>1, AgentSessionIs
  <2> QED BY <1>3, <2>1, <2>2 DEF PaysRight
<1>7. (\E m \in Messages : OnConfirm(m)) \/ PayByAgent
  <2>1. ASSUME NEW m, NEW s, CreateQuote(m, s) PROVE FALSE
    BY <1>1, <1>2, <2>1 DEF CreateQuote, AddQuote
  <2>2. ASSUME AgentTurn PROVE PayByAgent
    BY <1>1, <1>2, <2>2 DEF AgentTurn, Says, CreateByAgent, AddQuote, OtherTool, AgentHandsOver,
                            ModelFails
  <2> QED BY <1>1, <1>2, <2>1, <2>2
          DEF Next, MenuTurn, Write, Repeated, AskForPerson, StartAgent, Ask, Misunderstand, OnPaid,
              OnLastAnswer, OnAlternatives, Save, EndTurn, HandsOver, GiveUp, LoseWorker, Forget,
              GiveBack, ChangeQuote, vars
<1> QED BY <1>4, <1>5, <1>6, <1>7

\* Payment starts only for the newest quote of the conversation, however often the
\* client asked for another one (link_created_quote, PayAdvanceUseCase.execute), unless
\* a turn that made one was not saved.
THEOREM PaysTheNewest == Spec => PaysNewestQuote
<1>1. BotInv /\ [Next]_vars => [PaysNewest]_vars
  BY StepPaysNewest
<1> QED BY <1>1, InitInv, NextKeepsInv, PTL DEF Spec, PaysNewestQuote

\* Only its own words end a turn of the agent that made something, or a person.
LEMMA StepStaysWithAgent == ASSUME BotInv, [Next]_vars PROVE StaysWithAgent
<1> SUFFICES ASSUME turn.pc = "agent", turn.made, turn'.pc = "saving"
             PROVE  turn'.session.engine = "agent"
  BY DEF StaysWithAgent
<1>1. turn \in Turn /\ turn.session.engine = "agent" /\ turn.changed
  BY AgentSessionIs
<1>2. ASSUME NEW m, NEW made, HandOver(m, made) PROVE FALSE
  <2>1. turn'.pc = "handing"
    BY <1>2 DEF HandOver, NoTurn
  <2> QED BY <2>1
<1>3. CASE Says
  BY <1>1, <1>3 DEF Says, Turn
<1>4. ASSUME NEW s, NEW changed, AfterTool(s, changed) PROVE FALSE
  <2>1. turn'.pc = "agent"
    BY <1>1, <1>4 DEF AfterTool, Turn
  <2> QED BY <2>1
<1>5. ASSUME AgentTurn PROVE Says
  BY <1>1, <1>2, <1>4, <1>5 DEF AgentTurn, CreateByAgent, PayByAgent, OtherTool, AgentHandsOver, ModelFails
<1>6. AgentTurn
  <2>1. ASSUME turn'.pc \in {"none", "ended"} PROVE FALSE
    BY <2>1
  <2>2. turn' # turn
    OBVIOUS
  <2>3. ASSUME NEW m, NEW step, InMenus(m, step) PROVE FALSE
    BY <2>3 DEF InMenus, Waits
  <2>4. ~(Save \/ EndTurn \/ HandsOver \/ GiveUp \/ LoseWorker)
    BY <2>1, NewTurns DEF Save, EndTurn, HandsOver, GiveUp, LoseWorker
  <2> QED BY <2>2, <2>3, <2>4
          DEF Next, MenuTurn, Ask, OnLastAnswer, Misunderstand, OnAlternatives, OnConfirm, OnPaid,
              Write, Repeated, AskForPerson, StartAgent, Waits, Forget, GiveBack, ChangeQuote, vars
<1> QED BY <1>3, <1>5, <1>6

\* A turn of the agent that made a quote or started a payment never falls back to
\* the menus, which would begin anew (ConversationAgent.run_turn, its changed_state).
THEOREM EffectsStayWithAgent == Spec => NoFallbackAfterEffects
<1>1. BotInv /\ [Next]_vars => [StaysWithAgent]_vars
  BY StepStaysWithAgent
<1> QED BY <1>1, InitInv, NextKeepsInv, PTL DEF Spec, NoFallbackAfterEffects
=============================================================================

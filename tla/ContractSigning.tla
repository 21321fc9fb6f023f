--------------------------- MODULE ContractSigning ---------------------------
(***************************************************************************)
(* The contract of one event and its remote signature: table contracts, the *)
(* staff operations of ManageContracts and the public ones of SignContract. *)
(*                                                                          *)
(* Every operation locks the row of the event and reads the contract again  *)
(* under that lock, so one action is one transaction, and events do not     *)
(* meet: one event is enough.  What the client holds, codes and proofs, may *)
(* come back at any later moment.                                           *)
(*                                                                          *)
(* Contracts, links and codes are numbered as they are made (the token hash *)
(* and the OTP hash are fresh each time; 0 is NULL).  A document is told    *)
(* apart by the observations that were printed in it.  Times are kept as    *)
(* what remains of them: 0 is a deadline that has come.                     *)
(***************************************************************************)
EXTENDS Integers

CONSTANTS
    Notes,         \* texts of client_observations
    NoDocument,    \* pdf_storage_path IS NULL
    MaxAttempts,   \* SIGNATURE_OTP_MAX_ATTEMPTS
    MaxRequests,   \* codes that one window admits
    LinkLife,      \* SIGNATURE_LINK_TTL_HOURS
    CodeLife,      \* SIGNATURE_OTP_TTL_MINUTES
    ProofLife,     \* SIGNATURE_OTP_PROOF_TTL_MINUTES
    Cooldown,      \* wait between two requests
    Window,        \* length of the window of requests
    MaxContracts,  \* bound: contracts ever made for the event
    MaxLinks,      \* bound: links ever made
    MaxCodes       \* bound: codes ever requested

ASSUME SigningConstants ==
    /\ NoDocument \notin Notes
    /\ MaxAttempts \in Nat \ {0}
    /\ MaxRequests \in Nat \ {0}
    /\ LinkLife \in Nat \ {0}
    /\ CodeLife \in Nat \ {0}
    /\ ProofLife \in Nat \ {0}
    /\ Cooldown \in Nat \ {0}
    /\ Window \in Nat \ {0}
    /\ MaxContracts \in Nat
    /\ MaxLinks \in Nat
    /\ MaxCodes \in Nat

VARIABLES
    event,     \* the status of the event
    notes,     \* its client_observations
    contract,  \* contract[c]: the row of c
    links,     \* links made so far
    codes,     \* codes requested so far
    proof,     \* proof[k]: the best proof the client got for code k
    queue,     \* secrets that wait for their first dispatch in the outbox
    (* History: what the properties remember. *)
    offered,   \* offered[l]: the document that link l opened when it was made
    guesses,   \* guesses[k]: wrong guesses at code k
    lastCode,  \* lastCode[c]: the last code requested for c
    signature  \* signature[c]: the link and the code that signed c

history == <<offered, guesses, lastCode, signature>>
vars == <<event, notes, contract, links, codes, proof, queue, history>>

-----------------------------------------------------------------------------
Contracts == 1 .. MaxContracts
Links == 1 .. MaxLinks
Codes == 1 .. MaxCodes
None == 0

Documents == Notes \cup {NoDocument}

Contract ==
    [status : {"ABSENT", "DRAFT", "ISSUED", "SIGNED", "VOIDED"},
     document : Documents,            \* pdf_storage_path
     link : Links \cup {None},        \* signature_token_hash
     linkLeft : 0 .. LinkLife,        \* signature_token_expires_at - now
     code : Codes \cup {None},        \* otp_hash
     codeLeft : 0 .. CodeLife,        \* otp_expires_at - now
     attempts : 0 .. MaxAttempts,     \* otp_attempts
     requests : 0 .. MaxRequests,     \* otp_request_count
     cooldown : 0 .. Cooldown,        \* otp_last_requested_at + 60 s - now
     window : 0 .. Window]            \* otp_window_started_at + 10 min - now

AbsentContract ==
    [status |-> "ABSENT", document |-> NoDocument, link |-> None, linkLeft |-> 0,
     code |-> None, codeLeft |-> 0, attempts |-> 0, requests |-> 0, cooldown |-> 0,
     window |-> 0]

\* A secret on its way to the client: a link, or a code (and then its link).
Secret == [contract : Contracts, link : Links, code : Codes \cup {None}]

TypeOK ==
    /\ event \in {"AWAITING_SIGNATURE", "SCHEDULED", "IN_PROGRESS"}
    /\ notes \in Notes
    /\ contract \in [Contracts -> Contract]
    /\ links \in 0 .. MaxLinks
    /\ codes \in 0 .. MaxCodes
    /\ proof \in [Codes -> [link : Links \cup {None}, left : 0 .. ProofLife]]
    /\ queue \in SUBSET Secret
    /\ offered \in [Links -> Documents]
    /\ guesses \in [Codes -> Nat]
    /\ lastCode \in [Contracts -> Codes \cup {None}]
    /\ signature \in [Contracts -> [link : Links \cup {None}, code : Codes \cup {None}]]

-----------------------------------------------------------------------------
\* The booking leaves the event with no contract, with a draft, or, before the
\* links existed, with an issued contract that has none.
FirstContracts ==
    {AbsentContract,
     [AbsentContract EXCEPT !.status = "DRAFT"],
     [AbsentContract EXCEPT !.status = "ISSUED", !.document = notes]}

Init ==
    /\ event = "AWAITING_SIGNATURE"
    /\ notes \in Notes
    /\ \E first \in FirstContracts :
          contract = [c \in Contracts |-> IF c = 1 THEN first ELSE AbsentContract]
    /\ links = 0
    /\ codes = 0
    /\ proof = [k \in Codes |-> [link |-> None, left |-> 0]]
    /\ queue = {}
    /\ offered = [l \in Links |-> NoDocument]
    /\ guesses = [k \in Codes |-> 0]
    /\ lastCode = [c \in Contracts |-> None]
    /\ signature = [c \in Contracts |-> [link |-> None, code |-> None]]

Active(c) == contract[c].status \notin {"ABSENT", "VOIDED"}
Editable(c) == contract[c].status \in {"DRAFT", "ISSUED"}

\* Mutant: a pending code outlives the link it was made for.
WithoutSecrets_OfCodes(c, waiting) == {m \in waiting : m.contract # c \/ m.code # None}

\* invalidate_pending_links
WithoutSecrets(c, waiting) == {m \in waiting : m.contract # c}

\* Mutant: the new link leaves the code alive.
WithLink_KeepsCode(row, link) ==
    [row EXCEPT !.link = link, !.linkLeft = LinkLife, !.attempts = 0]

\* Contract.replace_link
WithLink(row, link) ==
    [row EXCEPT !.link = link, !.linkLeft = LinkLife, !.code = None, !.codeLeft = 0,
                !.attempts = 0]

\* save
SaveContract(c, row) == contract' = [contract EXCEPT ![c] = row]

\* _link and save: contract c, printed with text, gets its next link.
SendLink(c, row, text) ==
    /\ links < MaxLinks
    /\ links' = links + 1
    /\ SaveContract(c, WithLink(row, links + 1))
    /\ queue' = WithoutSecrets(c, queue)
                    \cup {[contract |-> c, link |-> links + 1, code |-> None]}
    /\ offered' = [offered EXCEPT ![links + 1] = text]
    /\ UNCHANGED <<guesses, lastCode, signature>>

Printed(row, text) == [row EXCEPT !.status = "ISSUED", !.document = text]

-----------------------------------------------------------------------------
(* The staff: ManageContracts.                                             *)

\* issue_for_event makes the contract of an event that has none ...
IssueNew(c) ==
    /\ event = "AWAITING_SIGNATURE"
    /\ contract[c].status = "ABSENT"
    /\ \A d \in Contracts : ~Active(d)
    /\ \A d \in 1 .. c - 1 : contract[d].status # "ABSENT"
    /\ SendLink(c, Printed(AbsentContract, notes), notes)
    /\ UNCHANGED <<event, notes, codes, proof>>

\* ... prints a draft again, and adopts the document of an issued contract that
\* has no link.  With a link there is nothing to do.
IssueExisting(c) ==
    /\ event = "AWAITING_SIGNATURE"
    /\ contract[c].status = "DRAFT" \/ (contract[c].status = "ISSUED" /\ contract[c].link = None)
    /\ LET text == IF contract[c].status = "DRAFT" THEN notes ELSE contract[c].document
       IN  SendLink(c, Printed(contract[c], text), text)
    /\ UNCHANGED <<event, notes, codes, proof>>

Resend(c) ==
    /\ event = "AWAITING_SIGNATURE"
    /\ contract[c].status = "ISSUED"
    /\ SendLink(c, contract[c], contract[c].document)
    /\ UNCHANGED <<event, notes, codes, proof>>

\* Mutant: the link survives the new document.
UpdateObservations_KeepsLink(c, text) ==
    /\ event = "AWAITING_SIGNATURE"
    /\ Editable(c)
    /\ text # notes
    /\ notes' = text
    /\ SaveContract(c, [contract[c] EXCEPT !.document = text])
    /\ UNCHANGED <<event, links, codes, proof, queue, history>>

\* A draft gets its document and stays a draft; an issued contract gets a link
\* to the new document.
UpdateObservations(c, text) ==
    /\ event = "AWAITING_SIGNATURE"
    /\ Editable(c)
    /\ text # notes
    /\ notes' = text
    /\ \/ /\ contract[c].status = "DRAFT"
          /\ SaveContract(c, [contract[c] EXCEPT !.document = text])
          /\ UNCHANGED <<links, queue, history>>
       \/ /\ contract[c].status = "ISSUED"
          /\ SendLink(c, Printed(contract[c], text), text)
    /\ UNCHANGED <<event, codes, proof>>

\* Contract.void
Voided(row) == [WithLink(row, None) EXCEPT !.status = "VOIDED", !.linkLeft = 0]

\* A signed contract can be voided with a cancelled event only, and no code
\* cancels one.
Void(c) ==
    /\ Editable(c)
    /\ event # "IN_PROGRESS"
    /\ SaveContract(c, Voided(contract[c]))
    /\ queue' = WithoutSecrets(c, queue)
    /\ UNCHANGED <<event, notes, links, codes, proof, history>>

-----------------------------------------------------------------------------
(* The client: SignContract, by the link of contract c.                    *)

\* resolve
Resolves(c) ==
    /\ contract[c].link # None
    /\ contract[c].status = "ISSUED"
    /\ event = "AWAITING_SIGNATURE"
    /\ contract[c].linkLeft > 0

\* The row with a window open for one more request.
WindowOpen(row) ==
    IF row.window = 0 THEN [row EXCEPT !.window = Window, !.requests = 0] ELSE row

MayRequest(c) ==
    /\ contract[c].cooldown = 0
    /\ WindowOpen(contract[c]).requests < MaxRequests

WithCode(row, code) ==
    [row EXCEPT !.code = code, !.codeLeft = CodeLife, !.attempts = 0,
                !.cooldown = Cooldown, !.requests = row.requests + 1]

RequestOtp(c) ==
    /\ Resolves(c)
    /\ MayRequest(c)
    /\ codes < MaxCodes
    /\ codes' = codes + 1
    /\ SaveContract(c, WithCode(WindowOpen(contract[c]), codes + 1))
    /\ queue' = WithoutSecrets(c, queue)
                    \cup {[contract |-> c, link |-> contract[c].link, code |-> codes + 1]}
    /\ lastCode' = [lastCode EXCEPT ![c] = codes + 1]
    /\ UNCHANGED <<event, notes, links, proof, offered, guesses, signature>>

CodeIsLive(row) == row.code # None /\ row.codeLeft > 0

\* verify_otp with the right code: a proof of it, for the link of now.
VerifyRight(c) ==
    /\ Resolves(c)
    /\ contract[c].attempts < MaxAttempts
    /\ CodeIsLive(contract[c])
    /\ proof' = [proof EXCEPT ![contract[c].code] =
                    [link |-> contract[c].link, left |-> ProofLife]]
    /\ UNCHANGED <<event, notes, contract, links, codes, queue, history>>

\* A wrong guess counts; the last one admitted takes the code away.
Guessed(row) ==
    [row EXCEPT !.attempts = row.attempts + 1,
                !.code = IF row.attempts + 1 >= MaxAttempts THEN None ELSE row.code]

VerifyWrong(c) ==
    /\ Resolves(c)
    /\ contract[c].attempts < MaxAttempts
    /\ CodeIsLive(contract[c])
    /\ SaveContract(c, Guessed(contract[c]))
    /\ guesses' = [guesses EXCEPT ![contract[c].code] = guesses[contract[c].code] + 1]
    /\ UNCHANGED <<event, notes, links, codes, proof, queue, offered, lastCode, signature>>

\* Mutant: a proof is good for any code of its link.
ProofIsValid_AnyCode(c, k) ==
    /\ proof[k].left > 0
    /\ proof[k].link = contract[c].link
    /\ contract[c].attempts < MaxAttempts

\* The claims of the proof against the row that was read under the lock.
ProofIsValid(c, k) ==
    /\ proof[k].left > 0
    /\ proof[k].link = contract[c].link
    /\ contract[c].code = k
    /\ contract[c].attempts < MaxAttempts

\* Mutant: the signature leaves the event as it was.
Scheduled_Unchanged(status) == status

\* schedule_event
Scheduled(status) == "SCHEDULED"

Signed(row) ==
    [row EXCEPT !.status = "SIGNED", !.link = None, !.linkLeft = 0, !.code = None,
                !.codeLeft = 0]

\* sign: document, evidence, contract and event in one transaction.  Without a
\* seal nothing changes.
Sign(c, k) ==
    /\ Resolves(c)
    /\ ProofIsValid(c, k)
    /\ contract[c].codeLeft > 0
    /\ contract[c].document # NoDocument
    /\ SaveContract(c, Signed(contract[c]))
    /\ queue' = WithoutSecrets(c, queue)
    /\ event' = Scheduled(event)
    /\ signature' = [signature EXCEPT ![c] = [link |-> contract[c].link, code |-> k]]
    /\ UNCHANGED <<notes, links, codes, proof, offered, guesses, lastCode>>

-----------------------------------------------------------------------------
(* The rest of the system.                                                 *)

\* The show starts (start_event).
StartEvent ==
    /\ event = "SCHEDULED"
    /\ event' = "IN_PROGRESS"
    /\ UNCHANGED <<notes, contract, links, codes, proof, queue, history>>

\* The outbox dispatches a secret, or gives it up.
DispatchSecret(m) ==
    /\ m \in queue
    /\ queue' = queue \ {m}
    /\ UNCHANGED <<event, notes, contract, links, codes, proof, history>>

Less(left) == IF left > 0 THEN left - 1 ELSE 0

Tick ==
    /\ contract' = [c \in Contracts |->
                       [contract[c] EXCEPT !.linkLeft = Less(contract[c].linkLeft),
                                           !.codeLeft = Less(contract[c].codeLeft),
                                           !.cooldown = Less(contract[c].cooldown),
                                           !.window = Less(contract[c].window)]]
    /\ proof' = [k \in Codes |-> [proof[k] EXCEPT !.left = Less(proof[k].left)]]
    /\ UNCHANGED <<event, notes, links, codes, queue, offered, guesses, lastCode, signature>>

-----------------------------------------------------------------------------
StaffStep(c) ==
    \/ IssueNew(c)
    \/ IssueExisting(c)
    \/ Resend(c)
    \/ \E text \in Notes : UpdateObservations(c, text)
    \/ Void(c)

ClientStep(c) ==
    \/ RequestOtp(c)
    \/ VerifyRight(c)
    \/ VerifyWrong(c)
    \/ \E k \in Codes : Sign(c, k)

Next ==
    \/ \E c \in Contracts : StaffStep(c)
    \/ \E c \in Contracts : ClientStep(c)
    \/ StartEvent
    \/ \E m \in queue : DispatchSecret(m)
    \/ Tick

Spec == Init /\ [][Next]_vars

-----------------------------------------------------------------------------
(* Safety.                                                                 *)

\* An event leaves AWAITING_SIGNATURE exactly when one contract of it is
\* signed; and at no moment has it two contracts that are not voided, whatever
\* is issued, voided and issued again.
ScheduledIffSigned ==
    /\ event # "AWAITING_SIGNATURE" <=> \E c \in Contracts : contract[c].status = "SIGNED"
    /\ \A c, d \in Contracts : Active(c) /\ Active(d) => c = d

\* The client signs the very document that the link opened when it was made,
\* and that document carries the observations of the event, now and after the
\* signature: an edit never slips under a link already sent.
SignedAsOffered ==
    \A c \in Contracts :
        /\ contract[c].status \in {"ISSUED", "SIGNED"} => contract[c].document = notes
        /\ contract[c].link # None => offered[contract[c].link] = contract[c].document
        /\ contract[c].status = "SIGNED" => offered[signature[c].link] = contract[c].document

\* A contract is signed with a proof of the last code requested for it, however
\* many codes, links and proofs the client holds.
SignedWithLastCode ==
    \A c \in Contracts :
        contract[c].status = "SIGNED" => signature[c].code = lastCode[c]

\* A code resists MaxAttempts wrong guesses at most, in whatever mix of links,
\* resends and verifications; after the last one nobody signs with it.
GuessesAreBounded ==
    /\ \A k \in Codes : guesses[k] <= MaxAttempts
    /\ \A c \in Contracts :
          contract[c].status = "SIGNED" => guesses[signature[c].code] < MaxAttempts

\* What waits for its first dispatch is the present link or the last code of
\* its contract: a link that was replaced, voided or used is not sent any more,
\* nor the code of an earlier link.  (Outbox has the retries by the staff.)
QueuedSecretsAreCurrent ==
    \A m \in queue :
        /\ m.link = contract[m.contract].link
        /\ m.code # None => m.code = lastCode[m.contract]
=============================================================================

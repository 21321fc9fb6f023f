------------------------ MODULE ContractSigningProofs ------------------------
(***************************************************************************)
(* Proofs about ContractSigning: the inductive invariant Inv, and the       *)
(* safety properties that follow from it, for any number of contracts,      *)
(* links and codes and for any duration of the deadlines.                   *)
(***************************************************************************)
EXTENDS ContractSigning, TLAPS

\* A link belongs to an issued contract and opens its document.
LinkOk(c) ==
    contract[c].link # None =>
        /\ contract[c].status = "ISSUED"
        /\ contract[c].link <= links
        /\ offered[contract[c].link] = contract[c].document

\* A code belongs to an issued contract, is the last one requested for it, and
\* its wrong guesses are the attempts of the row.
CodeOk(c) ==
    /\ lastCode[c] <= codes
    /\ contract[c].code # None =>
          /\ contract[c].status = "ISSUED"
          /\ contract[c].code = lastCode[c]
          /\ guesses[contract[c].code] = contract[c].attempts
          /\ contract[c].attempts < MaxAttempts

\* The document carries the observations of the event.
DocumentOk(c) ==
    contract[c].status \in {"ISSUED", "SIGNED"} => contract[c].document = notes

\* A signature was made with a link to the document and with the last code.
SignatureOk(c) ==
    contract[c].status = "SIGNED" =>
        /\ signature[c].link \in 1 .. links
        /\ offered[signature[c].link] = contract[c].document
        /\ signature[c].code # None
        /\ signature[c].code = lastCode[c]
        /\ guesses[signature[c].code] < MaxAttempts

RowInv == \A c \in Contracts : LinkOk(c) /\ CodeOk(c) /\ DocumentOk(c) /\ SignatureOk(c)

\* A code not requested yet has no guesses.
CodeInv ==
    \A k \in Codes : guesses[k] <= MaxAttempts /\ (k > codes => guesses[k] = 0)

Inv ==
    /\ TypeOK
    /\ RowInv
    /\ CodeInv
    /\ ScheduledIffSigned
    /\ QueuedSecretsAreCurrent

-----------------------------------------------------------------------------
(* What the operations on a row give.                                      *)

\* Saving one contract leaves the others alone.
LEMMA SavedContract ==
    ASSUME TypeOK, NEW c \in Contracts, NEW row \in Contract, SaveContract(c, row)
    PROVE  /\ contract' \in [Contracts -> Contract]
           /\ contract'[c] = row
           /\ \A d \in Contracts : d # c => contract'[d] = contract[d]
BY DEF TypeOK, SaveContract

\* replace_link, on any row.
LEMMA LinkedRow ==
    ASSUME NEW row \in Contract, NEW l \in Links \cup {None}
    PROVE  /\ WithLink(row, l) \in Contract
           /\ WithLink(row, l).status = row.status
           /\ WithLink(row, l).document = row.document
           /\ WithLink(row, l).link = l
           /\ WithLink(row, l).code = None
<1>1. LinkLife \in 0 .. LinkLife /\ 0 \in 0 .. CodeLife /\ 0 \in 0 .. MaxAttempts
  BY SigningConstants
<1>2. None \in Codes \cup {None}
  OBVIOUS
<1> QED BY <1>1, <1>2 DEF WithLink, Contract

\* Voiding, on any row.
LEMMA VoidedRow ==
    ASSUME NEW row \in Contract
    PROVE  /\ Voided(row) \in Contract
           /\ Voided(row).status = "VOIDED"
           /\ Voided(row).link = None
           /\ Voided(row).code = None
<1>1. WithLink(row, None) \in Contract /\ WithLink(row, None).link = None /\ WithLink(row, None).code = None
  BY LinkedRow
<1>2. 0 \in 0 .. LinkLife
  BY SigningConstants
<1> DEFINE linked == WithLink(row, None)
<1>3. Voided(row) = [linked EXCEPT !.status = "VOIDED", !.linkLeft = 0]
  BY DEF Voided
<1>4. linked \in Contract /\ linked.link = None /\ linked.code = None
  BY <1>1
<1> HIDE DEF linked
<1> QED BY <1>2, <1>3, <1>4 DEF Contract

\* The signature of a row.
LEMMA SignedRow ==
    ASSUME NEW row \in Contract
    PROVE  /\ Signed(row) \in Contract
           /\ Signed(row).status = "SIGNED"
           /\ Signed(row).document = row.document
           /\ Signed(row).link = None
           /\ Signed(row).code = None
<1>1. 0 \in 0 .. LinkLife /\ 0 \in 0 .. CodeLife
  BY SigningConstants
<1>2. None \in Links \cup {None} /\ None \in Codes \cup {None}
  OBVIOUS
<1> QED BY <1>1, <1>2 DEF Signed, Contract

\* A wrong guess, while one is admitted.
LEMMA GuessedRow ==
    ASSUME NEW row \in Contract, row.attempts < MaxAttempts, row.code # None
    PROVE  /\ Guessed(row) \in Contract
           /\ Guessed(row).status = row.status
           /\ Guessed(row).document = row.document
           /\ Guessed(row).link = row.link
           /\ Guessed(row).attempts = row.attempts + 1
           /\ Guessed(row).code # None =>
                 Guessed(row).code = row.code /\ row.attempts + 1 < MaxAttempts
<1>1. row.attempts \in 0 .. MaxAttempts
  BY DEF Contract
<1>2. /\ row.attempts + 1 \in 0 .. MaxAttempts
      /\ row.attempts + 1 < MaxAttempts <=> ~(row.attempts + 1 >= MaxAttempts)
  BY <1>1, SigningConstants
<1>3. None \in Codes \cup {None}
  OBVIOUS
<1> QED BY <1>2, <1>3 DEF Guessed, Contract

\* A window open for one more request.
LEMMA OpenRow ==
    ASSUME NEW row \in Contract
    PROVE  /\ WindowOpen(row) \in Contract
           /\ WindowOpen(row).status = row.status
           /\ WindowOpen(row).document = row.document
           /\ WindowOpen(row).link = row.link
<1>1. Window \in 0 .. Window /\ 0 \in 0 .. MaxRequests
  BY SigningConstants
<1> QED BY <1>1 DEF WindowOpen, Contract

\* A new code, within the limit of the window.
LEMMA CodedRow ==
    ASSUME NEW row \in Contract, row.requests < MaxRequests, NEW k \in Codes
    PROVE  /\ WithCode(row, k) \in Contract
           /\ WithCode(row, k).status = row.status
           /\ WithCode(row, k).document = row.document
           /\ WithCode(row, k).link = row.link
           /\ WithCode(row, k).code = k
           /\ WithCode(row, k).attempts = 0
<1>1. row.requests \in 0 .. MaxRequests
  BY DEF Contract
<1>2. /\ row.requests + 1 \in 0 .. MaxRequests
      /\ CodeLife \in 0 .. CodeLife
      /\ 0 \in 0 .. MaxAttempts
      /\ Cooldown \in 0 .. Cooldown
  BY <1>1, SigningConstants
<1>3. k \in Codes \cup {None}
  OBVIOUS
<1> QED BY <1>2, <1>3 DEF WithCode, Contract

\* A new document.
LEMMA PrintedRow ==
    ASSUME NEW row \in Contract, NEW text \in Notes
    PROVE  /\ Printed(row, text) \in Contract
           /\ Printed(row, text).status = "ISSUED"
           /\ Printed(row, text).document = text
BY DEF Printed, Contract, Documents

LEMMA AbsentRow == AbsentContract \in Contract
BY SigningConstants DEF AbsentContract, Contract, Documents

\* A contract that is not active has neither link nor code.
LEMMA InactiveRow ==
    ASSUME RowInv, NEW d \in Contracts, ~Active(d)
    PROVE  contract[d].link = None /\ contract[d].code = None
BY DEF RowInv, LinkOk, CodeOk, Active

-----------------------------------------------------------------------------
(* The invariant holds at first.                                           *)

LEMMA InitInv == Init => Inv
<1> SUFFICES ASSUME Init PROVE Inv
  OBVIOUS
<1>1. PICK first \in FirstContracts :
          contract = [c \in Contracts |-> IF c = 1 THEN first ELSE AbsentContract]
  BY DEF Init
<1>2. /\ first \in Contract
      /\ first.status \in {"ABSENT", "DRAFT", "ISSUED"}
      /\ first.link = None /\ first.code = None
      /\ first.status = "ISSUED" => first.document = notes
  <2>1. AbsentContract \in Contract /\ AbsentContract.link = None /\ AbsentContract.code = None
        /\ AbsentContract.status = "ABSENT"
    BY AbsentRow DEF AbsentContract
  <2>2. notes \in Documents
    BY DEF Init, Documents
  <2>3. CASE first = AbsentContract
    BY <2>1, <2>3
  <2>4. CASE first = [AbsentContract EXCEPT !.status = "DRAFT"]
    BY <2>1, <2>4 DEF Contract
  <2>5. CASE first = [AbsentContract EXCEPT !.status = "ISSUED", !.document = notes]
    BY <2>1, <2>2, <2>5 DEF Contract
  <2> QED BY <2>3, <2>4, <2>5 DEF FirstContracts
<1>3. \A c \in Contracts :
        /\ contract[c] \in Contract
        /\ contract[c].status \in {"ABSENT", "DRAFT", "ISSUED"}
        /\ contract[c].link = None /\ contract[c].code = None
        /\ contract[c].status = "ISSUED" => contract[c].document = notes
        /\ c # 1 => contract[c].status = "ABSENT"
  <2>1. AbsentContract \in Contract /\ AbsentContract.link = None /\ AbsentContract.code = None
        /\ AbsentContract.status = "ABSENT"
    BY AbsentRow DEF AbsentContract
  <2> QED BY <1>1, <1>2, <2>1
<1>4. contract \in [Contracts -> Contract]
  BY <1>1, <1>3
<1>5. TypeOK
  <2>1. proof \in [Codes -> [link : Links \cup {None}, left : 0 .. ProofLife]]
    <3>1. 0 \in 0 .. ProofLife
      BY SigningConstants
    <3> QED BY <3>1 DEF Init
  <2>2. links \in 0 .. MaxLinks /\ codes \in 0 .. MaxCodes
    BY SigningConstants DEF Init
  <2> QED BY <1>4, <2>1, <2>2 DEF Init, TypeOK, Documents
<1>6. RowInv
  <2> SUFFICES ASSUME NEW c \in Contracts
               PROVE  LinkOk(c) /\ CodeOk(c) /\ DocumentOk(c) /\ SignatureOk(c)
    BY DEF RowInv
  <2>1. lastCode[c] = 0 /\ codes = 0
    BY DEF Init, None
  <2> QED BY <1>3, <2>1 DEF LinkOk, CodeOk, DocumentOk, SignatureOk
<1>7. CodeInv
  BY SigningConstants DEF Init, CodeInv
<1>8. ScheduledIffSigned
  BY <1>3 DEF Init, ScheduledIffSigned, Active
<1>9. QueuedSecretsAreCurrent
  BY DEF Init, QueuedSecretsAreCurrent
<1> QED BY <1>5, <1>6, <1>7, <1>8, <1>9 DEF Inv

-----------------------------------------------------------------------------
(* Every step preserves it.                                                *)

\* Any operation that gives the only active contract its next link.
LEMMA LinkStep ==
    ASSUME Inv, NEW c \in Contracts, NEW row \in Contract, NEW text \in Notes,
           row.status = "ISSUED", row.document = text, notes' = text,
           contract[c].status # "SIGNED",
           \A d \in Contracts : d # c => ~Active(d),
           SendLink(c, row, text),
           event = "AWAITING_SIGNATURE",
           UNCHANGED <<event, codes, proof>>
    PROVE  Inv'
<1> USE DEF Inv
<1>1. /\ links < MaxLinks
      /\ links' = links + 1
      /\ SaveContract(c, WithLink(row, links + 1))
      /\ queue' = WithoutSecrets(c, queue)
                     \cup {[contract |-> c, link |-> links + 1, code |-> None]}
      /\ offered' = [offered EXCEPT ![links + 1] = text]
      /\ UNCHANGED <<guesses, lastCode, signature>>
  BY DEF SendLink
<1>2. links \in 0 .. MaxLinks /\ links + 1 \in Links /\ links' \in 0 .. MaxLinks
  BY <1>1, SigningConstants DEF TypeOK, Links
<1>3. links + 1 \in Links \cup {None} /\ links + 1 # None
  BY <1>2 DEF None, Links
<1>4. PICK linked \in Contract :
        /\ linked.status = "ISSUED" /\ linked.document = text
        /\ linked.link = links + 1 /\ linked.code = None
        /\ SaveContract(c, linked)
  BY <1>1, <1>3, LinkedRow
<1>5. /\ contract' \in [Contracts -> Contract]
      /\ contract'[c] = linked
      /\ \A d \in Contracts : d # c => contract'[d] = contract[d]
  BY <1>4, SavedContract
<1>6. offered' \in [Links -> Documents] /\ offered'[links + 1] = text
      /\ \A l \in Links : l # links + 1 => offered'[l] = offered[l]
  BY <1>1, <1>2 DEF TypeOK, Documents
<1>7. TypeOK'
  <2>1. queue' \in SUBSET Secret
    BY <1>1, <1>2 DEF TypeOK, Secret, WithoutSecrets
  <2> QED BY <1>1, <1>2, <1>5, <1>6, <2>1 DEF TypeOK
<1>8. RowInv'
  <2> SUFFICES ASSUME NEW d \in Contracts
               PROVE  LinkOk(d)' /\ CodeOk(d)' /\ DocumentOk(d)' /\ SignatureOk(d)'
    BY DEF RowInv
  <2>1. lastCode'[d] <= codes'
    BY <1>1 DEF RowInv, CodeOk
  <2>2. CASE d = c
    <3>1. contract'[d] = linked
      BY <1>5, <2>2
    <3>2. links + 1 <= links'
      BY <1>1, <1>2
    <3> QED BY <1>4, <1>6, <2>1, <3>1, <3>2 DEF LinkOk, CodeOk, DocumentOk, SignatureOk
  <2>3. CASE d # c
    <3>1. contract'[d] = contract[d] /\ ~Active(d)
      BY <1>5, <2>3
    <3>2. contract[d].link = None /\ contract[d].code = None
      BY <3>1, InactiveRow
    <3> QED BY <2>1, <3>1, <3>2 DEF LinkOk, CodeOk, DocumentOk, SignatureOk, Active
  <2> QED BY <2>2, <2>3
<1>9. CodeInv'
  BY <1>1 DEF CodeInv
<1>10. ScheduledIffSigned'
  BY <1>4, <1>5 DEF ScheduledIffSigned, Active
<1>11. QueuedSecretsAreCurrent'
  <2> SUFFICES ASSUME NEW m \in queue'
               PROVE  /\ m.link = contract'[m.contract].link
                      /\ m.code # None => m.code = lastCode'[m.contract]
    BY DEF QueuedSecretsAreCurrent
  <2>1. CASE m \in WithoutSecrets(c, queue)
    <3>1. m \in queue /\ m.contract # c /\ m.contract \in Contracts
      BY <2>1 DEF WithoutSecrets, TypeOK, Secret
    <3> QED BY <1>1, <1>5, <3>1 DEF QueuedSecretsAreCurrent
  <2>2. CASE m = [contract |-> c, link |-> links + 1, code |-> None]
    BY <1>4, <1>5, <2>2
  <2> QED BY <1>1, <2>1, <2>2
<1> QED BY <1>7, <1>8, <1>9, <1>10, <1>11

\* With two active contracts the same, the others of an active one are not.
LEMMA OnlyActive ==
    ASSUME Inv, NEW c \in Contracts, Active(c)
    PROVE  \A d \in Contracts : d # c => ~Active(d)
BY DEF Inv, ScheduledIffSigned

LEMMA StaffStepInv ==
    ASSUME Inv, NEW c \in Contracts, StaffStep(c)
    PROVE  Inv'
<1>0. contract[c] \in Contract /\ notes \in Notes
  BY DEF Inv, TypeOK
<1>1. CASE IssueNew(c)
  <2>1. AbsentContract \in Contract
    BY AbsentRow
  <2>2. PICK row \in Contract :
          /\ row.status = "ISSUED" /\ row.document = notes
          /\ SendLink(c, row, notes)
    BY <1>0, <1>1, <2>1, PrintedRow DEF IssueNew
  <2>3. /\ event = "AWAITING_SIGNATURE" /\ notes' = notes
        /\ contract[c].status # "SIGNED"
        /\ \A d \in Contracts : d # c => ~Active(d)
        /\ UNCHANGED <<event, codes, proof>>
    BY <1>1 DEF IssueNew
  <2> QED BY <1>0, <2>2, <2>3, LinkStep
<1>2. CASE IssueExisting(c)
  <2>1. /\ event = "AWAITING_SIGNATURE" /\ notes' = notes
        /\ contract[c].status \in {"DRAFT", "ISSUED"}
        /\ UNCHANGED <<event, codes, proof>>
    BY <1>2 DEF IssueExisting
  <2>2. \A d \in Contracts : d # c => ~Active(d)
    BY <2>1, OnlyActive DEF Active
  <2>3. SendLink(c, Printed(contract[c], notes), notes)
    <3>1. contract[c].status = "ISSUED" => contract[c].document = notes
      BY DEF Inv, RowInv, DocumentOk
    <3> QED BY <1>2, <2>1, <3>1 DEF IssueExisting
  <2>4. PICK row \in Contract :
          /\ row.status = "ISSUED" /\ row.document = notes
          /\ SendLink(c, row, notes)
    BY <1>0, <2>3, PrintedRow
  <2> QED BY <1>0, <2>1, <2>2, <2>4, LinkStep
<1>3. CASE Resend(c)
  <2>1. /\ event = "AWAITING_SIGNATURE" /\ notes' = notes
        /\ contract[c].status = "ISSUED"
        /\ SendLink(c, contract[c], contract[c].document)
        /\ UNCHANGED <<event, codes, proof>>
    BY <1>3 DEF Resend
  <2>2. contract[c].document = notes
    BY <2>1 DEF Inv, RowInv, DocumentOk
  <2>3. \A d \in Contracts : d # c => ~Active(d)
    BY <2>1, OnlyActive DEF Active
  <2> QED BY <1>0, <2>1, <2>2, <2>3, LinkStep
<1>4. ASSUME NEW text \in Notes, UpdateObservations(c, text)
      PROVE  Inv'
  <2>1. /\ event = "AWAITING_SIGNATURE" /\ notes' = text /\ Editable(c)
        /\ UNCHANGED <<event, codes, proof>>
    BY <1>4 DEF UpdateObservations
  <2>2. \A d \in Contracts : d # c => ~Active(d)
    BY <2>1, OnlyActive DEF Active, Editable
  <2>3. CASE contract[c].status = "ISSUED"
    <3>1. SendLink(c, Printed(contract[c], text), text)
      BY <1>4, <2>3 DEF UpdateObservations
    <3>2. PICK row \in Contract :
            /\ row.status = "ISSUED" /\ row.document = text
            /\ SendLink(c, row, text)
      BY <1>0, <1>4, <3>1, PrintedRow
    <3> QED BY <1>4, <2>1, <2>2, <2>3, <3>2, LinkStep
  <2>4. CASE contract[c].status = "DRAFT"
    <3>1. /\ SaveContract(c, [contract[c] EXCEPT !.document = text])
          /\ UNCHANGED <<links, queue, history>>
      BY <1>4, <2>4 DEF UpdateObservations
    <3>2. contract[c].link = None /\ contract[c].code = None
      BY <2>4 DEF Inv, RowInv, LinkOk, CodeOk
    <3>3. PICK row \in Contract :
            /\ row.status = "DRAFT" /\ row.link = None /\ row.code = None
            /\ SaveContract(c, row)
      <4>1. text \in Documents
        BY <1>4 DEF Documents
      <4> QED BY <1>0, <2>4, <3>1, <3>2, <4>1 DEF Contract
    <3>4. /\ contract' \in [Contracts -> Contract]
          /\ contract'[c] = row
          /\ \A d \in Contracts : d # c => contract'[d] = contract[d]
      BY <3>3, SavedContract DEF Inv
    <3>5. TypeOK'
      BY <1>4, <2>1, <3>1, <3>4 DEF Inv, TypeOK, history
    <3>6. RowInv'
      <4> SUFFICES ASSUME NEW d \in Contracts
                   PROVE  LinkOk(d)' /\ CodeOk(d)' /\ DocumentOk(d)' /\ SignatureOk(d)'
        BY DEF RowInv
      <4>1. lastCode'[d] <= codes'
        BY <2>1, <3>1 DEF Inv, RowInv, CodeOk, history
      <4>2. CASE d = c
        BY <3>3, <3>4, <4>1, <4>2 DEF LinkOk, CodeOk, DocumentOk, SignatureOk
      <4>3. CASE d # c
        <5>1. contract'[d] = contract[d] /\ ~Active(d)
          BY <2>2, <3>4, <4>3
        <5>2. contract[d].link = None /\ contract[d].code = None
          BY <5>1, InactiveRow DEF Inv
        <5> QED BY <4>1, <5>1, <5>2 DEF LinkOk, CodeOk, DocumentOk, SignatureOk, Active
      <4> QED BY <4>2, <4>3
    <3>7. CodeInv'
      BY <2>1, <3>1 DEF Inv, CodeInv, history
    <3>8. ScheduledIffSigned'
      BY <2>1, <2>2, <2>4, <3>3, <3>4 DEF Inv, ScheduledIffSigned, Active
    <3>9. QueuedSecretsAreCurrent'
      <4>1. \A d \in Contracts : contract'[d].link = contract[d].link
        BY <3>2, <3>3, <3>4
      <4>2. \A m \in queue : m.contract \in Contracts
        BY DEF Inv, TypeOK, Secret
      <4> QED BY <3>1, <4>1, <4>2 DEF Inv, QueuedSecretsAreCurrent, history
    <3> QED BY <3>5, <3>6, <3>7, <3>8, <3>9 DEF Inv
  <2> QED BY <2>1, <2>3, <2>4 DEF Editable
<1>5. CASE Void(c)
  <2>1. /\ contract[c].status \in {"DRAFT", "ISSUED"}
        /\ queue' = WithoutSecrets(c, queue)
        /\ UNCHANGED <<event, notes, links, codes, proof, history>>
    BY <1>5 DEF Void, Editable
  <2>2. PICK row \in Contract :
          /\ row.status = "VOIDED" /\ row.link = None /\ row.code = None
          /\ SaveContract(c, row)
    BY <1>0, <1>5, VoidedRow DEF Void
  <2>3. /\ contract' \in [Contracts -> Contract]
        /\ contract'[c] = row
        /\ \A d \in Contracts : d # c => contract'[d] = contract[d]
    BY <2>2, SavedContract DEF Inv
  <2>4. TypeOK'
    <3>1. queue' \in SUBSET Secret
      BY <2>1 DEF Inv, TypeOK, WithoutSecrets
    <3> QED BY <2>1, <2>3, <3>1 DEF Inv, TypeOK, history
  <2>5. RowInv'
    <3> SUFFICES ASSUME NEW d \in Contracts
                 PROVE  LinkOk(d)' /\ CodeOk(d)' /\ DocumentOk(d)' /\ SignatureOk(d)'
      BY DEF RowInv
    <3>1. LinkOk(d) /\ CodeOk(d) /\ DocumentOk(d) /\ SignatureOk(d)
      BY DEF Inv, RowInv
    <3>2. CASE d = c
      BY <2>1, <2>2, <2>3, <3>1, <3>2 DEF LinkOk, CodeOk, DocumentOk, SignatureOk, history
    <3>3. CASE d # c
      BY <2>1, <2>3, <3>1, <3>3 DEF LinkOk, CodeOk, DocumentOk, SignatureOk, history
    <3> QED BY <3>2, <3>3
  <2>6. CodeInv'
    BY <2>1 DEF Inv, CodeInv, history
  <2>7. ScheduledIffSigned'
    BY <2>1, <2>2, <2>3 DEF Inv, ScheduledIffSigned, Active
  <2>8. QueuedSecretsAreCurrent'
    <3> SUFFICES ASSUME NEW m \in queue'
                 PROVE  /\ m.link = contract'[m.contract].link
                        /\ m.code # None => m.code = lastCode'[m.contract]
      BY DEF QueuedSecretsAreCurrent
    <3>1. m \in queue /\ m.contract # c /\ m.contract \in Contracts
      BY <2>1 DEF Inv, WithoutSecrets, TypeOK, Secret
    <3> QED BY <2>1, <2>3, <3>1 DEF Inv, QueuedSecretsAreCurrent, history
  <2> QED BY <2>4, <2>5, <2>6, <2>7, <2>8 DEF Inv
<1> QED BY <1>1, <1>2, <1>3, <1>4, <1>5 DEF StaffStep

\* A contract whose link resolves is the only active one, and none is signed.
LEMMA ResolvedContract ==
    ASSUME Inv, NEW c \in Contracts, Resolves(c)
    PROVE  /\ contract[c] \in Contract
           /\ contract[c].status = "ISSUED"
           /\ contract[c].link # None
           /\ event = "AWAITING_SIGNATURE"
           /\ \A d \in Contracts : d # c => ~Active(d)
           /\ \A d \in Contracts : contract[d].status # "SIGNED"
<1>1. contract[c].status = "ISSUED" /\ contract[c].link # None /\ event = "AWAITING_SIGNATURE"
  BY DEF Resolves
<1>2. contract[c] \in Contract
  BY DEF Inv, TypeOK
<1>3. \A d \in Contracts : d # c => ~Active(d)
  BY <1>1, OnlyActive DEF Active
<1> QED BY <1>1, <1>2, <1>3 DEF Inv, ScheduledIffSigned

\* What a step of the client does to its contract leaves the others as quiet as
\* they were.
LEMMA QuietRows ==
    ASSUME Inv, NEW d \in Contracts, ~Active(d),
           contract'[d] = contract[d], lastCode'[d] <= codes'
    PROVE  LinkOk(d)' /\ CodeOk(d)' /\ DocumentOk(d)' /\ SignatureOk(d)'
<1>1. contract[d].link = None /\ contract[d].code = None
  BY InactiveRow DEF Inv
<1> QED BY <1>1 DEF LinkOk, CodeOk, DocumentOk, SignatureOk, Active

LEMMA RequestOtpInv ==
    ASSUME Inv, NEW c \in Contracts, RequestOtp(c)
    PROVE  Inv'
<1>0. /\ contract[c] \in Contract
      /\ contract[c].status = "ISSUED"
      /\ \A d \in Contracts : d # c => ~Active(d)
      /\ \A d \in Contracts : contract[d].status # "SIGNED"
      /\ contract[c].link # None
  BY ResolvedContract DEF RequestOtp
<1>1. /\ codes < MaxCodes /\ codes' = codes + 1
      /\ WindowOpen(contract[c]).requests < MaxRequests
      /\ SaveContract(c, WithCode(WindowOpen(contract[c]), codes + 1))
      /\ queue' = WithoutSecrets(c, queue)
                     \cup {[contract |-> c, link |-> contract[c].link, code |-> codes + 1]}
      /\ lastCode' = [lastCode EXCEPT ![c] = codes + 1]
      /\ UNCHANGED <<event, notes, links, proof, offered, guesses, signature>>
  BY DEF RequestOtp, MayRequest
<1>2. codes \in 0 .. MaxCodes /\ codes + 1 \in Codes /\ codes' \in 0 .. MaxCodes
  BY <1>1, SigningConstants DEF Inv, TypeOK, Codes
<1>3. PICK open \in Contract :
        /\ open.status = "ISSUED" /\ open.document = contract[c].document
        /\ open.link = contract[c].link /\ open.requests < MaxRequests
        /\ SaveContract(c, WithCode(open, codes + 1))
  BY <1>0, <1>1, OpenRow
<1>4. PICK row \in Contract :
        /\ row.status = "ISSUED" /\ row.document = contract[c].document
        /\ row.link = contract[c].link /\ row.code = codes + 1 /\ row.attempts = 0
        /\ SaveContract(c, row)
  BY <1>2, <1>3, CodedRow
<1>5. /\ contract' \in [Contracts -> Contract]
      /\ contract'[c] = row
      /\ \A d \in Contracts : d # c => contract'[d] = contract[d]
  BY <1>4, SavedContract DEF Inv
<1>6. /\ lastCode' \in [Contracts -> Codes \cup {None}]
      /\ lastCode'[c] = codes + 1
      /\ \A d \in Contracts : d # c => lastCode'[d] = lastCode[d]
  BY <1>1, <1>2 DEF Inv, TypeOK
<1>7. TypeOK'
  <2>1. queue' \in SUBSET Secret
    <3>1. contract[c].link \in Links
      BY <1>0 DEF Contract
    <3> QED BY <1>1, <1>2, <3>1 DEF Inv, TypeOK, Secret, WithoutSecrets
  <2> QED BY <1>1, <1>2, <1>5, <1>6, <2>1 DEF Inv, TypeOK
<1>8. RowInv'
  <2> SUFFICES ASSUME NEW d \in Contracts
               PROVE  LinkOk(d)' /\ CodeOk(d)' /\ DocumentOk(d)' /\ SignatureOk(d)'
    BY DEF RowInv
  <2>1. CASE d = c
    <3>1. guesses'[codes + 1] = 0 /\ codes + 1 # None
      BY <1>1, <1>2 DEF Inv, CodeInv, None, Codes
    <3>2. 0 < MaxAttempts /\ codes + 1 <= codes'
      BY <1>1, <1>2, SigningConstants
    <3>3. LinkOk(c) /\ DocumentOk(c)
      BY DEF Inv, RowInv
    <3>4. contract'[d] = row /\ lastCode'[d] = codes + 1
      BY <1>5, <1>6, <2>1
    <3>5. LinkOk(d)' /\ DocumentOk(d)' /\ SignatureOk(d)'
      BY <1>0, <1>1, <1>4, <3>3, <3>4 DEF LinkOk, DocumentOk, SignatureOk
    <3>6. CodeOk(d)'
      BY <1>4, <3>1, <3>2, <3>4 DEF CodeOk
    <3> QED BY <3>5, <3>6
  <2>2. CASE d # c
    <3>1. contract'[d] = contract[d] /\ ~Active(d) /\ lastCode'[d] = lastCode[d]
      BY <1>0, <1>5, <1>6, <2>2
    <3>2. lastCode[d] <= codes /\ lastCode[d] \in Nat
      BY DEF Inv, RowInv, CodeOk, TypeOK, Codes, None
    <3>3. lastCode'[d] <= codes'
      BY <1>1, <1>2, <3>1, <3>2
    <3> QED BY <3>1, <3>3, QuietRows
  <2> QED BY <2>1, <2>2
<1>9. CodeInv'
  BY <1>1, <1>2 DEF Inv, CodeInv, Codes
<1>10. ScheduledIffSigned'
  BY <1>0, <1>1, <1>4, <1>5 DEF Inv, ScheduledIffSigned, Active
<1>11. QueuedSecretsAreCurrent'
  <2> SUFFICES ASSUME NEW m \in queue'
               PROVE  /\ m.link = contract'[m.contract].link
                      /\ m.code # None => m.code = lastCode'[m.contract]
    BY DEF QueuedSecretsAreCurrent
  <2>1. CASE m \in WithoutSecrets(c, queue)
    <3>1. m \in queue /\ m.contract # c /\ m.contract \in Contracts
      BY <2>1 DEF Inv, WithoutSecrets, TypeOK, Secret
    <3> QED BY <1>5, <1>6, <3>1 DEF Inv, QueuedSecretsAreCurrent
  <2>2. CASE m = [contract |-> c, link |-> contract[c].link, code |-> codes + 1]
    BY <1>4, <1>5, <1>6, <2>2
  <2> QED BY <1>1, <2>1, <2>2
<1> QED BY <1>7, <1>8, <1>9, <1>10, <1>11 DEF Inv

LEMMA VerifyRightInv ==
    ASSUME Inv, NEW c \in Contracts, VerifyRight(c)
    PROVE  Inv'
<1>1. /\ proof' = [proof EXCEPT ![contract[c].code] =
                      [link |-> contract[c].link, left |-> ProofLife]]
      /\ UNCHANGED <<event, notes, contract, links, codes, queue, history>>
  BY DEF VerifyRight
<1>2. TypeOK'
  <2>1. ProofLife \in 0 .. ProofLife
    BY SigningConstants
  <2>2. contract[c].link \in Links \cup {None}
    BY DEF Inv, TypeOK, Contract
  <2>3. proof' \in [Codes -> [link : Links \cup {None}, left : 0 .. ProofLife]]
    BY <1>1, <2>1, <2>2 DEF Inv, TypeOK
  <2> QED BY <1>1, <2>3 DEF Inv, TypeOK, history
<1>3. RowInv'
  BY <1>1 DEF Inv, RowInv, LinkOk, CodeOk, DocumentOk, SignatureOk, history
<1>4. CodeInv' /\ ScheduledIffSigned' /\ QueuedSecretsAreCurrent'
  BY <1>1 DEF Inv, CodeInv, ScheduledIffSigned, QueuedSecretsAreCurrent, Active, history
<1> QED BY <1>2, <1>3, <1>4 DEF Inv

LEMMA VerifyWrongInv ==
    ASSUME Inv, NEW c \in Contracts, VerifyWrong(c)
    PROVE  Inv'
<1>0. /\ contract[c] \in Contract
      /\ contract[c].status = "ISSUED"
      /\ \A d \in Contracts : d # c => ~Active(d)
      /\ \A d \in Contracts : contract[d].status # "SIGNED"
  BY ResolvedContract DEF VerifyWrong
<1> DEFINE k == contract[c].code
           n == contract[c].attempts
<1>1. /\ n < MaxAttempts /\ k # None
      /\ SaveContract(c, Guessed(contract[c]))
      /\ guesses' = [guesses EXCEPT ![k] = guesses[k] + 1]
      /\ UNCHANGED <<event, notes, links, codes, proof, queue, offered, lastCode, signature>>
  BY DEF VerifyWrong, CodeIsLive
<1>2. /\ k \in Codes /\ n \in 0 .. MaxAttempts /\ guesses \in [Codes -> Nat]
  BY <1>0, <1>1 DEF Inv, TypeOK, Contract
<1>3. guesses[k] = n /\ k = lastCode[c] /\ k <= codes
  BY <1>1 DEF Inv, RowInv, CodeOk
<1>4. /\ guesses' \in [Codes -> Nat]
      /\ guesses'[k] = n + 1
      /\ \A j \in Codes : j # k => guesses'[j] = guesses[j]
  BY <1>1, <1>2, <1>3
<1>5. PICK row \in Contract :
        /\ row.status = "ISSUED" /\ row.document = contract[c].document
        /\ row.link = contract[c].link /\ row.attempts = n + 1
        /\ row.code # None => row.code = k /\ n + 1 < MaxAttempts
        /\ SaveContract(c, row)
  BY <1>0, <1>1, GuessedRow
<1>6. /\ contract' \in [Contracts -> Contract]
      /\ contract'[c] = row
      /\ \A d \in Contracts : d # c => contract'[d] = contract[d]
  BY <1>5, SavedContract DEF Inv
<1>7. TypeOK'
  BY <1>1, <1>4, <1>6 DEF Inv, TypeOK
<1>8. RowInv'
  <2> SUFFICES ASSUME NEW d \in Contracts
               PROVE  LinkOk(d)' /\ CodeOk(d)' /\ DocumentOk(d)' /\ SignatureOk(d)'
    BY DEF RowInv
  <2>0. LinkOk(d) /\ CodeOk(d) /\ DocumentOk(d)
    BY DEF Inv, RowInv
  <2>1. CASE d = c
    <3>1. LinkOk(d)' /\ DocumentOk(d)' /\ SignatureOk(d)'
      BY <1>0, <1>1, <1>5, <1>6, <2>0, <2>1 DEF LinkOk, DocumentOk, SignatureOk
    <3>2. CodeOk(d)'
      BY <1>1, <1>3, <1>4, <1>5, <1>6, <2>0, <2>1 DEF CodeOk
    <3> QED BY <3>1, <3>2
  <2>2. CASE d # c
    <3>1. contract'[d] = contract[d] /\ ~Active(d)
      BY <1>0, <1>6, <2>2
    <3>2. lastCode'[d] <= codes'
      BY <1>1, <2>0 DEF CodeOk
    <3> QED BY <3>1, <3>2, QuietRows
  <2> QED BY <2>1, <2>2
<1>9. CodeInv'
  <2> SUFFICES ASSUME NEW j \in Codes
               PROVE  guesses'[j] <= MaxAttempts /\ (j > codes' => guesses'[j] = 0)
    BY DEF CodeInv
  <2>1. guesses[j] <= MaxAttempts /\ (j > codes => guesses[j] = 0)
    BY DEF Inv, CodeInv
  <2>2. CASE j = k
    <3>1. n + 1 <= MaxAttempts /\ ~(k > codes)
      <4>1. codes \in Nat /\ k \in Nat
        BY <1>2 DEF Inv, TypeOK, Codes
      <4> QED BY <1>1, <1>2, <1>3, <4>1, SigningConstants
    <3> QED BY <1>1, <1>4, <2>2, <3>1
  <2>3. CASE j # k
    BY <1>1, <1>4, <2>1, <2>3
  <2> QED BY <2>2, <2>3
<1>10. ScheduledIffSigned'
  BY <1>0, <1>1, <1>5, <1>6 DEF Inv, ScheduledIffSigned, Active
<1>11. QueuedSecretsAreCurrent'
  <2>1. \A d \in Contracts : contract'[d].link = contract[d].link
    BY <1>5, <1>6
  <2>2. \A m \in queue : m.contract \in Contracts
    BY DEF Inv, TypeOK, Secret
  <2> QED BY <1>1, <2>1, <2>2 DEF Inv, QueuedSecretsAreCurrent
<1> QED BY <1>7, <1>8, <1>9, <1>10, <1>11 DEF Inv

LEMMA SignInv ==
    ASSUME Inv, NEW c \in Contracts, NEW k \in Codes, Sign(c, k)
    PROVE  Inv'
<1>0. /\ contract[c] \in Contract
      /\ contract[c].status = "ISSUED" /\ contract[c].link # None
      /\ event = "AWAITING_SIGNATURE"
      /\ \A d \in Contracts : d # c => ~Active(d)
      /\ \A d \in Contracts : contract[d].status # "SIGNED"
  BY ResolvedContract DEF Sign
<1> DEFINE l == contract[c].link
<1>1. /\ contract[c].code = k
      /\ SaveContract(c, Signed(contract[c]))
      /\ queue' = WithoutSecrets(c, queue)
      /\ event' = "SCHEDULED"
      /\ signature' = [signature EXCEPT ![c] = [link |-> l, code |-> k]]
      /\ UNCHANGED <<notes, links, codes, proof, offered, guesses, lastCode>>
  BY DEF Sign, ProofIsValid, Scheduled
<1>2. l \in Links
  BY <1>0 DEF Contract
<1>3. k # None
  BY DEF Codes, None
<1>4. /\ l <= links /\ offered[l] = contract[c].document
      /\ k = lastCode[c] /\ guesses[k] < MaxAttempts
      /\ contract[c].document = notes
  BY <1>0, <1>1, <1>3 DEF Inv, RowInv, LinkOk, CodeOk, DocumentOk
<1>5. PICK row \in Contract :
        /\ row.status = "SIGNED" /\ row.document = contract[c].document
        /\ row.link = None /\ row.code = None
        /\ SaveContract(c, row)
  BY <1>0, <1>1, SignedRow
<1>6. /\ contract' \in [Contracts -> Contract]
      /\ contract'[c] = row
      /\ \A d \in Contracts : d # c => contract'[d] = contract[d]
  BY <1>5, SavedContract DEF Inv
<1>7. /\ signature' \in [Contracts -> [link : Links \cup {None}, code : Codes \cup {None}]]
      /\ signature'[c].link = l /\ signature'[c].code = k
  BY <1>1, <1>2 DEF Inv, TypeOK
<1>8. TypeOK'
  <2>1. queue' \in SUBSET Secret
    BY <1>1 DEF Inv, TypeOK, WithoutSecrets
  <2> QED BY <1>1, <1>6, <1>7, <2>1 DEF Inv, TypeOK
<1>9. RowInv'
  <2> SUFFICES ASSUME NEW d \in Contracts
               PROVE  LinkOk(d)' /\ CodeOk(d)' /\ DocumentOk(d)' /\ SignatureOk(d)'
    BY DEF RowInv
  <2>1. lastCode'[d] <= codes'
    BY <1>1 DEF Inv, RowInv, CodeOk
  <2>2. CASE d = c
    <3>1. l \in 1 .. links'
      BY <1>1, <1>2, <1>4 DEF Inv, TypeOK, Links
    <3>2. contract'[d] = row /\ signature'[d].link = l /\ signature'[d].code = k
      BY <1>6, <1>7, <2>2
    <3>3. LinkOk(d)' /\ CodeOk(d)' /\ DocumentOk(d)'
      BY <1>1, <1>4, <1>5, <2>1, <3>2 DEF LinkOk, CodeOk, DocumentOk
    <3>4. SignatureOk(d)'
      BY <1>1, <1>3, <1>4, <1>5, <2>2, <3>1, <3>2 DEF SignatureOk
    <3> QED BY <3>3, <3>4
  <2>3. CASE d # c
    <3>1. contract'[d] = contract[d] /\ ~Active(d)
      BY <1>0, <1>6, <2>3
    <3> QED BY <2>1, <3>1, QuietRows
  <2> QED BY <2>2, <2>3
<1>10. CodeInv'
  BY <1>1 DEF Inv, CodeInv
<1>11. ScheduledIffSigned'
  BY <1>0, <1>1, <1>5, <1>6 DEF Inv, ScheduledIffSigned, Active
<1>12. QueuedSecretsAreCurrent'
  <2> SUFFICES ASSUME NEW m \in queue'
               PROVE  /\ m.link = contract'[m.contract].link
                      /\ m.code # None => m.code = lastCode'[m.contract]
    BY DEF QueuedSecretsAreCurrent
  <2>1. m \in queue /\ m.contract # c /\ m.contract \in Contracts
    BY <1>1 DEF Inv, WithoutSecrets, TypeOK, Secret
  <2> QED BY <1>1, <1>6, <2>1 DEF Inv, QueuedSecretsAreCurrent
<1> QED BY <1>8, <1>9, <1>10, <1>11, <1>12 DEF Inv

LEMMA StartEventInv == Inv /\ StartEvent => Inv'
<1> SUFFICES ASSUME Inv, StartEvent PROVE Inv'
  OBVIOUS
<1>1. /\ event = "SCHEDULED" /\ event' = "IN_PROGRESS"
      /\ UNCHANGED <<notes, contract, links, codes, proof, queue, history>>
  BY DEF StartEvent
<1>2. TypeOK'
  BY <1>1 DEF Inv, TypeOK, history
<1>3. RowInv'
  BY <1>1 DEF Inv, RowInv, LinkOk, CodeOk, DocumentOk, SignatureOk, history
<1>4. CodeInv' /\ ScheduledIffSigned' /\ QueuedSecretsAreCurrent'
  BY <1>1 DEF Inv, CodeInv, ScheduledIffSigned, QueuedSecretsAreCurrent, Active, history
<1> QED BY <1>2, <1>3, <1>4 DEF Inv

LEMMA DispatchInv == ASSUME Inv, NEW m \in queue, DispatchSecret(m) PROVE Inv'
<1>1. /\ queue' = queue \ {m}
      /\ UNCHANGED <<event, notes, contract, links, codes, proof, history>>
  BY DEF DispatchSecret
<1>2. TypeOK'
  BY <1>1 DEF Inv, TypeOK, history
<1>3. RowInv'
  BY <1>1 DEF Inv, RowInv, LinkOk, CodeOk, DocumentOk, SignatureOk, history
<1>4. CodeInv' /\ ScheduledIffSigned' /\ QueuedSecretsAreCurrent'
  BY <1>1 DEF Inv, CodeInv, ScheduledIffSigned, QueuedSecretsAreCurrent, Active, history
<1> QED BY <1>2, <1>3, <1>4 DEF Inv

\* What remains of a deadline never grows.
LEMMA LessLeft == ASSUME NEW life \in Nat, NEW left \in 0 .. life PROVE Less(left) \in 0 .. life
BY DEF Less

\* A row after a tick: only what remains of its deadlines is another.
LEMMA TickedRow ==
    ASSUME NEW row \in Contract
    PROVE  LET later == [row EXCEPT !.linkLeft = Less(row.linkLeft),
                                    !.codeLeft = Less(row.codeLeft),
                                    !.cooldown = Less(row.cooldown),
                                    !.window = Less(row.window)]
           IN  /\ later \in Contract
               /\ later.status = row.status /\ later.document = row.document
               /\ later.link = row.link /\ later.code = row.code
               /\ later.attempts = row.attempts
<1>1. /\ row.linkLeft \in 0 .. LinkLife /\ row.codeLeft \in 0 .. CodeLife
      /\ row.cooldown \in 0 .. Cooldown /\ row.window \in 0 .. Window
  BY DEF Contract
<1>2. /\ Less(row.linkLeft) \in 0 .. LinkLife /\ Less(row.codeLeft) \in 0 .. CodeLife
      /\ Less(row.cooldown) \in 0 .. Cooldown /\ Less(row.window) \in 0 .. Window
  BY <1>1, LessLeft, SigningConstants
<1> QED BY <1>2 DEF Contract

LEMMA TickInv == Inv /\ Tick => Inv'
<1> SUFFICES ASSUME Inv, Tick PROVE Inv'
  OBVIOUS
<1>1. /\ proof' = [k \in Codes |-> [proof[k] EXCEPT !.left = Less(proof[k].left)]]
      /\ UNCHANGED <<event, notes, links, codes, queue, offered, guesses, lastCode, signature>>
  BY DEF Tick
<1>2. \A c \in Contracts :
        /\ contract'[c] \in Contract
        /\ contract'[c].status = contract[c].status
        /\ contract'[c].document = contract[c].document
        /\ contract'[c].link = contract[c].link
        /\ contract'[c].code = contract[c].code
        /\ contract'[c].attempts = contract[c].attempts
  <2> SUFFICES ASSUME NEW c \in Contracts
               PROVE  /\ contract'[c] \in Contract
                      /\ contract'[c].status = contract[c].status
                      /\ contract'[c].document = contract[c].document
                      /\ contract'[c].link = contract[c].link
                      /\ contract'[c].code = contract[c].code
                      /\ contract'[c].attempts = contract[c].attempts
    OBVIOUS
  <2>1. contract[c] \in Contract
    BY DEF Inv, TypeOK
  <2>2. contract'[c] = [contract[c] EXCEPT !.linkLeft = Less(contract[c].linkLeft),
                                           !.codeLeft = Less(contract[c].codeLeft),
                                           !.cooldown = Less(contract[c].cooldown),
                                           !.window = Less(contract[c].window)]
    BY DEF Tick
  <2> QED BY <2>1, <2>2, TickedRow
<1>3. contract' \in [Contracts -> Contract]
  <2>1. contract' = [c \in Contracts |-> contract'[c]]
    BY DEF Tick
  <2> QED BY <1>2, <2>1
<1>4. TypeOK'
  <2>1. proof' \in [Codes -> [link : Links \cup {None}, left : 0 .. ProofLife]]
    <3> SUFFICES ASSUME NEW k \in Codes
                 PROVE  [proof[k] EXCEPT !.left = Less(proof[k].left)]
                            \in [link : Links \cup {None}, left : 0 .. ProofLife]
      BY <1>1
    <3>1. proof[k] \in [link : Links \cup {None}, left : 0 .. ProofLife]
      BY DEF Inv, TypeOK
    <3>2. Less(proof[k].left) \in 0 .. ProofLife
      BY <3>1, LessLeft, SigningConstants
    <3> QED BY <3>1, <3>2
  <2> QED BY <1>1, <1>3, <2>1 DEF Inv, TypeOK
<1>5. RowInv'
  BY <1>1, <1>2 DEF Inv, RowInv, LinkOk, CodeOk, DocumentOk, SignatureOk
<1>6. CodeInv'
  BY <1>1 DEF Inv, CodeInv
<1>7. ScheduledIffSigned'
  BY <1>1, <1>2 DEF Inv, ScheduledIffSigned, Active
<1>8. QueuedSecretsAreCurrent'
  <2>1. \A m \in queue : m.contract \in Contracts
    BY DEF Inv, TypeOK, Secret
  <2> QED BY <1>1, <1>2, <2>1 DEF Inv, QueuedSecretsAreCurrent
<1> QED BY <1>4, <1>5, <1>6, <1>7, <1>8 DEF Inv

LEMMA NextInv == Inv /\ [Next]_vars => Inv'
<1> SUFFICES ASSUME Inv, [Next]_vars PROVE Inv'
  OBVIOUS
<1>1. CASE \E c \in Contracts : StaffStep(c)
  BY <1>1, StaffStepInv
<1>2. CASE \E c \in Contracts : ClientStep(c)
  BY <1>2, RequestOtpInv, VerifyRightInv, VerifyWrongInv, SignInv DEF ClientStep
<1>3. CASE StartEvent
  BY <1>3, StartEventInv
<1>4. CASE \E m \in queue : DispatchSecret(m)
  BY <1>4, DispatchInv
<1>5. CASE Tick
  BY <1>5, TickInv
<1>6. CASE UNCHANGED vars
  <2>1. UNCHANGED <<event, notes, contract, links, codes, proof, queue,
                    offered, guesses, lastCode, signature>>
    BY <1>6 DEF vars, history
  <2>2. TypeOK'
    BY <2>1 DEF Inv, TypeOK
  <2>3. RowInv'
    BY <2>1 DEF Inv, RowInv, LinkOk, CodeOk, DocumentOk, SignatureOk
  <2>4. CodeInv' /\ ScheduledIffSigned' /\ QueuedSecretsAreCurrent'
    BY <2>1 DEF Inv, CodeInv, ScheduledIffSigned, QueuedSecretsAreCurrent, Active
  <2> QED BY <2>2, <2>3, <2>4 DEF Inv
<1> QED BY <1>1, <1>2, <1>3, <1>4, <1>5, <1>6 DEF Next

-----------------------------------------------------------------------------
(* The theorems.                                                           *)

\* Inv is an invariant of the specification: what the theorems below rest on.
THEOREM InvariantHolds == Spec => []Inv
BY InitInv, NextInv, PTL DEF Spec

\* Every row keeps to its columns: links and codes that were made, attempts and
\* requests within their limits, deadlines within their lives.
THEOREM TypeCorrect == Spec => []TypeOK
<1>1. Inv => TypeOK
  BY DEF Inv
<1> QED BY <1>1, InvariantHolds, PTL

\* An event is scheduled exactly when one contract of it is signed, and it never
\* has two that are not voided: SignContract.sign and ManageContracts decide
\* under the lock of the event.
THEOREM EventsFollowSignatures == Spec => []ScheduledIffSigned
<1>1. Inv => ScheduledIffSigned
  BY DEF Inv
<1> QED BY <1>1, InvariantHolds, PTL

\* The document that is signed is the one its link opened when it was made:
\* update_observations always replaces the link.
THEOREM DocumentsAreSignedAsOffered == Spec => []SignedAsOffered
<1>1. Inv => SignedAsOffered
  BY DEF Inv, RowInv, LinkOk, DocumentOk, SignatureOk, SignedAsOffered
<1> QED BY <1>1, InvariantHolds, PTL

\* Codes, links and proofs of the past sign nothing: sign compares the code of
\* the proof with the code of the row.
THEOREM SignaturesUseTheLastCode == Spec => []SignedWithLastCode
<1>1. Inv => SignedWithLastCode
  BY DEF Inv, RowInv, SignatureOk, SignedWithLastCode
<1> QED BY <1>1, InvariantHolds, PTL

\* A code resists MaxAttempts wrong guesses, and nobody signs with it after the
\* last one: replacing the link resets the attempts and takes the code away.
THEOREM GuessesStayBounded == Spec => []GuessesAreBounded
<1>1. Inv => GuessesAreBounded
  BY DEF Inv, RowInv, CodeInv, SignatureOk, GuessesAreBounded
<1> QED BY <1>1, InvariantHolds, PTL

\* What waits in the outbox for its first dispatch is the present link or the
\* last code of its contract: invalidate_pending_links runs with every change.
THEOREM QueuedSecretsStayCurrent == Spec => []QueuedSecretsAreCurrent
<1>1. Inv => QueuedSecretsAreCurrent
  BY DEF Inv
<1> QED BY <1>1, InvariantHolds, PTL
=============================================================================

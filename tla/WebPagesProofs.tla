---------------------------- MODULE WebPagesProofs ----------------------------
(***************************************************************************)
(* Proofs about pages of the web client whose answers arrive in any order, *)
(* each for every value of its bounds: the e-mail address of the account   *)
(* (AccountPage), the import of a file (DataTransfer), the operations on   *)
(* backups that are proven afresh (AdminBackup), the filters and the order *)
(* of the dashboard (DashboardList), the users, the settings and the       *)
(* panels of the administrator (AdminPage), and the lists of the settings  *)
(* (SettingsLists); and about what two tabs share: the rates (RateCache)   *)
(* and the looks (Appearance).                                             *)
(***************************************************************************)
EXTENDS AccountPage, DataTransfer, AdminBackup, AdminPage, DashboardList, RateCache, Appearance,
        SettingsLists, SequenceTheorems, FiniteSetTheorems, TLAPS

-----------------------------------------------------------------------------
(* AccountPage: the address is proven, and the one that is shown. *)

AccountSpec == AccountInit /\ [][AccountNext]_accountVars

AccountRequest == [n : Nat, op : {"me", "code", "change"}, address : Addresses \cup {None},
                   code : Addresses \cup {None}, at : {"sent", "change", "done", "refused"},
                   answer : Addresses \cup {None}]

AccountTypeOK ==
    /\ accountSends \in Nat /\ accountReqs \subseteq AccountRequest
    /\ email \in Addresses /\ mailed \subseteq Addresses
    /\ newEmail \in Addresses \cup {None} /\ codeTyped \in Addresses \cup {None}
    /\ userCrossed \in BOOLEAN
    /\ \A q \in accountReqs : q.op \in {"code", "change"} => q.address \in Addresses

\* A change that is about to set the address has presented its code.
ChangesProven ==
    \A q \in accountReqs : q.at = "change" => q.op = "change" /\ q.address \in presentedCodes

\* Unless a change crossed another request it is alone, and the answers that are on their way,
\* like the page once they have arrived, have the address of the account.
AnswersAgree ==
    ~userCrossed =>
        /\ \A q \in accountReqs : q.op = "change" => \A p \in accountReqs : p = q
        /\ \A q \in accountReqs : q.op \in {"me", "change"} /\ q.at = "done" => q.answer = email
        /\ userEmail # None => \/ userEmail = email
                               \/ \E q \in accountReqs : q.op = "change" /\ q.at = "done"

AccountInv == AccountTypeOK /\ ChangesProven /\ AddressProven /\ AnswersAgree

\* The page asks: with a change among the requests under way they cross.
LEMMA AccountAskKeeps ==
  ASSUME AccountInv, NEW op \in {"me", "code", "change"}, NEW address \in Addresses \cup {None},
         NEW code \in Addresses \cup {None}, AccountAsk(op, address, code),
         op # "me" => address \in Addresses,
         UNCHANGED <<emailAtServer, userEmail, newEmail, codeTyped>>
  PROVE  AccountInv'
<1>1. PICK q : q = [n |-> accountSends + 1, op |-> op, address |-> address, code |-> code, at |-> "sent",
                    answer |-> None]
  OBVIOUS
<1>2. q \in AccountRequest /\ q.op = op /\ q.at = "sent" /\ q.address = address
  BY <1>1 DEF AccountInv, AccountTypeOK, AccountRequest
<1>3. accountReqs' = accountReqs \cup {q} /\ accountSends' = accountSends + 1
      /\ userCrossed' = (userCrossed \/ \E p \in accountReqs : "change" \in {op, p.op})
      /\ UNCHANGED <<email, takenBy, codesAt, mailed, presentedCodes>>
  BY <1>1 DEF AccountAsk, emailAtServer
<1>4. AccountTypeOK'
  BY <1>2, <1>3 DEF AccountInv, AccountTypeOK
<1>5. ChangesProven' /\ AddressProven'
  BY <1>2, <1>3 DEF AccountInv, ChangesProven, AddressProven
<1>6. AnswersAgree'
  <2> SUFFICES ASSUME ~userCrossed'
               PROVE  AnswersAgree'
    BY DEF AnswersAgree
  <2>1. ~userCrossed /\ \A p \in accountReqs : p.op # "change" /\ op # "change"
    BY <1>3
  <2> QED
    BY <1>2, <1>3, <2>1 DEF AccountInv, AnswersAgree
<1> QED
  BY <1>4, <1>5, <1>6 DEF AccountInv

\* The server moves one request on and leaves the address alone.
LEMMA AccountAtKeeps ==
  ASSUME AccountInv, NEW q \in accountReqs, NEW at \in {"sent", "change", "done", "refused"},
         NEW answer \in Addresses \cup {None}, AccountAt(q, at, answer),
         at = "change" => q.op = "change" /\ q.address \in presentedCodes',
         at = "done" => q.op = "code" \/ (q.op = "me" /\ answer = email),
         q.at # "done", presentedCodes \subseteq presentedCodes', mailed' \subseteq Addresses,
         UNCHANGED <<email, userEmail, newEmail, codeTyped, accountSends, userCrossed>>
  PROVE  AccountInv'
<1>1. PICK r : r = [q EXCEPT !.at = at, !.answer = answer]
  OBVIOUS
<1>2. r \in AccountRequest /\ r.op = q.op /\ r.address = q.address /\ r.at = at /\ r.answer = answer
  BY <1>1 DEF AccountInv, AccountTypeOK, AccountRequest
<1>3. accountReqs' = (accountReqs \ {q}) \cup {r}
  BY <1>1 DEF AccountAt
<1>4. AccountTypeOK'
  BY <1>2, <1>3 DEF AccountInv, AccountTypeOK
<1>5. ChangesProven' /\ AddressProven'
  BY <1>2, <1>3 DEF AccountInv, ChangesProven, AddressProven
<1>6. AnswersAgree'
  <2> SUFFICES ASSUME ~userCrossed
               PROVE  AnswersAgree'
    BY DEF AnswersAgree
  <2>1. \A p \in accountReqs' : p.op = "change" => \A s \in accountReqs' : s = p
    BY <1>2, <1>3 DEF AccountInv, AnswersAgree
  <2>2. \A p \in accountReqs' : p.op \in {"me", "change"} /\ p.at = "done" => p.answer = email
    BY <1>2, <1>3 DEF AccountInv, AnswersAgree
  <2>3. \A p \in accountReqs : p.op = "change" /\ p.at = "done" => p \in accountReqs'
    BY <1>3
  <2> QED
    BY <2>1, <2>2, <2>3 DEF AccountInv, AnswersAgree
<1> QED
  BY <1>4, <1>5, <1>6 DEF AccountInv

LEMMA SetEmailKeeps ==
  ASSUME AccountInv, NEW q \in accountReqs, SetEmail(q)
  PROVE  AccountInv'
<1>1. q.at = "change" /\ q.op = "change" /\ q.address \in presentedCodes /\ q.address \in Addresses
  BY DEF SetEmail, AccountInv, ChangesProven, AccountTypeOK
<1>2. CASE q.address \in takenBy
  <2>1. AccountAt(q, "refused", None)
        /\ UNCHANGED <<email, presentedCodes, mailed, userEmail, newEmail, codeTyped, accountSends, userCrossed>>
    BY <1>2 DEF SetEmail
  <2>2. mailed' \subseteq Addresses
    BY <2>1 DEF AccountInv, AccountTypeOK
  <2> QED
    BY <1>1, <2>1, <2>2, AccountAtKeeps
<1>3. CASE q.address \notin takenBy
  <2>1. PICK r : r = [q EXCEPT !.at = "done", !.answer = q.address]
    OBVIOUS
  <2>2. r \in AccountRequest /\ r.op = "change" /\ r.at = "done" /\ r.address = q.address /\ r.answer = q.address
    BY <1>1, <2>1 DEF AccountInv, AccountTypeOK, AccountRequest
  <2>3. accountReqs' = (accountReqs \ {q}) \cup {r} /\ email' = q.address
        /\ UNCHANGED <<presentedCodes, mailed, userEmail, newEmail, codeTyped, accountSends, userCrossed>>
    BY <1>3, <2>1 DEF SetEmail, AccountAt
  <2>4. AccountTypeOK'
    BY <1>1, <2>2, <2>3 DEF AccountInv, AccountTypeOK
  <2>5. ChangesProven' /\ AddressProven'
    BY <1>1, <2>2, <2>3 DEF AccountInv, ChangesProven, AddressProven
  <2>6. AnswersAgree'
    <3> SUFFICES ASSUME ~userCrossed
                 PROVE  AnswersAgree'
      BY <2>3 DEF AnswersAgree
    <3>1. \A p \in accountReqs : p = q
      BY <1>1 DEF AccountInv, AnswersAgree
    <3>2. accountReqs' = {r}
      BY <2>3, <3>1
    <3> QED
      BY <2>2, <2>3, <3>2 DEF AnswersAgree
  <2> QED
    BY <2>4, <2>5, <2>6 DEF AccountInv
<1> QED
  BY <1>2, <1>3

LEMMA AccountAnsweredKeeps ==
  ASSUME AccountInv, NEW q \in accountReqs, AccountAnswered(q)
  PROVE  AccountInv'
<1>1. q.at = "done" /\ accountReqs' = accountReqs \ {q} /\ userEmail' = UserOf(q)
      /\ newEmail' \in {newEmail, None} /\ codeTyped' \in {codeTyped, None}
      /\ UNCHANGED <<email, mailed, presentedCodes, accountSends, userCrossed>>
  BY DEF AccountAnswered, emailAtServer
<1>2. AccountTypeOK' /\ ChangesProven' /\ AddressProven'
  BY <1>1 DEF AccountInv, AccountTypeOK, ChangesProven, AddressProven
<1>3. AnswersAgree'
  <2> SUFFICES ASSUME ~userCrossed
               PROVE  AnswersAgree'
    BY <1>1 DEF AnswersAgree
  <2>1. CASE q.op \in {"me", "change"}
    <3>1. userEmail' = email
      BY <1>1, <2>1 DEF UserOf, AccountInv, AnswersAgree
    <3> QED
      BY <1>1, <3>1 DEF AccountInv, AnswersAgree
  <2>2. CASE q.op \notin {"me", "change"}
    <3>1. userEmail' = userEmail
      BY <1>1, <2>2 DEF UserOf
    <3> QED
      BY <1>1, <2>2, <3>1 DEF AccountInv, AnswersAgree
  <2> QED
    BY <2>1, <2>2
<1> QED
  BY <1>2, <1>3 DEF AccountInv

LEMMA AccountRefusedKeeps ==
  ASSUME AccountInv, NEW q \in accountReqs, AccountRefused(q)
  PROVE  AccountInv'
<1>1. accountReqs' = accountReqs \ {q}
      /\ userCrossed' = (userCrossed \/ q.op = "me" \/ (q.op = "change" /\ q.at = "done"))
      /\ UNCHANGED <<email, mailed, presentedCodes, userEmail, newEmail, codeTyped, accountSends>>
  BY DEF AccountRefused, emailAtServer
<1>2. AccountTypeOK' /\ ChangesProven' /\ AddressProven'
  BY <1>1 DEF AccountInv, AccountTypeOK, ChangesProven, AddressProven
<1>3. AnswersAgree'
  <2> SUFFICES ASSUME ~userCrossed'
               PROVE  AnswersAgree'
    BY DEF AnswersAgree
  <2>1. ~userCrossed /\ ~(q.op = "change" /\ q.at = "done")
    BY <1>1
  <2> QED
    BY <1>1, <2>1 DEF AccountInv, AnswersAgree
<1> QED
  BY <1>2, <1>3 DEF AccountInv

LEMMA AccountStep ==
  ASSUME AccountInv, [AccountNext]_accountVars
  PROVE  AccountInv'
<1> USE DEF emailAtServer
<1>1. AccountTypeOK
  BY DEF AccountInv
<1>2. CASE FetchUser
  <2>1. AccountAsk("me", None, None) /\ UNCHANGED <<emailAtServer, userEmail, newEmail, codeTyped>>
    BY <1>2 DEF FetchUser
  <2> QED
    BY <2>1, AccountAskKeeps
<1>3. CASE SendEmailChangeCode
  <2>1. AccountAsk("code", newEmail, None) /\ UNCHANGED <<emailAtServer, userEmail, newEmail, codeTyped>>
        /\ newEmail \in Addresses
    BY <1>1, <1>3 DEF SendEmailChangeCode, AccountTypeOK
  <2> QED
    BY <2>1, AccountAskKeeps
<1>4. CASE ConfirmEmailChange
  <2>1. AccountAsk("change", newEmail, codeTyped) /\ UNCHANGED <<emailAtServer, userEmail, newEmail, codeTyped>>
        /\ newEmail \in Addresses /\ codeTyped \in Addresses \cup {None}
    BY <1>1, <1>4 DEF ConfirmEmailChange, AccountTypeOK
  <2> QED
    BY <2>1, AccountAskKeeps
<1>5. ASSUME NEW address \in Addresses, NEW code \in mailed \cup {None}, TypeAddress(address, code)
      PROVE  AccountInv'
  <2>1. newEmail' = address /\ codeTyped' = code
        /\ UNCHANGED <<email, mailed, presentedCodes, accountReqs, userEmail, accountSends, userCrossed>>
    BY <1>5 DEF TypeAddress
  <2>2. code \in Addresses \cup {None}
    BY <1>1 DEF AccountTypeOK
  <2> QED
    BY <2>1, <2>2 DEF AccountInv, AccountTypeOK, ChangesProven, AddressProven, AnswersAgree
<1>6. ASSUME NEW address \in Addresses, TakeAddress(address)
      PROVE  AccountInv'
  <2>1. UNCHANGED <<email, mailed, presentedCodes, accountReqs, userEmail, newEmail, codeTyped, accountSends, userCrossed>>
    BY <1>6 DEF TakeAddress
  <2> QED
    BY <2>1 DEF AccountInv, AccountTypeOK, ChangesProven, AddressProven, AnswersAgree
<1>7. ASSUME NEW q \in accountReqs, ReadAccount(q)
      PROVE  AccountInv'
  <2>1. q.op = "me" /\ q.at = "sent" /\ AccountAt(q, "done", email)
        /\ UNCHANGED <<email, mailed, presentedCodes, userEmail, newEmail, codeTyped, accountSends, userCrossed>>
    BY <1>7 DEF ReadAccount
  <2>2. email \in Addresses /\ mailed' \subseteq Addresses
    BY <1>1, <2>1 DEF AccountTypeOK
  <2> QED
    BY <2>1, <2>2, AccountAtKeeps
<1>8. ASSUME NEW q \in accountReqs, MailChangeCode(q)
      PROVE  AccountInv'
  <2>1. q.op = "code" /\ q.at = "sent" /\ mailed' \in {mailed, mailed \cup {q.address}}
        /\ UNCHANGED <<email, presentedCodes, userEmail, newEmail, codeTyped, accountSends, userCrossed>>
        /\ (AccountAt(q, "refused", None) \/ AccountAt(q, "done", None))
    BY <1>8 DEF MailChangeCode
  <2>2. mailed' \subseteq Addresses
    BY <1>1, <2>1 DEF AccountTypeOK
  <2> QED
    BY <2>1, <2>2, AccountAtKeeps
<1>9. ASSUME NEW q \in accountReqs, ConsumeChangeCode(q)
      PROVE  AccountInv'
  <2>1. q.op = "change" /\ q.at = "sent"
        /\ UNCHANGED <<email, mailed, userEmail, newEmail, codeTyped, accountSends, userCrossed>>
    BY <1>9 DEF ConsumeChangeCode
  <2>2. \/ AccountAt(q, "change", None) /\ presentedCodes' = presentedCodes \cup {q.address}
        \/ AccountAt(q, "refused", None) /\ presentedCodes' = presentedCodes
    BY <1>9 DEF ConsumeChangeCode, CodeFits
  <2>3. mailed' \subseteq Addresses
    BY <1>1, <2>1 DEF AccountTypeOK
  <2> QED
    BY <2>1, <2>2, <2>3, AccountAtKeeps
<1>10. CASE UNCHANGED accountVars
  BY <1>10 DEF accountVars, AccountInv, AccountTypeOK, ChangesProven, AddressProven, AnswersAgree
<1> QED
  BY <1>2, <1>3, <1>4, <1>5, <1>6, <1>7, <1>8, <1>9, <1>10, SetEmailKeeps, AccountAnsweredKeeps, AccountRefusedKeeps
  DEF AccountNext

THEOREM AccountInvariant == AccountSpec => []AccountInv
<1>1. AccountInit => AccountInv
  <2> SUFFICES ASSUME AccountInit
               PROVE  AccountInv
    OBVIOUS
  <2>1. AccountTypeOK
    BY DEF AccountInit, AccountTypeOK, Addresses
  <2>2. ChangesProven /\ AddressProven /\ AnswersAgree
    BY DEF AccountInit, ChangesProven, AddressProven, AnswersAgree
  <2> QED
    BY <2>1, <2>2 DEF AccountInv
<1>2. AccountInv /\ [AccountNext]_accountVars => AccountInv'
  BY AccountStep
<1> QED
  BY <1>1, <1>2, PTL DEF AccountSpec

\* The account has an address whose own code was presented, whatever is typed, taken or lost in
\* between, and the page shows it once all is answered and nothing failed or crossed.
THEOREM AddressesAgree == AccountSpec => []AddressAgrees
<1>1. AccountInv => AddressAgrees
  BY DEF AccountInv, AddressAgrees, AddressShown, AnswersAgree
<1> QED
  BY <1>1, AccountInvariant, PTL

-----------------------------------------------------------------------------
(* DataTransfer: an import is done once, and shown as long as it lasts. *)

TransferSpec == TransferInit /\ [][TransferNext]_transferVars

TransferRequest == [n : Nat, op : {"export", "secrets", "preview", "confirm"}, format : Formats \cup {None},
                    file : Uploads \cup {<<>>}, at : {"sent", "done"}, news : SUBSET Names]

PreviewOfFile == [file : Uploads \cup {<<>>}, news : SUBSET Names]

TransferTypeOK ==
    /\ held \in [Names -> Nat] /\ imported \in [Names -> Nat]
    /\ transferCount \in Nat /\ transfers \subseteq TransferRequest
    /\ previewed \in [Formats -> PreviewOfFile \cup {None}]
    /\ \A q \in transfers : q.op \in {"preview", "confirm"} <=> q.format \in Formats

\* What imports have made is there.
ImportsHeld == \A x \in Names : imported[x] <= held[x]

\* A format has one request at a time, which its flag stands for.
OneOfAFormat ==
    \A q \in transfers : q.format \in Formats =>
        /\ q.format \in importing
        /\ \A p \in transfers : p.format = q.format => p = q

TransferInv == TransferTypeOK /\ ImportsHeld /\ ImportedOnce /\ OneOfAFormat /\ ImportIsShown

LEMMA NewRowsIs ==
  ASSUME NEW x, NEW file
  PROVE  NewRows(x, file) \in {0, 1} /\ (NewRows(x, file) = 1 => held[x] = 0)
BY DEF NewRows

\* The page asks.
LEMMA TransferKeeps ==
  ASSUME TransferInv, NEW op \in {"export", "secrets", "preview", "confirm"}, NEW format \in Formats \cup {None},
         NEW file \in Uploads \cup {<<>>}, Transfer(op, format, file),
         op \in {"preview", "confirm"} <=> format \in Formats,
         format \in Formats => format \notin importing /\ importing' = importing \cup {format},
         importing \subseteq importing',
         op = "confirm" => PreviewOpen(format) /\ previewed[format].file = file,
         UNCHANGED <<held, imported, previewed>>
  PROVE  TransferInv'
<1>1. PICK q : q = [n |-> transferCount + 1, op |-> op, format |-> format, file |-> file, at |-> "sent", news |-> {}]
  OBVIOUS
<1>2. q \in TransferRequest /\ q.op = op /\ q.format = format /\ q.file = file
  BY <1>1 DEF TransferInv, TransferTypeOK, TransferRequest
<1>3. transfers' = transfers \cup {q} /\ transferCount' = transferCount + 1
  BY <1>1 DEF Transfer
<1>4. TransferTypeOK'
  BY <1>2, <1>3 DEF TransferInv, TransferTypeOK
<1>5. ImportsHeld' /\ ImportedOnce'
  BY DEF TransferInv, ImportsHeld, ImportedOnce
<1>6. format \in Formats => \A p \in transfers : p.format # format
  BY DEF TransferInv, OneOfAFormat
<1>7. OneOfAFormat'
  BY <1>2, <1>3, <1>6 DEF TransferInv, OneOfAFormat
<1>8. ImportIsShown'
  <2>1. \A p \in transfers : p.op = "confirm" => p.format \in Formats
    BY DEF TransferInv, TransferTypeOK
  <2> QED
    BY <1>2, <1>3, <1>6, <2>1 DEF TransferInv, ImportIsShown, PreviewOpen
<1> QED
  BY <1>4, <1>5, <1>7, <1>8 DEF TransferInv

LEMMA ServeKeeps ==
  ASSUME TransferInv, NEW q \in transfers, ServeTransfer(q)
  PROVE  TransferInv'
<1>1. PICK r : r = [q EXCEPT !.at = "done", !.news = {x \in Names : NewRows(x, q.file) > 0}]
  OBVIOUS
<1>2. r \in TransferRequest /\ r.op = q.op /\ r.format = q.format /\ r.file = q.file
  BY <1>1 DEF TransferInv, TransferTypeOK, TransferRequest
<1>3. transfers' = (transfers \ {q}) \cup {r} /\ UNCHANGED <<importing, previewed, transferCount>>
  BY <1>1 DEF ServeTransfer
<1>4. /\ held' \in [Names -> Nat] /\ imported' \in [Names -> Nat]
      /\ \A x \in Names : imported'[x] <= held'[x] /\ imported'[x] <= 1
  <2>1. CASE UNCHANGED <<held, imported>>
    BY <2>1 DEF TransferInv, TransferTypeOK, ImportsHeld, ImportedOnce
  <2>2. CASE /\ held' = [x \in Names |-> held[x] + NewRows(x, q.file)]
             /\ imported' = [x \in Names |-> imported[x] + NewRows(x, q.file)]
    <3>1. ASSUME NEW x \in Names
          PROVE  /\ held[x] + NewRows(x, q.file) \in Nat /\ imported[x] + NewRows(x, q.file) \in Nat
                 /\ imported[x] + NewRows(x, q.file) <= held[x] + NewRows(x, q.file)
                 /\ imported[x] + NewRows(x, q.file) <= 1
      <4>1. held[x] \in Nat /\ imported[x] \in Nat /\ imported[x] <= held[x] /\ imported[x] <= 1
        BY DEF TransferInv, TransferTypeOK, ImportsHeld, ImportedOnce
      <4>2. NewRows(x, q.file) = 0 \/ (NewRows(x, q.file) = 1 /\ held[x] = 0)
        BY NewRowsIs
      <4> QED
        BY <4>1, <4>2
    <3> QED
      BY <2>2, <3>1
  <2> QED
    BY <2>1, <2>2 DEF ServeTransfer
<1>5. TransferTypeOK'
  BY <1>2, <1>3, <1>4 DEF TransferInv, TransferTypeOK
<1>6. OneOfAFormat'
  BY <1>2, <1>3 DEF TransferInv, OneOfAFormat
<1>7. ImportIsShown'
  BY <1>2, <1>3 DEF TransferInv, ImportIsShown, PreviewOpen
<1> QED
  BY <1>4, <1>5, <1>6, <1>7 DEF TransferInv, ImportsHeld, ImportedOnce

\* A request ends, and with it, at most, the preview of its format.
LEMMA TransferEnds ==
  ASSUME TransferInv, NEW q \in transfers, transfers' = transfers \ {q}, importing' = importing \ {q.format},
         UNCHANGED <<held, imported, transferCount>>,
         \/ UNCHANGED previewed
         \/ /\ q.format \in Formats
            /\ \E p \in PreviewOfFile \cup {None} : previewed' = [previewed EXCEPT ![q.format] = p]
  PROVE  TransferInv'
<1>1. /\ previewed' \in [Formats -> PreviewOfFile \cup {None}]
      /\ \A f \in Formats : f # q.format => previewed'[f] = previewed[f]
  BY DEF TransferInv, TransferTypeOK
<1>2. TransferTypeOK'
  BY <1>1 DEF TransferInv, TransferTypeOK
<1>3. ImportsHeld' /\ ImportedOnce'
  BY DEF TransferInv, ImportsHeld, ImportedOnce
<1>4. \A p \in transfers' : p.format \in Formats => p.format # q.format
  BY DEF TransferInv, OneOfAFormat
<1>5. OneOfAFormat'
  BY <1>4 DEF TransferInv, OneOfAFormat
<1>6. ImportIsShown'
  <2>1. \A p \in transfers' : p.op = "confirm" => p.format \in Formats /\ previewed'[p.format] = previewed[p.format]
    BY <1>1, <1>4 DEF TransferInv, TransferTypeOK
  <2> QED
    BY <2>1 DEF TransferInv, ImportIsShown, PreviewOpen
<1> QED
  BY <1>2, <1>3, <1>5, <1>6 DEF TransferInv

LEMMA TransferStep ==
  ASSUME TransferInv, [TransferNext]_transferVars
  PROVE  TransferInv'
<1>1. TransferTypeOK
  BY DEF TransferInv
<1>2. ASSUME NEW b \in BOOLEAN, Export(b)
      PROVE  TransferInv'
  <2>1. PICK op \in {"export", "secrets"} : Transfer(op, None, <<>>)
    BY <1>2 DEF Export
  <2>2. UNCHANGED <<held, importing, previewed, imported>>
    BY <1>2 DEF Export
  <2>3. None \notin Formats
    BY FormatsAssumption
  <2> QED
    BY <2>1, <2>2, <2>3, TransferKeeps
<1>3. ASSUME NEW format \in Formats, NEW file \in Uploads, ChooseFile(format, file)
      PROVE  TransferInv'
  <2>1. Transfer("preview", format, file) /\ format \notin importing /\ importing' = importing \cup {format}
        /\ UNCHANGED <<held, previewed, imported>>
    BY <1>3 DEF ChooseFile
  <2> QED
    BY <2>1, TransferKeeps
<1>4. ASSUME NEW format \in Formats, ConfirmImport(format)
      PROVE  TransferInv'
  <2>1. Transfer("confirm", format, previewed[format].file) /\ format \notin importing /\ PreviewOpen(format)
        /\ importing' = importing \cup {format} /\ UNCHANGED <<held, previewed, imported>>
    BY <1>4 DEF ConfirmImport
  <2>2. previewed[format].file \in Uploads \cup {<<>>}
    BY <1>1, <2>1 DEF TransferTypeOK, PreviewOpen, PreviewOfFile
  <2> QED
    BY <2>1, <2>2, TransferKeeps
<1>5. ASSUME NEW format \in Formats, Dismiss(format)
      PROVE  TransferInv'
  <2>1. format \notin importing /\ previewed' = [previewed EXCEPT ![format] = None]
        /\ UNCHANGED <<held, transfers, importing, transferCount, imported>>
    BY <1>5 DEF Dismiss
  <2>2. TransferTypeOK' /\ \A f \in Formats : f # format => previewed'[f] = previewed[f]
    BY <1>1, <2>1 DEF TransferTypeOK
  <2>3. ImportsHeld' /\ ImportedOnce' /\ OneOfAFormat'
    BY <2>1 DEF TransferInv, ImportsHeld, ImportedOnce, OneOfAFormat
  <2>4. \A q \in transfers : q.op = "confirm" => q.format \in Formats /\ q.format # format
    BY <1>1, <2>1 DEF TransferInv, TransferTypeOK, OneOfAFormat
  <2>5. ImportIsShown'
    BY <2>1, <2>2, <2>4 DEF TransferInv, ImportIsShown, PreviewOpen
  <2> QED
    BY <2>2, <2>3, <2>5 DEF TransferInv
<1>6. ASSUME NEW x \in Names, Forget(x)
      PROVE  TransferInv'
  <2>1. held' = [held EXCEPT ![x] = 0] /\ imported' = [imported EXCEPT ![x] = 0]
        /\ UNCHANGED <<transfers, importing, previewed, transferCount>>
    BY <1>6 DEF Forget
  <2>2. TransferTypeOK'
    BY <1>1, <2>1 DEF TransferTypeOK
  <2>3. ImportsHeld' /\ ImportedOnce'
    BY <1>1, <2>1 DEF TransferInv, TransferTypeOK, ImportsHeld, ImportedOnce
  <2> QED
    BY <2>1, <2>2, <2>3 DEF TransferInv, OneOfAFormat, ImportIsShown, PreviewOpen
<1>7. ASSUME NEW q \in transfers, TransferAnswered(q)
      PROVE  TransferInv'
  <2>1. transfers' = transfers \ {q} /\ importing' = importing \ {q.format} /\ UNCHANGED <<held, transferCount, imported>>
    BY <1>7 DEF TransferAnswered
  <2>2. q \in TransferRequest
    BY <1>1 DEF TransferTypeOK
  <2>3. CASE q.op = "preview"
    <3>1. PICK p : p = [file |-> q.file, news |-> q.news]
      OBVIOUS
    <3>2. p \in PreviewOfFile
      BY <2>2, <3>1 DEF PreviewOfFile, TransferRequest
    <3>3. previewed' = [previewed EXCEPT ![q.format] = p] /\ q.format \in Formats
      BY <1>1, <1>7, <2>3, <3>1 DEF TransferAnswered, TransferTypeOK
    <3> QED
      BY <2>1, <3>2, <3>3, TransferEnds
  <2>4. CASE q.op = "confirm"
    <3>1. previewed' = [previewed EXCEPT ![q.format] = None] /\ q.format \in Formats
      BY <1>1, <1>7, <2>4 DEF TransferAnswered, TransferTypeOK
    <3> QED
      BY <2>1, <3>1, TransferEnds
  <2>5. CASE q.op \notin {"preview", "confirm"}
    <3>1. previewed' = previewed
      BY <1>7, <2>5 DEF TransferAnswered
    <3> QED
      BY <2>1, <3>1, TransferEnds
  <2> QED
    BY <2>3, <2>4, <2>5
<1>8. ASSUME NEW q \in transfers, TransferFails(q)
      PROVE  TransferInv'
  <2>1. transfers' = transfers \ {q} /\ importing' = importing \ {q.format}
        /\ UNCHANGED <<held, transferCount, imported, previewed>>
    BY <1>8 DEF TransferFails
  <2> QED
    BY <2>1, TransferEnds
<1>9. ASSUME \/ \E b \in BOOLEAN : OpenSecrets(b)
             \/ \E x \in Names : Advance(x)
             \/ UNCHANGED transferVars
      PROVE  TransferInv'
  <2>1. UNCHANGED <<held, transfers, importing, previewed, transferCount, imported>>
    BY <1>9 DEF OpenSecrets, Advance, transferVars
  <2> QED
    BY <2>1 DEF TransferInv, TransferTypeOK, ImportsHeld, ImportedOnce, OneOfAFormat, ImportIsShown, PreviewOpen
<1> QED
  BY <1>2, <1>3, <1>4, <1>5, <1>6, <1>7, <1>8, <1>9, ServeKeeps DEF TransferNext

THEOREM TransferInvariant == TransferSpec => []TransferInv
<1>1. TransferInit => TransferInv
  <2> SUFFICES ASSUME TransferInit
               PROVE  TransferInv
    OBVIOUS
  <2>1. TransferTypeOK
    BY DEF TransferInit, TransferTypeOK
  <2>2. ImportsHeld /\ ImportedOnce /\ OneOfAFormat /\ ImportIsShown
    BY DEF TransferInit, ImportsHeld, ImportedOnce, OneOfAFormat, ImportIsShown
  <2> QED
    BY <2>1, <2>2 DEF TransferInv
<1>2. TransferInv /\ [TransferNext]_transferVars => TransferInv'
  BY TransferStep
<1> QED
  BY <1>1, <1>2, PTL DEF TransferSpec

\* No name is imported twice, however often an import is confirmed again and whichever format
\* it comes in, and an import under way has the preview of its file on the screen.
THEOREM ImportsAgree == TransferSpec => []ImportAgrees
<1>1. TransferInv => ImportAgrees
  BY DEF TransferInv, ImportAgrees
<1> QED
  BY <1>1, TransferInvariant, PTL

-----------------------------------------------------------------------------
(* AdminBackup: every operation has a factor of its own behind it. *)

BackupSpec == BackupInit /\ [][BackupNext]_backupVars

Proof == [id : Nat, op : Operations]

Flow == [id : Nat, dialog : Nat, op : Operations, how : Factors,
         at : {"start", "browser", "finish", "ticket", "sent", "done", "refused"}, proof : Nat \cup {None}]

\* The number of the factor that a flow is going to prove itself with, or has: its own as long
\* as it will present it, and the one its ticket was given for until the server has carried it
\* out.  A flow that waits for the answer of a popup has none: the session names it.
Claims(x) == \/ x.at \in {"start", "browser", "ticket", "sent"}
             \/ x.at = "finish" /\ x.how # "oidc"

ProofOf(x) == IF x.at \in {"ticket", "sent"} THEN x.proof ELSE x.id

Presented(id, op) == \E p \in presented : p.id = id /\ p.op = op

BackupTypeOK ==
    /\ presented \subseteq Proof /\ IsFiniteSet(presented)
    /\ flows \subseteq Flow
    /\ mounted \in Nat /\ reauthPrompt \in Operations \cup {None}

\* The factors are numbered as they are presented.
ProofsNumbered ==
    /\ \A p \in presented : p.id <= Cardinality(presented)
    /\ \A x \in flows : \E p \in presented : p.id = x.id
    /\ \A x, y \in flows : x.id = y.id => x = y

\* Each factor is claimed once: by a flow, by the session of a popup, or by what was carried out.
ClaimsApart ==
    /\ \A x, y \in flows : Claims(x) /\ Claims(y) /\ ProofOf(x) = ProofOf(y) => x = y
    /\ \A x \in flows : Claims(x) => Presented(ProofOf(x), x.op)
    /\ \A x \in flows, r \in ran : Claims(x) => ProofOf(x) # r.proof

SessionsApart ==
    oidcResult # None =>
        /\ \E p \in presented : p.id = oidcResult.proof /\ (oidcResult.op # None => p.op = oidcResult.op)
        /\ \A x \in flows : Claims(x) => ProofOf(x) # oidcResult.proof
        /\ \A r \in ran : r.proof # oidcResult.proof

BackupInv ==
    /\ BackupTypeOK /\ ProofsNumbered /\ ClaimsApart /\ SessionsApart
    /\ EachRunIsProven /\ NoOrphanPopup

\* All but the popup, which each step of the dialog keeps by itself.
ProofsInv ==
    BackupTypeOK /\ ProofsNumbered /\ ClaimsApart /\ SessionsApart /\ EachRunIsProven

\* Flows end, and what a flow of a popup that has answered claimed is gone.
LEMMA FlowsEnd ==
  ASSUME ProofsInv, flows' \subseteq flows, oidcResult' \in {oidcResult, None}, UNCHANGED <<presented, ran>>,
         mounted' \in Nat, reauthPrompt' \in Operations \cup {None}
  PROVE  ProofsInv'
<1>1. BackupTypeOK' /\ ProofsNumbered'
  BY DEF ProofsInv, BackupTypeOK, ProofsNumbered
<1>2. ClaimsApart' /\ EachRunIsProven'
  BY DEF ProofsInv, ClaimsApart, EachRunIsProven, Presented
<1>3. SessionsApart'
  BY DEF ProofsInv, SessionsApart
<1> QED
  BY <1>1, <1>2, <1>3 DEF ProofsInv

\* A flow goes on with what it claims.
LEMMA FlowGoesOn ==
  ASSUME ProofsInv, NEW x \in flows, NEW y \in Flow, flows' = (flows \ {x}) \cup {y},
         y.id = x.id, y.op = x.op, Claims(y) => Claims(x) /\ ProofOf(y) = ProofOf(x),
         UNCHANGED <<presented, ran, oidcResult>>, mounted' \in Nat, reauthPrompt' \in Operations \cup {None}
  PROVE  ProofsInv'
<1>1. BackupTypeOK'
  BY DEF ProofsInv, BackupTypeOK
<1>2. ProofsNumbered'
  BY DEF ProofsInv, ProofsNumbered
<1>3. ClaimsApart'
  <2>1. \A z \in flows' : z \in flows \/ z = y
    OBVIOUS
  <2>2. \A z, w \in flows' : Claims(z) /\ Claims(w) /\ ProofOf(z) = ProofOf(w) => z = w
    BY <2>1 DEF ProofsInv, ClaimsApart
  <2>3. \A z \in flows' : Claims(z) => Presented(ProofOf(z), z.op)'
    BY <2>1 DEF ProofsInv, ClaimsApart, Presented
  <2>4. \A z \in flows', r \in ran : Claims(z) => ProofOf(z) # r.proof
    BY <2>1 DEF ProofsInv, ClaimsApart
  <2> QED
    BY <2>2, <2>3, <2>4 DEF ClaimsApart, Claims, ProofOf
<1>4. SessionsApart' /\ EachRunIsProven'
  BY DEF ProofsInv, SessionsApart, EachRunIsProven
<1> QED
  BY <1>1, <1>2, <1>3, <1>4 DEF ProofsInv

LEMMA PresentFactorProven ==
  ASSUME ProofsInv, NEW how \in Factors, PresentFactor(how)
  PROVE  ProofsInv'
<1> DEFINE id == Cardinality(presented) + 1
<1>1. PICK p : p = [id |-> id, op |-> reauthPrompt]
  OBVIOUS
<1>2. PICK x : x = [id |-> id, dialog |-> mounted, op |-> reauthPrompt, how |-> how, at |-> "start", proof |-> None]
  OBVIOUS
<1>3. presented' = presented \cup {p} /\ flows' = flows \cup {x} /\ UNCHANGED <<reauthPrompt, mounted, oidcResult, ran>>
  BY <1>1, <1>2 DEF PresentFactor
<1>4. Cardinality(presented) \in Nat /\ IsFiniteSet(presented)
  BY FS_CardinalityType DEF ProofsInv, BackupTypeOK
<1>5. reauthPrompt \in Operations
  BY DEF PresentFactor, ProofsInv, BackupTypeOK
<1>6. p \in Proof /\ p.id = id /\ p.op = reauthPrompt /\ id \in Nat
  BY <1>1, <1>4, <1>5 DEF Proof
<1>7. x \in Flow /\ x.id = id /\ x.op = reauthPrompt /\ x.at = "start"
  BY <1>2, <1>4, <1>5 DEF Flow, ProofsInv, BackupTypeOK
<1>8. \A q \in presented : q.id \in Nat /\ q.id # id
  <2>1. \A q \in presented : q.id \in Nat /\ q.id <= Cardinality(presented)
    BY DEF ProofsInv, BackupTypeOK, Proof, ProofsNumbered
  <2> QED
    BY <1>4, <2>1
<1>9. p \notin presented /\ Cardinality(presented') = id /\ IsFiniteSet(presented')
  <2>1. p \notin presented
    BY <1>6, <1>8
  <2> QED
    BY <1>3, <1>4, <2>1, FS_AddElement
<1>10. Claims(x) /\ ProofOf(x) = id
  BY <1>7 DEF Claims, ProofOf
<1>11. \A y \in flows : y.id # id /\ (Claims(y) => ProofOf(y) # id)
  BY <1>8 DEF ProofsInv, ProofsNumbered, ClaimsApart, Presented
<1>12. \A r \in ran : r.proof # id
  BY <1>8 DEF ProofsInv, EachRunIsProven
<1>13. oidcResult # None => oidcResult.proof # id
  BY <1>8 DEF ProofsInv, SessionsApart
<1> HIDE DEF id
<1>14. BackupTypeOK'
  BY <1>3, <1>6, <1>7, <1>9 DEF ProofsInv, BackupTypeOK
<1>15. ProofsNumbered'
  <2>1. \A q \in presented' : q.id <= id
    <3>1. \A q \in presented : q.id \in Nat /\ q.id <= Cardinality(presented)
      BY DEF ProofsInv, BackupTypeOK, Proof, ProofsNumbered
    <3>2. \A q \in presented : q.id <= id
      BY <1>4, <3>1 DEF id
    <3> QED
      BY <1>3, <1>6, <3>2
  <2>2. \A y \in flows' : \E q \in presented' : q.id = y.id
    BY <1>3, <1>6, <1>7 DEF ProofsInv, ProofsNumbered
  <2>3. \A y, z \in flows' : y.id = z.id => y = z
    BY <1>3, <1>7, <1>11 DEF ProofsInv, ProofsNumbered
  <2> QED
    BY <1>9, <2>1, <2>2, <2>3 DEF ProofsNumbered
<1>16. ClaimsApart'
  <2>1. \A y, z \in flows' : Claims(y) /\ Claims(z) /\ ProofOf(y) = ProofOf(z) => y = z
    BY <1>3, <1>10, <1>11 DEF ProofsInv, ClaimsApart
  <2>2. \A y \in flows' : Claims(y) => Presented(ProofOf(y), y.op)'
    BY <1>3, <1>6, <1>7, <1>10 DEF ProofsInv, ClaimsApart, Presented
  <2>3. \A y \in flows', r \in ran : Claims(y) => ProofOf(y) # r.proof
    BY <1>3, <1>10, <1>12 DEF ProofsInv, ClaimsApart
  <2> QED
    BY <1>3, <2>1, <2>2, <2>3 DEF ClaimsApart, Claims, ProofOf
<1>17. SessionsApart'
  BY <1>3, <1>10, <1>13 DEF ProofsInv, SessionsApart, Claims, ProofOf
<1>18. EachRunIsProven'
  BY <1>3 DEF ProofsInv, EachRunIsProven
<1> QED
  BY <1>14, <1>15, <1>16, <1>17, <1>18 DEF ProofsInv

\* The answer of a popup: its factor is claimed by the session, and the flows that hear of it
\* claim nothing any more.
LEMMA PopupAnswersProven ==
  ASSUME ProofsInv, NEW x \in flows, NEW outcome \in BOOLEAN, PopupAnswers(x, outcome)
  PROVE  ProofsInv'
<1> DEFINE heard(y) == IF y.how = "oidc" /\ y.at = "browser" THEN [y EXCEPT !.at = "finish"] ELSE y
<1>1. PICK s : s = [op |-> IF outcome THEN x.op ELSE None, proof |-> x.id]
  OBVIOUS
<1>2. oidcResult' = s /\ flows' = {heard(y) : y \in flows}
      /\ UNCHANGED <<reauthPrompt, mounted, presented, ran>>
  BY <1>1 DEF PopupAnswers
<1>3. x.at = "browser" /\ x.how = "oidc"
  BY DEF PopupAnswers
<1>4. s.proof = x.id /\ (s.op # None => s.op = x.op)
  BY <1>1
<1>5. ASSUME NEW y \in flows
      PROVE  /\ heard(y) \in Flow /\ heard(y).id = y.id /\ heard(y).op = y.op
             /\ Claims(heard(y)) => heard(y) = y
             /\ Claims(heard(y)) => heard(y) # x
  <2>1. y \in Flow
    BY DEF ProofsInv, BackupTypeOK
  <2>2. CASE y.how = "oidc" /\ y.at = "browser"
    <3>1. heard(y) = [y EXCEPT !.at = "finish"]
      BY <2>2
    <3> HIDE DEF heard
    <3>2. heard(y) \in Flow /\ heard(y).id = y.id /\ heard(y).op = y.op /\ heard(y).at = "finish" /\ heard(y).how = "oidc"
      BY <2>1, <2>2, <3>1 DEF Flow
    <3> QED
      BY <3>2 DEF Claims
  <2>3. CASE ~(y.how = "oidc" /\ y.at = "browser")
    <3>1. heard(y) = y
      BY <2>3
    <3> HIDE DEF heard
    <3> QED
      BY <1>3, <2>1, <2>3, <3>1
  <2> QED
    BY <2>2, <2>3
<1> HIDE DEF heard
<1>6. Claims(x) /\ ProofOf(x) = x.id
  BY <1>3 DEF Claims, ProofOf
<1>7. \A y \in flows' : Claims(y) => y \in flows /\ y # x
  BY <1>2, <1>5
<1>8. BackupTypeOK'
  BY <1>2, <1>5 DEF ProofsInv, BackupTypeOK
<1>9. ProofsNumbered'
  <2>1. \A y \in flows' : \E z \in flows : y = heard(z) /\ y.id = z.id
    BY <1>2, <1>5
  <2> QED
    BY <1>2, <2>1 DEF ProofsInv, ProofsNumbered
<1>10. ClaimsApart'
  <2>1. \A y, z \in flows' : Claims(y) /\ Claims(z) /\ ProofOf(y) = ProofOf(z) => y = z
    BY <1>7 DEF ProofsInv, ClaimsApart
  <2>2. \A y \in flows' : Claims(y) => Presented(ProofOf(y), y.op)'
    BY <1>2, <1>7 DEF ProofsInv, ClaimsApart, Presented
  <2>3. \A y \in flows', r \in ran : Claims(y) => ProofOf(y) # r.proof
    BY <1>7 DEF ProofsInv, ClaimsApart
  <2> QED
    BY <1>2, <2>1, <2>2, <2>3 DEF ClaimsApart, Claims, ProofOf
<1>11. SessionsApart'
  <2>1. \E p \in presented : p.id = s.proof /\ (s.op # None => p.op = s.op)
    BY <1>4, <1>6 DEF ProofsInv, ClaimsApart, Presented
  <2>2. \A y \in flows' : Claims(y) => ProofOf(y) # s.proof
    BY <1>4, <1>6, <1>7 DEF ProofsInv, ClaimsApart
  <2>3. \A r \in ran : r.proof # s.proof
    BY <1>4, <1>6 DEF ProofsInv, ClaimsApart
  <2> QED
    BY <1>2, <2>1, <2>2, <2>3 DEF SessionsApart, Claims, ProofOf
<1>12. EachRunIsProven'
  BY <1>2 DEF ProofsInv, EachRunIsProven
<1> QED
  BY <1>8, <1>9, <1>10, <1>11, <1>12 DEF ProofsInv

\* A flow takes over the factor of the popup's session, when that is of its operation.
LEMMA PopupAcceptedProven ==
  ASSUME ProofsInv, NEW x \in flows, PopupAccepted(x)
  PROVE  ProofsInv'
<1>1. PICK y : y = [x EXCEPT !.at = "ticket", !.proof = oidcResult.proof]
  OBVIOUS
<1>2. oidcResult # None /\ oidcResult.op = x.op /\ oidcResult' = None /\ flows' = (flows \ {x}) \cup {y}
      /\ UNCHANGED <<reauthPrompt, mounted, presented, ran>>
  BY <1>1 DEF PopupAccepted, Mint, dialogVars
<1>3. x \in Flow /\ x.op # None
  BY OperationsAssumption DEF ProofsInv, BackupTypeOK, Flow
<1>4. Presented(oidcResult.proof, x.op) /\ oidcResult.proof \in Nat
  BY <1>2, <1>3 DEF ProofsInv, SessionsApart, Presented, BackupTypeOK, Proof
<1>5. y \in Flow /\ y.id = x.id /\ y.op = x.op /\ y.at = "ticket" /\ y.proof = oidcResult.proof
  BY <1>1, <1>3, <1>4 DEF Flow
<1>6. ProofOf(y) = oidcResult.proof
  BY <1>5 DEF ProofOf
<1>7. BackupTypeOK' /\ ProofsNumbered'
  BY <1>2, <1>5 DEF ProofsInv, BackupTypeOK, ProofsNumbered
<1>8. ClaimsApart'
  <2>1. \A z, w \in flows' : Claims(z) /\ Claims(w) /\ ProofOf(z) = ProofOf(w) => z = w
    BY <1>2, <1>6 DEF ProofsInv, ClaimsApart, SessionsApart
  <2>2. \A z \in flows' : Claims(z) => Presented(ProofOf(z), z.op)'
    BY <1>2, <1>4, <1>5, <1>6 DEF ProofsInv, ClaimsApart, Presented
  <2>3. \A z \in flows', r \in ran : Claims(z) => ProofOf(z) # r.proof
    BY <1>2, <1>6 DEF ProofsInv, ClaimsApart, SessionsApart
  <2> QED
    BY <1>2, <2>1, <2>2, <2>3 DEF ClaimsApart, Claims, ProofOf
<1>9. SessionsApart' /\ EachRunIsProven'
  BY <1>2 DEF ProofsInv, SessionsApart, EachRunIsProven
<1> QED
  BY <1>7, <1>8, <1>9 DEF ProofsInv

\* The server carries an operation out, at most once for a factor.
LEMMA ServerRunsProven ==
  ASSUME ProofsInv, NEW x \in flows, NEW fails \in BOOLEAN, ServerRuns(x, fails)
  PROVE  ProofsInv'
<1>1. PICK y \in {[x EXCEPT !.at = "done"], [x EXCEPT !.at = "refused"]} : flows' = (flows \ {x}) \cup {y}
  BY DEF ServerRuns, At
<1>2. PICK r : r = [id |-> x.id, op |-> x.op, proof |-> x.proof]
  OBVIOUS
<1>3. x.at = "sent" /\ ran' \in {ran, ran \cup {r}}
      /\ UNCHANGED <<reauthPrompt, mounted, oidcResult, presented>>
  BY <1>2 DEF ServerRuns, dialogVars
<1>4. x \in Flow
  BY DEF ProofsInv, BackupTypeOK
<1>5. y \in Flow /\ y.id = x.id /\ y.op = x.op /\ y.at \in {"done", "refused"}
  BY <1>1, <1>4 DEF Flow
<1>6. r.op = x.op /\ r.proof = x.proof /\ Claims(x) /\ ProofOf(x) = x.proof /\ ~Claims(y)
  BY <1>2, <1>3, <1>5 DEF Claims, ProofOf
<1>7. BackupTypeOK' /\ ProofsNumbered'
  BY <1>1, <1>3, <1>5 DEF ProofsInv, BackupTypeOK, ProofsNumbered
<1>8. \A z \in flows' : Claims(z) => z \in flows /\ z # x
  BY <1>1, <1>6
<1>9. ClaimsApart'
  <2>1. \A z, w \in flows' : Claims(z) /\ Claims(w) /\ ProofOf(z) = ProofOf(w) => z = w
    BY <1>8 DEF ProofsInv, ClaimsApart
  <2>2. \A z \in flows' : Claims(z) => Presented(ProofOf(z), z.op)'
    BY <1>3, <1>8 DEF ProofsInv, ClaimsApart, Presented
  <2>3. \A z \in flows', s \in ran' : Claims(z) => ProofOf(z) # s.proof
    BY <1>3, <1>6, <1>8 DEF ProofsInv, ClaimsApart
  <2> QED
    BY <2>1, <2>2, <2>3 DEF ClaimsApart, Claims, ProofOf
<1>10. SessionsApart'
  BY <1>3, <1>6, <1>8 DEF ProofsInv, SessionsApart, Claims, ProofOf
<1>11. EachRunIsProven'
  BY <1>3, <1>6 DEF ProofsInv, EachRunIsProven, ClaimsApart, Presented
<1> QED
  BY <1>7, <1>9, <1>10, <1>11 DEF ProofsInv

LEMMA BackupStep ==
  ASSUME BackupInv, [BackupNext]_backupVars
  PROVE  BackupInv'
<1> USE DEF dialogVars, ticketVars, restoreVars
<1>1. ProofsInv /\ BackupTypeOK /\ NoOrphanPopup /\ None \in Operations \cup {None}
  BY DEF BackupInv, ProofsInv
<1> SUFFICES ProofsInv' /\ NoOrphanPopup'
  BY DEF BackupInv, ProofsInv
<1>2. ASSUME UNCHANGED <<reauthPrompt, mounted, flows, oidcResult, presented, ran>>,
             oidcPopup' \in {oidcPopup, None}
      PROVE  ProofsInv' /\ NoOrphanPopup'
  <2>1. mounted' \in Nat /\ reauthPrompt' \in Operations \cup {None}
    BY <1>1, <1>2 DEF BackupTypeOK
  <2> QED
    BY <1>1, <1>2, <2>1, FlowsEnd DEF NoOrphanPopup
\* The dialog opens for another operation, or closes.
<1>3. ASSUME NEW op \in Operations \cup {None}, Prompt(op), op = None \/ reauthPrompt = None
      PROVE  mounted' \in Nat /\ reauthPrompt' \in Operations \cup {None} /\ NoOrphanPopup'
  <2>1. reauthPrompt' = op /\ (op = reauthPrompt => UNCHANGED <<mounted, oidcPopup>>)
        /\ (op # reauthPrompt => mounted' = mounted + 1 /\ oidcPopup' = None)
    BY <1>3 DEF Prompt
  <2> QED
    BY <1>1, <1>3, <2>1 DEF BackupTypeOK, NoOrphanPopup
<1>4. ASSUME \/ \E f \in Files \cup {None} : ChooseRestoreFile(f)
             \/ \E f \in detecting, b \in BOOLEAN : DetectionEnds(f, b)
             \/ \E p \in {"right", "wrong", None} : TypeRestorePassword(p)
             \/ \E b \in BOOLEAN : RestoreConfirm(b)
             \/ PopupClosed
             \/ \E t \in tickets : TicketExpires(t)
             \/ UNCHANGED backupVars
      PROVE  ProofsInv' /\ NoOrphanPopup'
  <2>1. UNCHANGED <<reauthPrompt, mounted, flows, oidcResult, presented, ran>> /\ oidcPopup' \in {oidcPopup, None}
    BY <1>4 DEF ChooseRestoreFile, DetectionEnds, TypeRestorePassword, RestoreConfirm, PopupClosed, TicketExpires,
                backupVars
  <2> QED
    BY <1>2, <2>1
<1>5. ASSUME NEW op \in Operations, OpenReauth(op)
      PROVE  ProofsInv' /\ NoOrphanPopup'
  <2>1. Prompt(op) /\ reauthPrompt = None /\ UNCHANGED <<flows, oidcResult, presented, ran>>
    BY <1>5 DEF OpenReauth
  <2>2. mounted' \in Nat /\ reauthPrompt' \in Operations \cup {None} /\ NoOrphanPopup'
    BY <1>3, <2>1
  <2> QED
    BY <1>1, <2>1, <2>2, FlowsEnd
<1>6. ASSUME DismissReauth
      PROVE  ProofsInv' /\ NoOrphanPopup'
  <2>1. Prompt(None) /\ UNCHANGED <<flows, oidcResult, presented, ran>>
    BY <1>6 DEF DismissReauth
  <2>2. mounted' \in Nat /\ reauthPrompt' \in Operations \cup {None} /\ NoOrphanPopup'
    BY <1>1, <1>3, <2>1
  <2> QED
    BY <1>1, <2>1, <2>2, FlowsEnd
<1>7. ASSUME NEW how \in Factors, PresentFactor(how)
      PROVE  ProofsInv' /\ NoOrphanPopup'
  <2>1. reauthPrompt # None /\ oidcPopup' \in {mounted, oidcPopup} /\ UNCHANGED <<reauthPrompt, mounted>>
    BY <1>7 DEF PresentFactor
  <2>2. NoOrphanPopup'
    BY <1>1, <2>1 DEF NoOrphanPopup
  <2> QED
    BY <1>1, <1>7, <2>2, PresentFactorProven
<1> DEFINE Moved(x, y) == /\ flows' = (flows \ {x}) \cup {y}
                          /\ y \in Flow /\ y.id = x.id /\ y.op = x.op /\ y.how = x.how
<1>8. ASSUME NEW x \in flows, NEW at \in {"browser", "finish", "sent", "done", "refused"}, At(x, at)
      PROVE  \E y : Moved(x, y) /\ y.at = at /\ y.proof = x.proof
  <2>1. PICK y : y = [x EXCEPT !.at = at]
    OBVIOUS
  <2>2. x \in Flow /\ flows' = (flows \ {x}) \cup {y}
    BY <1>1, <1>8, <2>1 DEF BackupTypeOK, At
  <2>3. y \in Flow /\ y.id = x.id /\ y.op = x.op /\ y.how = x.how /\ y.at = at /\ y.proof = x.proof
    BY <2>1, <2>2 DEF Flow
  <2> QED
    BY <2>2, <2>3
<1>9. ASSUME NEW x \in flows, Challenged(x) \/ PasskeyGiven(x)
      PROVE  ProofsInv' /\ NoOrphanPopup'
  <2>1. PICK at \in {"browser", "finish"} : At(x, at) /\ (at = "finish" => x.how # "oidc")
    BY <1>9 DEF Challenged, PasskeyGiven
  <2>2. x.at \in {"start", "browser"} /\ UNCHANGED <<reauthPrompt, mounted, oidcPopup, oidcResult, presented, ran>>
    BY <1>9 DEF Challenged, PasskeyGiven
  <2>3. PICK y : Moved(x, y) /\ y.at = at
    BY <1>8, <2>1
  <2>4. Claims(x) /\ ProofOf(x) = x.id /\ ProofOf(y) = x.id
    BY <2>1, <2>2, <2>3 DEF Claims, ProofOf
  <2>5. mounted' \in Nat /\ reauthPrompt' \in Operations \cup {None} /\ NoOrphanPopup'
    BY <1>1, <2>2 DEF BackupTypeOK, NoOrphanPopup
  <2> QED
    BY <1>1, <2>2, <2>3, <2>4, <2>5, FlowGoesOn
<1>10. ASSUME NEW x \in flows, FlowFails(x)
       PROVE  ProofsInv' /\ NoOrphanPopup'
  <2>1. flows' = flows \ {x} /\ oidcPopup' \in {oidcPopup, None}
        /\ UNCHANGED <<reauthPrompt, mounted, oidcResult, presented, ran>>
    BY <1>10 DEF FlowFails
  <2>2. mounted' \in Nat /\ reauthPrompt' \in Operations \cup {None} /\ NoOrphanPopup'
    BY <1>1, <2>1 DEF BackupTypeOK, NoOrphanPopup
  <2> QED
    BY <1>1, <2>1, <2>2, FlowsEnd
<1>11. ASSUME NEW x \in flows, FactorAccepted(x)
       PROVE  ProofsInv' /\ NoOrphanPopup'
  <2>1. PICK y : y = [x EXCEPT !.at = "ticket", !.proof = x.id]
    OBVIOUS
  <2>2. flows' = (flows \ {x}) \cup {y} /\ UNCHANGED <<reauthPrompt, mounted, oidcPopup, oidcResult, presented, ran>>
        /\ (x.at = "start" \/ (x.at = "finish" /\ x.how = "passkey"))
    BY <1>11, <2>1 DEF FactorAccepted, Mint
  <2>3. y \in Flow /\ y.id = x.id /\ y.op = x.op /\ y.at = "ticket" /\ y.proof = x.id
    BY <1>1, <2>1 DEF BackupTypeOK, Flow
  <2>4. Claims(x) /\ ProofOf(x) = x.id /\ ProofOf(y) = x.id
    BY <2>2, <2>3 DEF Claims, ProofOf
  <2>5. mounted' \in Nat /\ reauthPrompt' \in Operations \cup {None} /\ NoOrphanPopup'
    BY <1>1, <2>2 DEF BackupTypeOK, NoOrphanPopup
  <2> QED
    BY <1>1, <2>2, <2>3, <2>4, <2>5, FlowGoesOn
<1>12. ASSUME NEW x \in flows, PopupAccepted(x)
       PROVE  ProofsInv' /\ NoOrphanPopup'
  <2>1. UNCHANGED <<reauthPrompt, mounted, oidcPopup>>
    BY <1>12 DEF PopupAccepted
  <2> QED
    BY <1>1, <1>12, <2>1, PopupAcceptedProven DEF NoOrphanPopup
<1>13. ASSUME NEW x \in flows, PopupRefused(x)
       PROVE  ProofsInv' /\ NoOrphanPopup'
  <2>1. oidcResult' = None /\ UNCHANGED <<reauthPrompt, mounted, oidcPopup, flows, presented, ran>>
    BY <1>13 DEF PopupRefused
  <2>2. mounted' \in Nat /\ reauthPrompt' \in Operations \cup {None} /\ NoOrphanPopup'
    BY <1>1, <2>1 DEF BackupTypeOK, NoOrphanPopup
  <2> QED
    BY <1>1, <2>1, <2>2, FlowsEnd
<1>14. ASSUME NEW x \in flows, TicketArrives(x)
       PROVE  ProofsInv' /\ NoOrphanPopup'
  <2>1. x.at = "ticket" /\ Prompt(None) /\ At(x, "sent") /\ UNCHANGED <<oidcResult, presented, ran>>
    BY <1>14 DEF TicketArrives
  <2>2. mounted' \in Nat /\ reauthPrompt' \in Operations \cup {None} /\ NoOrphanPopup'
    BY <1>1, <1>3, <2>1
  <2>3. PICK y : Moved(x, y) /\ y.at = "sent" /\ y.proof = x.proof
    BY <1>8, <2>1
  <2>4. Claims(x) /\ ProofOf(y) = ProofOf(x)
    BY <2>1, <2>3 DEF Claims, ProofOf
  <2> QED
    BY <1>1, <2>1, <2>2, <2>3, <2>4, FlowGoesOn
<1>15. ASSUME NEW x \in flows, OperationAnswered(x)
       PROVE  ProofsInv' /\ NoOrphanPopup'
  <2>1. Prompt(None) /\ flows' = flows \ {x} /\ UNCHANGED <<oidcResult, presented, ran>>
    BY <1>15 DEF OperationAnswered
  <2>2. mounted' \in Nat /\ reauthPrompt' \in Operations \cup {None} /\ NoOrphanPopup'
    BY <1>1, <1>3, <2>1
  <2> QED
    BY <1>1, <2>1, <2>2, FlowsEnd
<1>16. ASSUME NEW x \in flows, NEW b \in BOOLEAN, PopupAnswers(x, b)
       PROVE  ProofsInv' /\ NoOrphanPopup'
  <2>1. oidcPopup' = None
    BY <1>16 DEF PopupAnswers
  <2> QED
    BY <1>1, <1>16, <2>1, PopupAnswersProven DEF NoOrphanPopup
<1>17. ASSUME NEW x \in flows, NEW b \in BOOLEAN, ServerRuns(x, b)
       PROVE  ProofsInv' /\ NoOrphanPopup'
  <2>1. UNCHANGED <<reauthPrompt, mounted, oidcPopup>>
    BY <1>17 DEF ServerRuns
  <2> QED
    BY <1>1, <1>17, <2>1, ServerRunsProven DEF NoOrphanPopup
<1>18. ASSUME NEW x \in flows, FlowStep(x)
       PROVE  ProofsInv' /\ NoOrphanPopup'
  BY <1>9, <1>10, <1>11, <1>12, <1>13, <1>14, <1>15, <1>16, <1>17, <1>18 DEF FlowStep
<1> QED
  BY <1>4, <1>5, <1>6, <1>7, <1>18 DEF BackupNext

THEOREM BackupInvariant == BackupSpec => []BackupInv
<1>1. BackupInit => BackupInv
  <2> SUFFICES ASSUME BackupInit
               PROVE  BackupInv
    OBVIOUS
  <2>1. flows = {} /\ presented = {} /\ ran = {} /\ oidcResult = None /\ oidcPopup = None
        /\ mounted = 0 /\ reauthPrompt = None
    BY DEF BackupInit
  <2>2. BackupTypeOK
    BY <2>1, FS_EmptySet DEF BackupTypeOK
  <2> QED
    BY <2>1, <2>2
    DEF BackupInv, ProofsNumbered, ClaimsApart, SessionsApart, EachRunIsProven, NoOrphanPopup
<1>2. BackupInv /\ [BackupNext]_backupVars => BackupInv'
  BY BackupStep
<1> QED
  BY <1>1, <1>2, PTL DEF BackupSpec

\* A download or a restore is carried out for a factor that was presented for it and for nothing
\* else, although a popup's answer is heard by the dialogs that are gone; and no popup outlives
\* its dialog.
THEOREM OperationsAreProven == BackupSpec => []RestoresAreProven
<1>1. BackupInv => RestoresAreProven
  BY DEF BackupInv, RestoresAreProven
<1> QED
  BY <1>1, BackupInvariant, PTL

-----------------------------------------------------------------------------
(* DashboardList: nothing is left out in silence, and the order is total. *)

DashboardSpec == DashboardInit /\ [][DashboardNext]_dashboardVars

DashboardTypeOK ==
    /\ subscriptions \subseteq Catalogue
    /\ rate \in {0, 2} /\ disabledLast \in BOOLEAN /\ descending \in BOOLEAN /\ sortField \in SortFields
    /\ includeNoCategory \in BOOLEAN /\ includeNoMethod \in BOOLEAN
    /\ IsFiniteSet(selectedModes) /\ IsFiniteSet(selectedCategories) /\ IsFiniteSet(selectedMethods)

\* What a row is sorted by.
SortKey(s) == CASE sortField = "name"       -> s.name
                [] sortField = "created_at" -> s.created
                [] sortField = "amount"     -> Comparable(s)
                [] OTHER                    -> s.due

LEMMA RowsOfCatalogue ==
  ASSUME NEW s \in Catalogue
  PROVE  /\ s.id \in Int /\ s.name \in Int /\ s.due \in Int /\ s.created \in Int /\ s.amount \in Int
         /\ s.status \in Statuses
         /\ \A t \in Catalogue : s.id = t.id => s = t
BY DEF Catalogue, Sub, Never, Statuses

LEMMA ToggledFinite ==
  ASSUME NEW set, IsFiniteSet(set), NEW e
  PROVE  IsFiniteSet(Toggled(set, e))
<1>1. IsFiniteSet(set \ {e}) /\ IsFiniteSet(set \cup {e})
  BY FS_Subset, FS_AddElement
<1> QED
  BY <1>1 DEF Toggled

LEMMA DashboardTypes ==
  ASSUME DashboardTypeOK, [DashboardNext]_dashboardVars
  PROVE  DashboardTypeOK'
<1> USE DEF DashboardTypeOK
<1>1. ASSUME NEW name, SearchFor(name)
      PROVE  DashboardTypeOK'
  BY <1>1 DEF SearchFor, UsesToolbar
<1>2. ASSUME NEW s, ToggleStatus(s)
      PROVE  DashboardTypeOK'
  BY <1>2 DEF ToggleStatus, UsesToolbar
<1>3. ASSUME NEW m, ToggleRenewalMode(m)
      PROVE  DashboardTypeOK'
  BY <1>3, ToggledFinite DEF ToggleRenewalMode, UsesToolbar
<1>4. ASSUME NEW c, ToggleCategory(c)
      PROVE  DashboardTypeOK'
  BY <1>4, ToggledFinite DEF ToggleCategory, UsesToolbar
<1>5. ASSUME NEW m, ToggleMethod(m)
      PROVE  DashboardTypeOK'
  BY <1>5, ToggledFinite DEF ToggleMethod, UsesToolbar
<1>6. ASSUME NEW f \in SortFields, SelectSort(f)
      PROVE  DashboardTypeOK'
  BY <1>6 DEF SelectSort, UsesToolbar, filters
<1>7. ASSUME ResetFilters
      PROVE  DashboardTypeOK'
  BY <1>7, FS_EmptySet DEF ResetFilters, UsesToolbar, SortFields
<1>8. ASSUME DashboardFetched \/ DashboardRates \/ PreferenceStored \/ UNCHANGED dashboardVars
      PROVE  DashboardTypeOK'
  BY <1>8 DEF DashboardFetched, DashboardRates, PreferenceStored, dashboardVars, filters
<1> QED
  BY <1>1, <1>2, <1>3, <1>4, <1>5, <1>6, <1>7, <1>8 DEF DashboardNext

\* Two rows are never equal for the comparison, which has the id to tell them apart ...
LEMMA OrderDecides ==
  ASSUME DashboardTypeOK
  PROVE  OrderIsTotal
<1>1. \A a \in subscriptions : /\ SortKey(a) \in Int /\ a.id \in Int /\ a.status \in Statuses
                               /\ \A b \in subscriptions : a.id = b.id => a = b
  <2> SUFFICES ASSUME NEW a \in subscriptions
               PROVE  /\ SortKey(a) \in Int /\ a.id \in Int /\ a.status \in Statuses
                      /\ \A b \in subscriptions : a.id = b.id => a = b
    OBVIOUS
  <2>1. a \in Catalogue /\ subscriptions \subseteq Catalogue /\ rate \in Int /\ sortField \in SortFields
    BY DEF DashboardTypeOK
  <2>2. a.name \in Int /\ a.due \in Int /\ a.created \in Int /\ a.amount \in Int
    BY <2>1, RowsOfCatalogue
  <2>3. Comparable(a) \in Int
    BY <2>1, <2>2 DEF Comparable
  <2>4. SortKey(a) \in Int
    BY <2>1, <2>2, <2>3 DEF SortKey
  <2> QED
    BY <2>1, <2>4, RowsOfCatalogue
<1>2. \A a, b \in subscriptions : Compare2(a, b) = SortKey(a) - SortKey(b)
  <2> SUFFICES ASSUME NEW a \in subscriptions, NEW b \in subscriptions
               PROVE  Compare2(a, b) = SortKey(a) - SortKey(b)
    OBVIOUS
  <2>1. CASE sortField = "name"
    BY <2>1 DEF Compare2, SortKey
  <2>2. CASE sortField = "created_at"
    BY <2>2 DEF Compare2, SortKey
  <2>3. CASE sortField = "amount"
    BY <2>3 DEF Compare2, SortKey
  <2>4. CASE sortField = "next_billing_date"
    BY <2>4 DEF Compare2, SortKey
  <2> QED
    BY <2>1, <2>2, <2>3, <2>4 DEF DashboardTypeOK, SortFields
<1> HIDE DEF SortKey
<1>3. \A a, b \in subscriptions :
         Before(a, b) <=> IF disabledLast /\ a.status # b.status THEN a.status = "active"
                          ELSE IF SortKey(a) = SortKey(b) THEN (IF descending THEN ~(a.id < b.id) ELSE a.id < b.id)
                          ELSE IF descending THEN ~(SortKey(a) < SortKey(b)) ELSE SortKey(a) < SortKey(b)
  <2> SUFFICES ASSUME NEW a \in subscriptions, NEW b \in subscriptions
               PROVE  Before(a, b) <=>
                        IF disabledLast /\ a.status # b.status THEN a.status = "active"
                        ELSE IF SortKey(a) = SortKey(b) THEN (IF descending THEN ~(a.id < b.id) ELSE a.id < b.id)
                        ELSE IF descending THEN ~(SortKey(a) < SortKey(b)) ELSE SortKey(a) < SortKey(b)
    OBVIOUS
  <2>1. (Compare2(a, b) = 0 <=> SortKey(a) = SortKey(b)) /\ (Compare2(a, b) < 0 <=> SortKey(a) < SortKey(b))
    BY <1>1, <1>2
  <2>2. CASE descending
    <3>1. descending = TRUE
      BY <2>2 DEF DashboardTypeOK
    <3> QED
      BY <2>1, <3>1 DEF Before
  <2>3. CASE ~descending
    <3>1. descending = FALSE
      BY <2>3 DEF DashboardTypeOK
    <3>2. (a.id < b.id) \in BOOLEAN /\ (Compare2(a, b) < 0) \in BOOLEAN
      BY <1>1, <1>2
    <3>3. Before(a, b) <=> IF disabledLast /\ a.status # b.status THEN a.status = "active"
                           ELSE IF Compare2(a, b) = 0 THEN (a.id < b.id) # FALSE
                           ELSE (Compare2(a, b) < 0) # FALSE
      BY <3>1, Zenon DEF Before
    <3> QED
      BY <2>1, <2>3, <3>2, <3>3, Zenon
  <2> QED
    BY <2>2, <2>3
<1>4. ASSUME NEW a \in subscriptions, NEW b \in subscriptions, a # b
      PROVE  Before(a, b) <=> ~Before(b, a)
  BY <1>1, <1>3, <1>4 DEF Statuses
<1>5. ASSUME NEW a \in subscriptions, NEW b \in subscriptions, NEW c \in subscriptions,
             a # c, Before(a, b), Before(b, c)
      PROVE  Before(a, c)
  BY <1>1, <1>3, <1>5 DEF Statuses
<1> QED
  BY <1>4, <1>5 DEF OrderIsTotal, Before

\* ... and a row of an active subscription is hidden by a filter that the toolbar counts.
LEMMA FiltersShown ==
  ASSUME DashboardTypeOK
  PROVE  NothingHiddenSilently
<1> SUFFICES ASSUME NEW s \in subscriptions, s.status = "active", s \notin Filtered
             PROVE  HasActiveFilters /\ (searched # None \/ ActiveFilterCount > 0)
  BY DEF NothingHiddenSilently
<1>1. \/ searched # None
      \/ selectedStatuses # {"active"}
      \/ selectedModes # {}
      \/ selectedCategories # {} \/ includeNoCategory
      \/ selectedMethods # {} \/ includeNoMethod
  BY DEF Filtered, ByCategory, ByMethod
<1>2. HasActiveFilters
  BY <1>1 DEF HasActiveFilters
<1>3. /\ Cardinality(selectedModes) \in Nat /\ (selectedModes # {} => Cardinality(selectedModes) > 0)
      /\ Cardinality(selectedCategories) \in Nat /\ (selectedCategories # {} => Cardinality(selectedCategories) > 0)
      /\ Cardinality(selectedMethods) \in Nat /\ (selectedMethods # {} => Cardinality(selectedMethods) > 0)
  BY FS_CardinalityType, FS_EmptySet DEF DashboardTypeOK
<1>4. \A b : Count(b) \in {0, 1} /\ (b => Count(b) = 1)
  BY DEF Count
<1>5. searched # None \/ ActiveFilterCount > 0
  <2>1. PICK n1, n2, n3 \in {0, 1} : /\ n1 = Count(selectedStatuses # {"active"})
                                    /\ n2 = Count(includeNoCategory) /\ n3 = Count(includeNoMethod)
    BY <1>4
  <2>2. searched # None \/ n1 = 1 \/ n2 = 1 \/ n3 = 1
        \/ Cardinality(selectedModes) > 0 \/ Cardinality(selectedCategories) > 0 \/ Cardinality(selectedMethods) > 0
    BY <1>1, <1>3, <1>4, <2>1
  <2>3. ActiveFilterCount = n1 + Cardinality(selectedCategories) + n2 + Cardinality(selectedMethods)
                            + Cardinality(selectedModes) + n3
    BY <2>1 DEF ActiveFilterCount
  <2> QED
    BY <1>3, <2>1, <2>2, <2>3
<1> QED
  BY <1>2, <1>5

\* An active subscription is missing from the dashboard only while the toolbar says so, and the
\* rows have one order, whatever is fetched, renamed or chosen.
THEOREM DashboardIsHonest == DashboardSpec => []ListIsHonest
<1>1. DashboardInit => DashboardTypeOK
  BY FS_EmptySet DEF DashboardInit, DashboardTypeOK, SortFields
<1>2. DashboardTypeOK /\ [DashboardNext]_dashboardVars => DashboardTypeOK'
  BY DashboardTypes
<1>3. DashboardTypeOK => ListIsHonest
  BY OrderDecides, FiltersShown DEF ListIsHonest
<1> QED
  BY <1>1, <1>2, <1>3, PTL DEF DashboardSpec

-----------------------------------------------------------------------------
(* AdminPage: the table of users, the form of the settings and the panels. *)

AdminSpec == AdminInit /\ [][AdminNext]_adminVars

UserRow == [role : {"admin", "user"}, status : {"active", "disabled"}]
RowOps == {"role", "status", "delete"}
UserOps == RowOps \cup {"create"}
SettingOps == {"save", "fresh"}

IsAdminRequest(q) ==
    /\ q = [n |-> q.n, op |-> q.op, on |-> q.on, val |-> q.val, at |-> q.at, answer |-> q.answer]
    /\ q.op \in UserOps \cup SettingOps \cup {"load", "refresh"} /\ q.at \in {"sent", "done", "refused"}
    /\ q.op \in UserOps => q.on \in People
    /\ q.op = "create" => q.on = 3
    /\ q.op = "role" => q.val \in {"admin", "user"}
    /\ q.op = "status" => q.val \in {"active", "disabled"}
    /\ q.op = "refresh" => q.on \in Panels

AdminTypeOK ==
    /\ people \in [People -> UserRow \cup {None}] /\ table \in [People -> UserRow \cup {None}]
    /\ version \in [Panels -> Nat] /\ panel \in [Panels -> Nat] /\ refreshing \subseteq Panels
    /\ loaded \in BOOLEAN /\ created \in BOOLEAN /\ touched \in BOOLEAN
    /\ formCrossed \in BOOLEAN /\ tableLost \in BOOLEAN /\ wentBack \in BOOLEAN
    /\ \A q \in adminReqs : IsAdminRequest(q)

\* Until the load is over it is the only request, and what it brings is current but for the
\* panels and for settings that another admin saved.
LoadIsFirst ==
    /\ ~loaded => /\ adminReqs # {} /\ (\A q, p \in adminReqs : q = p)
                  /\ ~created /\ ~editing /\ refreshing = {}
    /\ \A q \in adminReqs : q.op = "load" <=> ~loaded
    /\ \A q \in adminReqs : q.op = "load" /\ q.at = "done" =>
          /\ q.answer.people = people
          /\ ~formCrossed => q.answer.settings = settings
          /\ q.answer.version \in [Panels -> Nat] /\ \A p \in Panels : q.answer.version[p] <= version[p]

\* Under way: a change of row u that the server has made and the table has not.
Done(op, u) == \E q \in adminReqs : q.op = op /\ q.on = u /\ q.at = "done"

\* The table and the server differ by the changes under way, and those of one kind agree.
RowFollows(u) ==
    ~Done("create", u) =>
        /\ people[u] = None => table[u] = None \/ Done("delete", u)
        /\ people[u] # None =>
              /\ table[u] # None /\ ~Done("delete", u)
              /\ table[u].role = people[u].role \/ Done("role", u)
              /\ table[u].status = people[u].status \/ Done("status", u)
              /\ \A q \in adminReqs : q.op = "role" /\ q.on = u /\ q.at = "done" => q.val = people[u].role
              /\ \A q \in adminReqs : q.op = "status" /\ q.on = u /\ q.at = "done" => q.val = people[u].status

WishesAgree ==
    \A q, p \in adminReqs : q.op \in RowOps /\ p.op = q.op /\ p.on = q.on => p.val = q.val

\* The third user is asked about after the answer of its creation.
CreatedOnce ==
    /\ ~created => people[3] = None /\ table[3] = None /\ ~Done("create", 3)
    /\ ~created \/ Done("create", 3) => \A q \in adminReqs : q.op \in RowOps => q.on # 3
    /\ Done("create", 3) => people[3] = NewUser /\ table[3] = None
    /\ \A q, p \in adminReqs : q.op = "create" /\ q.at = "done" /\ p.op = "create" /\ p.at = "done" => q = p

TableFollows ==
    /\ ~created => people[3] = None
    /\ loaded /\ ~tableLost => (\A u \in People : RowFollows(u)) /\ WishesAgree /\ CreatedOnce

\* What is stored and what is on its way to be was typed.
SecretsTyped ==
    /\ form = [site |-> form.site, secret |-> form.secret, set |-> form.set]
    /\ form.secret \in {None} \cup typedSecrets
    /\ settings = [site |-> settings.site, secret |-> settings.secret]
    /\ \A q \in adminReqs : q.op = "save" => q.val.secret \in {None} \cup typedSecrets
    /\ SecretIsTyped

\* A save and the fetch after it are alone, and the fetch brings what was saved.
FormFollows ==
    ~formCrossed =>
        /\ \A q, p \in adminReqs : q.op \in SettingOps /\ p.op \in SettingOps => q = p
        /\ \A q \in adminReqs : q.op = "fresh" /\ q.at = "done" => q.answer = settings
        /\ loaded /\ ~touched /\ ~Saving => form = FormOf(settings)

\* A panel has one request, whose answer is no older than what is shown.
PanelsFollow ==
    /\ ~wentBack
    /\ \A p \in Panels : panel[p] <= version[p]
    /\ \A q \in adminReqs : q.op = "refresh" =>
          /\ q.on \in refreshing
          /\ \A p \in adminReqs : p.op = "refresh" /\ p.on = q.on => p = q
          /\ q.at = "done" => q.answer \in Nat /\ panel[q.on] <= q.answer /\ q.answer <= version[q.on]

AdminInv == AdminTypeOK /\ LoadIsFirst /\ TableFollows /\ SecretsTyped /\ FormFollows /\ PanelsFollow

\* The requests of the kinds ops are those before the step.
SameRequests(ops) == \A q \in adminReqs \cup adminReqs' : q.op \in ops => (q \in adminReqs <=> q \in adminReqs')

LEMMA TableKept ==
  ASSUME TableFollows, UNCHANGED <<people, table, created, loaded, tableLost>>, SameRequests(UserOps)
  PROVE  TableFollows'
  <1>1. \A op \in UserOps, u \in People : Done(op, u)' <=> Done(op, u)
    BY DEF Done, SameRequests
  <1>2. \A q \in adminReqs' : q.op \in UserOps => q \in adminReqs
    BY DEF SameRequests
  <1>3. ASSUME NEW u \in People, RowFollows(u) PROVE RowFollows(u)'
    BY <1>1, <1>2, <1>3 DEF RowFollows, UserOps, RowOps
  <1>4. WishesAgree => WishesAgree'
    BY <1>2 DEF WishesAgree, UserOps, RowOps
  <1>5. CreatedOnce => CreatedOnce'
    BY <1>1, <1>2 DEF CreatedOnce, UserOps, RowOps, People
  <1> QED
    BY <1>3, <1>4, <1>5 DEF TableFollows

LEMMA SettingFormKept ==
  ASSUME SecretsTyped, FormFollows, UNCHANGED <<settings, form, typedSecrets, touched, formCrossed, loaded>>,
         SameRequests(SettingOps)
  PROVE  SecretsTyped' /\ FormFollows'
  <1>1. \A q \in adminReqs' : q.op \in SettingOps => q \in adminReqs
    BY DEF SameRequests
  <1>2. Saving' <=> Saving
    BY DEF Saving, SameRequests, SettingOps
  <1>3. SecretsTyped'
    BY <1>1 DEF SecretsTyped, SecretIsTyped, SettingOps
  <1>4. FormOf(settings)' = FormOf(settings)
    BY DEF FormOf
  <1>5. FormFollows'
    BY <1>1, <1>2, <1>4 DEF FormFollows, SettingOps
  <1> QED
    BY <1>3, <1>5

LEMMA PanelsKept ==
  ASSUME PanelsFollow, UNCHANGED <<version, panel, refreshing, wentBack>>, SameRequests({"refresh"})
  PROVE  PanelsFollow'
  BY DEF PanelsFollow, SameRequests

\* After the load.
LEMMA LoadIsOver ==
  ASSUME loaded' = TRUE, \A q \in adminReqs' : q.op # "load"
  PROVE  LoadIsFirst'
  BY DEF LoadIsFirst

LEMMA AdminAsks ==
  ASSUME NEW op, NEW on, NEW val, Request(op, on, val)
  PROVE  \E r : /\ adminReqs' = adminReqs \cup {r}
                /\ r = [n |-> r.n, op |-> r.op, on |-> r.on, val |-> r.val, at |-> r.at, answer |-> r.answer]
                /\ r.op = op /\ r.on = on /\ r.val = val /\ r.at = "sent"
  <1>1. PICK r : r = [n |-> adminSends + 1, op |-> op, on |-> on, val |-> val, at |-> "sent", answer |-> None]
    OBVIOUS
  <1> QED
    BY <1>1 DEF Request

LEMMA AdminAnswers ==
  ASSUME NEW q, IsAdminRequest(q), NEW at \in {"sent", "done", "refused"}, NEW answer, Answer(q, at, answer)
  PROVE  \E r : /\ adminReqs' = (adminReqs \ {q}) \cup {r}
                /\ IsAdminRequest(r)
                /\ r.op = q.op /\ r.on = q.on /\ r.val = q.val /\ r.at = at /\ r.answer = answer
  <1>1. PICK r : r = [q EXCEPT !.at = at, !.answer = answer]
    OBVIOUS
  <1>2. r = [n |-> q.n, op |-> q.op, on |-> q.on, val |-> q.val, at |-> at, answer |-> answer]
    BY <1>1 DEF IsAdminRequest
  <1>3. r.op = q.op /\ r.on = q.on /\ r.val = q.val /\ r.at = at /\ r.answer = answer /\ r.n = q.n
    BY <1>2
  <1>4. IsAdminRequest(r)
    BY <1>2, <1>3 DEF IsAdminRequest
  <1> QED
    BY <1>1, <1>3, <1>4 DEF Answer

LEMMA CreateUserKeeps ==
  ASSUME AdminInv, CreateUser
  PROVE  AdminInv'
  <1>1. PICK r : /\ adminReqs' = adminReqs \cup {r}
                 /\ r = [n |-> r.n, op |-> r.op, on |-> r.on, val |-> r.val, at |-> r.at, answer |-> r.answer]
                 /\ r.op = "create" /\ r.on = 3 /\ r.at = "sent"
    BY AdminAsks DEF CreateUser
  <1>2. UNCHANGED <<people, table, created, tableLost, settings, form, typedSecrets, touched, formCrossed, version, panel,
                    refreshing, wentBack, loaded>> /\ loaded = TRUE
    BY DEF CreateUser, usersPart, formPart, panelPart, AdminInv, AdminTypeOK
  <1>3. AdminTypeOK'
    BY <1>1, <1>2 DEF AdminInv, AdminTypeOK, IsAdminRequest, UserOps, RowOps, People
  <1>4. LoadIsFirst'
    BY <1>1, <1>2, LoadIsOver DEF AdminInv, LoadIsFirst
  <1>5. TableFollows'
    <2>1. \A op \in UserOps, u \in People : Done(op, u)' <=> Done(op, u)
      BY <1>1 DEF Done
    <2>2. \A q \in adminReqs' : q.op \in RowOps \/ q.at = "done" => q \in adminReqs
      BY <1>1 DEF RowOps
    <2>3. ASSUME NEW u \in People, RowFollows(u) PROVE RowFollows(u)'
      BY <1>2, <2>1, <2>2, <2>3 DEF RowFollows, UserOps, RowOps
    <2>4. (WishesAgree => WishesAgree') /\ (CreatedOnce => CreatedOnce')
      BY <1>2, <2>1, <2>2 DEF WishesAgree, CreatedOnce, UserOps, RowOps, People
    <2> QED
      BY <1>2, <2>3, <2>4 DEF AdminInv, TableFollows
  <1>6. SecretsTyped' /\ FormFollows' /\ PanelsFollow'
    BY <1>1, <1>2, SettingFormKept, PanelsKept DEF AdminInv, SameRequests, SettingOps
  <1> QED
    BY <1>3, <1>4, <1>5, <1>6 DEF AdminInv

LEMMA AskUserKeeps ==
  ASSUME AdminInv, NEW op \in RowOps, NEW u \in People, AskUser(op, u)
  PROVE  AdminInv'
  <1>1. PICK w : w = Wish(op, u)
    OBVIOUS
  <1>2. PICK r : /\ adminReqs' = adminReqs \cup {r}
                 /\ r = [n |-> r.n, op |-> r.op, on |-> r.on, val |-> r.val, at |-> r.at, answer |-> r.answer]
                 /\ r.op = op /\ r.on = u /\ r.val = w /\ r.at = "sent"
    BY <1>1, AdminAsks DEF AskUser
  <1>3. /\ UNCHANGED <<people, table, created, settings, form, typedSecrets, touched, formCrossed, version, panel,
                       refreshing, wentBack, loaded>> /\ loaded = TRUE
        /\ table[u] # None /\ tableLost' \in BOOLEAN
        /\ ~tableLost' => ~tableLost /\ ~\E q \in adminReqs : q.op = op /\ q.on = u /\ q.val # w
    BY <1>1 DEF AskUser, formPart, panelPart, AdminInv, AdminTypeOK
  <1>4. (op = "role" => w \in {"admin", "user"}) /\ (op = "status" => w \in {"active", "disabled"})
    BY <1>1 DEF Wish
  <1>5. AdminTypeOK'
    BY <1>2, <1>3, <1>4 DEF AdminInv, AdminTypeOK, IsAdminRequest, UserOps, RowOps, People
  <1>6. LoadIsFirst'
    BY <1>2, <1>3, LoadIsOver DEF AdminInv, LoadIsFirst, RowOps
  <1>7. TableFollows'
    <2>1. CASE tableLost'
      BY <1>3, <2>1 DEF AdminInv, TableFollows
    <2>2. CASE ~tableLost'
      <3>1. \A o \in UserOps, v \in People : Done(o, v)' <=> Done(o, v)
        BY <1>2 DEF Done
      <3>2. \A q \in adminReqs' : q.at = "done" => q \in adminReqs
        BY <1>2
      <3>3. (\A v \in People : RowFollows(v)) /\ WishesAgree /\ CreatedOnce /\ (~created => people[3] = None)
        BY <1>3, <2>2 DEF AdminInv, TableFollows
      <3>4. ASSUME NEW v \in People PROVE RowFollows(v)'
        BY <1>3, <3>1, <3>2, <3>3 DEF RowFollows, UserOps, RowOps
      <3>5. WishesAgree'
        BY <1>2, <1>3, <2>2, <3>3 DEF WishesAgree
      <3>6. CreatedOnce'
        BY <1>2, <1>3, <3>1, <3>2, <3>3 DEF CreatedOnce, UserOps, RowOps, People
      <3> QED
        BY <1>3, <3>3, <3>4, <3>5, <3>6 DEF TableFollows
    <2> QED
      BY <2>1, <2>2
  <1>8. SecretsTyped' /\ FormFollows' /\ PanelsFollow'
    BY <1>2, <1>3, SettingFormKept, PanelsKept DEF AdminInv, SameRequests, SettingOps, RowOps
  <1> QED
    BY <1>5, <1>6, <1>7, <1>8 DEF AdminInv

\* What is typed.
LEMMA TypingKeeps ==
  ASSUME AdminInv,
         (\E tab \in {"users", "settings", "panels"} : OpenTab(tab)) \/ (\E v \in {1, 2} : EditSite(v)) \/ (\E b \in BOOLEAN : FocusSecret(b)) \/ TypeSecret
  PROVE  AdminInv'
  <1>1. /\ UNCHANGED <<adminReqs, people, table, created, tableLost, settings, formCrossed, version, panel, refreshing,
                       wentBack, loaded>> /\ loaded = TRUE
    <2>1. UNCHANGED <<adminReqs, usersPart, settings, formCrossed, panelPart, loaded>>
      BY DEF OpenTab, EditSite, FocusSecret, TypeSecret, formPart
    <2>2. loaded \/ editing
      BY DEF OpenTab, EditSite, FocusSecret, TypeSecret
    <2>3. loaded = TRUE
      BY <2>2 DEF AdminInv, AdminTypeOK, LoadIsFirst
    <2> QED
      BY <2>1, <2>3 DEF usersPart, panelPart
  <1>2. touched' = TRUE \/ UNCHANGED <<form, touched, typedSecrets>>
    BY DEF OpenTab, EditSite, FocusSecret, TypeSecret, formPart
  <1>3. AdminTypeOK'
    BY <1>1, <1>2 DEF AdminInv, AdminTypeOK
  <1>4. LoadIsFirst' /\ TableFollows' /\ PanelsFollow'
    BY <1>1, LoadIsOver, TableKept, PanelsKept DEF AdminInv, LoadIsFirst, SameRequests
  <1>5. form'.secret \in {None} \cup typedSecrets' /\ typedSecrets \subseteq typedSecrets'
        /\ form' = [site |-> form'.site, secret |-> form'.secret, set |-> form'.set]
    <2>1. CASE TypeSecret
      <3>1. SecretShown # Mask
        BY <2>1, RowsAssumption DEF TypeSecret, SecretShown
      <3> QED
        BY <2>1, <3>1 DEF TypeSecret, AdminInv, SecretsTyped
    <2>2. CASE ~TypeSecret
      BY <2>2 DEF OpenTab, EditSite, FocusSecret, formPart, AdminInv, SecretsTyped
    <2> QED
      BY <2>1, <2>2
  <1>6. SecretsTyped'
    BY <1>1, <1>5 DEF AdminInv, SecretsTyped, SecretIsTyped
  <1>7. FormFollows'
    BY <1>1, <1>2 DEF AdminInv, FormFollows, FormOf, Saving
  <1> QED
    BY <1>3, <1>4, <1>6, <1>7 DEF AdminInv

LEMMA SaveSettingsKeeps ==
  ASSUME AdminInv, SaveSettings
  PROVE  AdminInv'
  <1>1. PICK v : v = form
    OBVIOUS
  <1>2. PICK r : /\ adminReqs' = adminReqs \cup {r}
                 /\ r = [n |-> r.n, op |-> r.op, on |-> r.on, val |-> r.val, at |-> r.at, answer |-> r.answer]
                 /\ r.op = "save" /\ r.val = v /\ r.at = "sent"
    BY <1>1, AdminAsks DEF SaveSettings
  <1>3. /\ UNCHANGED <<people, table, created, tableLost, settings, form, typedSecrets, version, panel, refreshing,
                       wentBack, loaded>> /\ loaded = TRUE
        /\ formCrossed' = (formCrossed \/ Saving) /\ touched' = FALSE
    BY DEF SaveSettings, usersPart, panelPart, AdminInv, AdminTypeOK
  <1>4. AdminTypeOK'
    BY <1>2, <1>3 DEF AdminInv, AdminTypeOK, IsAdminRequest, UserOps, RowOps, SettingOps
  <1>5. LoadIsFirst' /\ TableFollows' /\ PanelsFollow'
    BY <1>2, <1>3, LoadIsOver, TableKept, PanelsKept DEF AdminInv, LoadIsFirst, SameRequests, UserOps, RowOps
  <1>6. SecretsTyped'
    BY <1>1, <1>2, <1>3 DEF AdminInv, SecretsTyped, SecretIsTyped
  <1>7. Saving'
    BY <1>2 DEF Saving
  <1>8. FormFollows'
    BY <1>2, <1>3, <1>7 DEF AdminInv, FormFollows, Saving, SettingOps
  <1> QED
    BY <1>4, <1>5, <1>6, <1>8 DEF AdminInv

LEMMA RefreshKeeps ==
  ASSUME AdminInv, NEW p \in Panels, Refresh(p)
  PROVE  AdminInv'
  <1>1. PICK r : /\ adminReqs' = adminReqs \cup {r}
                 /\ r = [n |-> r.n, op |-> r.op, on |-> r.on, val |-> r.val, at |-> r.at, answer |-> r.answer]
                 /\ r.op = "refresh" /\ r.on = p /\ r.at = "sent"
    BY AdminAsks DEF Refresh
  <1>2. /\ UNCHANGED <<people, table, created, tableLost, settings, form, typedSecrets, touched, formCrossed, version,
                       panel, wentBack, loaded>> /\ loaded = TRUE
        /\ p \notin refreshing /\ refreshing' = refreshing \cup {p}
    BY DEF Refresh, usersPart, formPart, AdminInv, AdminTypeOK
  <1>3. AdminTypeOK'
    BY <1>1, <1>2 DEF AdminInv, AdminTypeOK, IsAdminRequest, UserOps, RowOps
  <1>4. LoadIsFirst' /\ TableFollows' /\ SecretsTyped' /\ FormFollows'
    BY <1>1, <1>2, LoadIsOver, TableKept, SettingFormKept DEF AdminInv, LoadIsFirst, SameRequests, UserOps, RowOps, SettingOps
  <1>5. PanelsFollow'
    BY <1>1, <1>2 DEF AdminInv, PanelsFollow
  <1> QED
    BY <1>3, <1>4, <1>5 DEF AdminInv

\* A step that makes no change of a user, shows none and asks for none.
LEMMA TableSame ==
  ASSUME TableFollows, UNCHANGED <<people, table, created, loaded>>, ~tableLost' => ~tableLost,
         \A op \in UserOps, u \in People : Done(op, u)' <=> Done(op, u),
         \A p \in adminReqs' : p.op \in UserOps /\ p.at = "done" => p \in adminReqs,
         \A p \in adminReqs' : p.op \in RowOps => \E o \in adminReqs : o.op = p.op /\ o.on = p.on /\ o.val = p.val
  PROVE  TableFollows'
  <1>1. ASSUME NEW u \in People, RowFollows(u) PROVE RowFollows(u)'
    BY <1>1 DEF RowFollows, UserOps, RowOps
  <1>2. WishesAgree => WishesAgree'
    <2> SUFFICES ASSUME WishesAgree, NEW q \in adminReqs', NEW p \in adminReqs', q.op \in RowOps, p.op = q.op, p.on = q.on
                 PROVE  p.val = q.val
      BY DEF WishesAgree
    <2>1. PICK a \in adminReqs : a.op = q.op /\ a.on = q.on /\ a.val = q.val
      OBVIOUS
    <2>2. PICK b \in adminReqs : b.op = p.op /\ b.on = p.on /\ b.val = p.val
      OBVIOUS
    <2> QED
      BY <2>1, <2>2 DEF WishesAgree
  <1>3. CreatedOnce => CreatedOnce'
    BY DEF CreatedOnce, UserOps, RowOps, People
  <1> QED
    BY <1>1, <1>2, <1>3 DEF TableFollows

\* The server makes a change of a user.
LEMMA RowChanges ==
  ASSUME AdminInv, NEW q \in adminReqs, q.op \in RowOps, q.at = "sent", NEW r, IsAdminRequest(r),
         adminReqs' = (adminReqs \ {q}) \cup {r}, r.op = q.op, r.on = q.on, r.val = q.val, r.at = "done",
         people' = [people EXCEPT ![q.on] = After(q, @)], UNCHANGED <<created, table, loaded, tableLost>>
  PROVE  TableFollows'
  <1>1. /\ loaded /\ q.on \in People /\ people \in [People -> UserRow \cup {None}]
        /\ (q.op = "role" => q.val \in {"admin", "user"}) /\ (q.op = "status" => q.val \in {"active", "disabled"})
    BY DEF AdminInv, AdminTypeOK, LoadIsFirst, IsAdminRequest, UserOps, RowOps
  <1>2. PICK w : w = After(q, people[q.on])
    OBVIOUS
  <1>3. /\ people'[q.on] = w /\ \A u \in People : u # q.on => people'[u] = people[u]
    BY <1>1, <1>2
  <1>4. /\ people[q.on] = None \/ q.op = "delete" => w = None
        /\ people[q.on] # None /\ q.op = "role" => w # None /\ w.role = q.val /\ w.status = people[q.on].status
        /\ people[q.on] # None /\ q.op = "status" => w # None /\ w.status = q.val /\ w.role = people[q.on].role
    BY <1>1, <1>2, RowsAssumption DEF After, UserRow, RowOps
  <1>5. ~created => people'[3] = None
    BY <1>1, <1>3, <1>4 DEF AdminInv, TableFollows, People
  <1>6. ASSUME ~tableLost PROVE (\A u \in People : RowFollows(u)') /\ WishesAgree' /\ CreatedOnce'
    <2>1. (\A u \in People : RowFollows(u)) /\ WishesAgree /\ CreatedOnce
      BY <1>1, <1>6 DEF AdminInv, TableFollows
    <2>2. \A op \in UserOps, u \in People : Done(op, u)' <=> Done(op, u) \/ (op = q.op /\ u = q.on)
      BY DEF Done
    <2>3. \A p \in adminReqs' : p \in adminReqs \/ p = r
      OBVIOUS
    <2>4. WishesAgree'
      BY <2>1, <2>3 DEF WishesAgree
    <2>5. ~Done("create", q.on) /\ ~Done("create", q.on)'
      BY <1>1, <2>1, <2>2 DEF CreatedOnce, Done, UserOps, RowOps, AdminInv, AdminTypeOK, IsAdminRequest
    <2>6. CreatedOnce'
      BY <1>1, <1>3, <2>1, <2>2, <2>3 DEF CreatedOnce, UserOps, RowOps, People
    <2>7. ASSUME NEW u \in People, u # q.on PROVE RowFollows(u)'
      BY <1>3, <2>1, <2>2, <2>3, <2>7 DEF RowFollows, UserOps, RowOps
    <2>8. RowFollows(q.on)'
      <3>1. CASE w = None
        <4>1. CASE people[q.on] = None
          BY <1>1, <1>3, <2>1, <2>2, <2>5, <3>1, <4>1 DEF RowFollows, UserOps, RowOps
        <4>2. CASE people[q.on] # None
          BY <1>1, <1>3, <1>4, <2>1, <2>2, <2>5, <3>1, <4>2 DEF RowFollows, UserOps, RowOps
        <4> QED
          BY <4>1, <4>2
      <3>2. CASE w # None
        <4>1. people[q.on] # None /\ q.op \in {"role", "status"}
          BY <1>4, <3>2 DEF RowOps
        <4>2. \A p \in adminReqs' : p.op = q.op /\ p.on = q.on => p.val = q.val
          BY <2>1, <2>3, <4>1 DEF WishesAgree, RowOps
        <4> QED
          BY <1>1, <1>3, <1>4, <2>1, <2>2, <2>3, <2>5, <3>2, <4>1, <4>2 DEF RowFollows, UserOps, RowOps
      <3> QED
        BY <3>1, <3>2
    <2> QED
      BY <2>4, <2>6, <2>7, <2>8
  <1> QED
    BY <1>5, <1>6 DEF TableFollows

LEMMA ServeUsersKeeps ==
  ASSUME AdminInv, NEW q \in adminReqs, ServeUsers(q)
  PROVE  AdminInv'
  <1>1. PICK at \in {"done", "refused"} : Answer(q, at, None) /\ (q.op = "create" => (at = "refused" <=> created))
                                          /\ (q.op # "create" => (at = "refused" <=> Protected(q)))
    BY DEF ServeUsers
  <1>2. IsAdminRequest(q) /\ q.at = "sent" /\ q.op \in UserOps
    BY DEF ServeUsers, AdminInv, AdminTypeOK, UserOps, RowOps
  <1>3. PICK r : /\ adminReqs' = (adminReqs \ {q}) \cup {r} /\ IsAdminRequest(r)
                 /\ r.op = q.op /\ r.on = q.on /\ r.val = q.val /\ r.at = at
    BY <1>1, <1>2, AdminAnswers
  <1>4. /\ UNCHANGED <<table, tableLost, settings, form, typedSecrets, touched, formCrossed, version, panel, refreshing,
                       wentBack, loaded>> /\ loaded = TRUE
    BY <1>2 DEF ServeUsers, formPart, panelPart, AdminInv, AdminTypeOK, LoadIsFirst, UserOps, RowOps
  <1>5. /\ q.on \in People /\ (q.op = "create" => q.on = 3) /\ people \in [People -> UserRow \cup {None}]
        /\ (q.op = "role" => q.val \in {"admin", "user"}) /\ (q.op = "status" => q.val \in {"active", "disabled"})
    BY <1>2 DEF IsAdminRequest, AdminInv, AdminTypeOK
  <1>6. /\ q.op = "create" => people' = IF created THEN people ELSE [people EXCEPT ![3] = NewUser]
        /\ q.op = "create" => created' = TRUE
        /\ q.op # "create" => people' = IF Protected(q) THEN people ELSE [people EXCEPT ![q.on] = After(q, @)]
        /\ q.op # "create" => created' = created
    BY DEF ServeUsers
  <1>7. people' \in [People -> UserRow \cup {None}] /\ created' \in BOOLEAN
    <2>1. NewUser \in UserRow
      BY DEF NewUser, UserRow
    <2>2. q.op # "create" => After(q, people[q.on]) \in UserRow \cup {None}
      BY <1>2, <1>5 DEF After, UserRow, UserOps, RowOps
    <2>3. created' \in BOOLEAN
      BY <1>6 DEF AdminInv, AdminTypeOK
    <2> QED
      BY <1>5, <1>6, <2>1, <2>2, <2>3
  <1>8. AdminTypeOK'
    BY <1>3, <1>4, <1>7 DEF AdminInv, AdminTypeOK
  <1>9. LoadIsFirst'
    BY <1>2, <1>3, <1>4, LoadIsOver DEF AdminInv, LoadIsFirst, UserOps, RowOps
  <1>10. SecretsTyped' /\ FormFollows' /\ PanelsFollow'
    BY <1>2, <1>3, <1>4, SettingFormKept, PanelsKept DEF AdminInv, SameRequests, SettingOps, UserOps, RowOps
  <1>11. TableFollows'
    <2>1. CASE at = "refused"
      <3>1. UNCHANGED <<people, created>>
        BY <1>1, <1>6, <2>1 DEF AdminInv, AdminTypeOK
      <3>2. \A op \in UserOps, u \in People : Done(op, u)' <=> Done(op, u)
        BY <1>2, <1>3, <2>1 DEF Done
      <3>3. \A p \in adminReqs' : p.at = "done" => p \in adminReqs
        BY <1>3, <2>1
      <3> QED
        BY <1>3, <1>4, <3>1, <3>2, <3>3, TableSame DEF AdminInv
    <2>2. CASE at = "done" /\ q.op \in RowOps
      BY <1>1, <1>2, <1>3, <1>4, <1>6, <2>2, RowChanges DEF RowOps
    <2>3. CASE at = "done" /\ q.op = "create"
      <3>1. ~created /\ created' /\ people' = [people EXCEPT ![3] = NewUser]
        BY <1>1, <1>6, <2>3
      <3>2. people'[3] = NewUser /\ people'[1] = people[1] /\ people'[2] = people[2]
        BY <1>5, <3>1 DEF People
      <3>3. ASSUME ~tableLost PROVE (\A u \in People : RowFollows(u)') /\ WishesAgree' /\ CreatedOnce'
        <4>1. (\A u \in People : RowFollows(u)) /\ WishesAgree /\ CreatedOnce
          BY <1>4, <3>3 DEF AdminInv, TableFollows
        <4>2. \A op \in RowOps, u \in People : Done(op, u)' <=> Done(op, u)
          BY <1>3, <2>3 DEF Done, RowOps
        <4>3. Done("create", 3)' /\ ~Done("create", 3) /\ ~Done("create", 1) /\ ~Done("create", 2)
          BY <1>3, <1>5, <2>3, <3>1, <4>1 DEF Done, CreatedOnce, AdminInv, AdminTypeOK, IsAdminRequest
        <4>4. \A p \in adminReqs' : p.op \in RowOps => p \in adminReqs
          BY <1>3, <2>3 DEF RowOps
        <4>5. \A p \in adminReqs' : p.op = "create" /\ p.at = "done" => p = r
          BY <1>3, <1>5, <4>3 DEF Done, AdminInv, AdminTypeOK, IsAdminRequest
        <4>6. WishesAgree'
          BY <4>1, <4>4 DEF WishesAgree
        <4>7. CreatedOnce'
          BY <1>4, <3>1, <3>2, <4>1, <4>2, <4>4, <4>5 DEF CreatedOnce
        <4>8. RowFollows(3)'
          BY <4>3 DEF RowFollows
        <4>9. ASSUME NEW u \in {1, 2} PROVE RowFollows(u)'
          BY <1>4, <3>2, <4>1, <4>2, <4>3, <4>4 DEF RowFollows, RowOps, People
        <4> QED
          BY <4>6, <4>7, <4>8, <4>9 DEF People
      <3> QED
        BY <1>4, <3>1, <3>3 DEF TableFollows
    <2> QED
      BY <1>2, <2>1, <2>2, <2>3 DEF UserOps
  <1> QED
    BY <1>8, <1>9, <1>10, <1>11 DEF AdminInv

LEMMA ServeSettingsKeeps ==
  ASSUME AdminInv, NEW q \in adminReqs, ServeSettings(q)
  PROVE  AdminInv'
  <1>1. PICK answer : Answer(q, "done", answer) /\ (q.op = "fresh" => answer = settings)
    BY DEF ServeSettings
  <1>2. IsAdminRequest(q) /\ q.at = "sent" /\ q.op \in SettingOps
    BY DEF ServeSettings, AdminInv, AdminTypeOK, SettingOps
  <1>3. PICK r : /\ adminReqs' = (adminReqs \ {q}) \cup {r} /\ IsAdminRequest(r)
                 /\ r.op = q.op /\ r.on = q.on /\ r.val = q.val /\ r.at = "done" /\ r.answer = answer
    BY <1>1, <1>2, AdminAnswers
  <1>4. /\ UNCHANGED <<people, table, created, tableLost, form, typedSecrets, touched, formCrossed, version, panel, refreshing,
                       wentBack, loaded>> /\ loaded = TRUE
    BY <1>2 DEF ServeSettings, usersPart, panelPart, AdminInv, AdminTypeOK, LoadIsFirst, SettingOps
  <1>5. AdminTypeOK'
    BY <1>3, <1>4 DEF AdminInv, AdminTypeOK
  <1>6. LoadIsFirst' /\ TableFollows' /\ PanelsFollow'
    BY <1>2, <1>3, <1>4, LoadIsOver, TableKept, PanelsKept DEF AdminInv, LoadIsFirst, SameRequests, SettingOps, UserOps, RowOps
  <1>7. SecretsTyped'
    <2>1. CASE q.op = "save"
      <3>1. PICK k : k = IF q.val.secret = None THEN settings.secret ELSE q.val.secret
        OBVIOUS
      <3>2. settings' = [site |-> q.val.site, secret |-> k]
        BY <2>1, <3>1 DEF ServeSettings
      <3>3. k \in {"initial"} \cup typedSecrets
        BY <2>1, <3>1 DEF AdminInv, SecretsTyped, SecretIsTyped
      <3> QED
        BY <1>3, <1>4, <3>2, <3>3 DEF AdminInv, SecretsTyped, SecretIsTyped
    <2>2. CASE q.op # "save"
      BY <1>3, <1>4, <2>2 DEF ServeSettings, AdminInv, SecretsTyped, SecretIsTyped
    <2> QED
      BY <2>1, <2>2
  <1>8. Saving'
    BY <1>2, <1>3 DEF Saving, SettingOps
  <1>9. FormFollows'
    <2>1. \A p \in adminReqs' : p.op \in SettingOps /\ p # r => p \in adminReqs /\ p # q
      BY <1>3
    <2>2. r.op = "fresh" => r.answer = settings'
      BY <1>1, <1>3 DEF ServeSettings
    <2>3. ~formCrossed => \A p \in adminReqs' : p.op \in SettingOps => p = r
      BY <1>2, <2>1 DEF AdminInv, FormFollows
    <2> QED
      BY <1>4, <1>8, <2>2, <2>3 DEF FormFollows, SettingOps
  <1> QED
    BY <1>5, <1>6, <1>7, <1>9 DEF AdminInv

LEMMA ServeLoadKeeps ==
  ASSUME AdminInv, NEW q \in adminReqs, ServeLoad(q)
  PROVE  AdminInv'
  <1>1. PICK answer : answer = [people |-> people, settings |-> settings, version |-> version]
    OBVIOUS
  <1>2. IsAdminRequest(q) /\ q.at = "sent" /\ q.op = "load" /\ Answer(q, "done", answer)
    BY <1>1 DEF ServeLoad, AdminInv, AdminTypeOK
  <1>3. PICK r : /\ adminReqs' = (adminReqs \ {q}) \cup {r} /\ IsAdminRequest(r)
                 /\ r.op = "load" /\ r.at = "done" /\ r.answer = answer
    BY <1>2, AdminAnswers
  <1>4. UNCHANGED <<people, table, created, tableLost, settings, form, editing, typedSecrets, touched, formCrossed, version,
                    panel, refreshing, wentBack, loaded>>
    BY DEF ServeLoad, usersPart, formPart, panelPart
  <1>5. AdminTypeOK'
    BY <1>3, <1>4 DEF AdminInv, AdminTypeOK
  <1>6. LoadIsFirst'
    <2>1. ~loaded /\ adminReqs' = {r}
      BY <1>2, <1>3 DEF AdminInv, LoadIsFirst
    <2>2. version \in [Panels -> Nat] /\ \A p \in Panels : version[p] <= version[p]
      BY DEF AdminInv, AdminTypeOK
    <2>3. r.answer.people = people /\ r.answer.settings = settings /\ r.answer.version = version
      BY <1>1, <1>3
    <2>4. ~created /\ ~editing /\ refreshing = {}
      BY <2>1 DEF AdminInv, LoadIsFirst
    <2> QED
      BY <1>3, <1>4, <2>1, <2>2, <2>3, <2>4 DEF LoadIsFirst
  <1>7. TableFollows' /\ SecretsTyped' /\ FormFollows' /\ PanelsFollow'
    BY <1>2, <1>3, <1>4, TableKept, SettingFormKept, PanelsKept DEF AdminInv, SameRequests, SettingOps, UserOps, RowOps
  <1> QED
    BY <1>5, <1>6, <1>7 DEF AdminInv

LEMMA ServeRefreshAdminKeeps ==
  ASSUME AdminInv, NEW q \in adminReqs, ServeRefresh(q)
  PROVE  AdminInv'
  <1>1. PICK answer : answer = version[q.on]
    OBVIOUS
  <1>2. IsAdminRequest(q) /\ q.at = "sent" /\ q.op = "refresh" /\ Answer(q, "done", answer)
    BY <1>1 DEF ServeRefresh, AdminInv, AdminTypeOK
  <1>3. PICK r : /\ adminReqs' = (adminReqs \ {q}) \cup {r} /\ IsAdminRequest(r)
                 /\ r.op = "refresh" /\ r.on = q.on /\ r.at = "done" /\ r.answer = answer
    BY <1>2, AdminAnswers
  <1>4. /\ UNCHANGED <<people, table, created, tableLost, settings, form, typedSecrets, touched, formCrossed, version,
                       panel, refreshing, wentBack, loaded>> /\ loaded = TRUE
    BY <1>2 DEF ServeRefresh, usersPart, formPart, panelPart, AdminInv, AdminTypeOK, LoadIsFirst
  <1>5. AdminTypeOK'
    BY <1>3, <1>4 DEF AdminInv, AdminTypeOK
  <1>6. LoadIsFirst' /\ TableFollows' /\ SecretsTyped' /\ FormFollows'
    BY <1>2, <1>3, <1>4, LoadIsOver, TableKept, SettingFormKept DEF AdminInv, LoadIsFirst, SameRequests, SettingOps, UserOps, RowOps
  <1>7. PanelsFollow'
    <2>1. q.on \in Panels
      BY <1>2 DEF IsAdminRequest
    <2>2. answer \in Nat /\ panel[q.on] <= answer /\ answer <= version[q.on]
      BY <1>1, <2>1 DEF AdminInv, AdminTypeOK, PanelsFollow
    <2>3. \A p \in adminReqs' : p = r \/ (p \in adminReqs /\ p # q)
      BY <1>3
    <2> QED
      BY <1>2, <1>3, <1>4, <2>2, <2>3 DEF AdminInv, PanelsFollow
  <1> QED
    BY <1>5, <1>6, <1>7 DEF AdminInv

LEMMA ChangeElsewhereKeeps ==
  ASSUME AdminInv, ChangeElsewhere
  PROVE  AdminInv'
  <1>1. UNCHANGED <<adminReqs, people, table, created, tableLost, form, editing, typedSecrets, touched, panel, refreshing,
                    wentBack, loaded>>
    BY DEF ChangeElsewhere, usersPart
  <1>2. CASE (\E p \in Panels : version' = [version EXCEPT ![p] = @ + 1]) /\ UNCHANGED <<settings, formCrossed>>
    <2>1. PICK p \in Panels : version' = [version EXCEPT ![p] = @ + 1]
      BY <1>2
    <2>2. version \in [Panels -> Nat]
      BY DEF AdminInv, AdminTypeOK
    <2>3. version' \in [Panels -> Nat] /\ \A o \in Panels : version[o] <= version'[o]
      BY <2>1, <2>2
    <2>4. AdminTypeOK'
      BY <1>1, <1>2, <2>3 DEF AdminInv, AdminTypeOK
    <2>5. LoadIsFirst'
      <3>1. ASSUME NEW q \in adminReqs, q.op = "load", q.at = "done", NEW o \in Panels
            PROVE  q.answer.version[o] <= version'[o]
        <4>1. q.answer.version[o] \in Nat /\ q.answer.version[o] <= version[o] /\ version[o] \in Nat /\ version'[o] \in Nat
          BY <2>2, <2>3, <3>1 DEF AdminInv, LoadIsFirst
        <4> QED
          BY <2>3, <4>1
      <3> QED
        BY <1>1, <1>2, <3>1 DEF AdminInv, LoadIsFirst
    <2>6. TableFollows' /\ SecretsTyped' /\ FormFollows'
      BY <1>1, <1>2, TableKept, SettingFormKept DEF AdminInv, SameRequests
    <2>7. PanelsFollow'
      <3>1. \A o \in Panels : panel[o] \in Nat /\ version[o] \in Nat /\ version'[o] \in Nat /\ panel[o] <= version'[o]
        <4> SUFFICES ASSUME NEW o \in Panels
                     PROVE  panel[o] \in Nat /\ version[o] \in Nat /\ version'[o] \in Nat /\ panel[o] <= version'[o]
          OBVIOUS
        <4>1. panel[o] \in Nat /\ version[o] \in Nat /\ version'[o] \in Nat /\ panel[o] <= version[o]
          BY <2>2, <2>3 DEF AdminInv, AdminTypeOK, PanelsFollow
        <4> QED
          BY <2>3, <4>1
      <3>2. ASSUME NEW q \in adminReqs, q.op = "refresh", q.at = "done" PROVE q.answer <= version'[q.on]
        <4>1. q.on \in Panels /\ q.answer \in Nat /\ q.answer <= version[q.on]
          BY <3>2 DEF AdminInv, AdminTypeOK, IsAdminRequest, PanelsFollow
        <4> QED
          BY <2>3, <3>1, <4>1
      <3> QED
        BY <1>1, <3>1, <3>2 DEF AdminInv, PanelsFollow
    <2> QED
      BY <2>4, <2>5, <2>6, <2>7 DEF AdminInv
  <1>3. CASE settings' = [settings EXCEPT !.site = 3] /\ formCrossed' = TRUE /\ UNCHANGED version
    <2>1. AdminTypeOK' /\ LoadIsFirst'
      BY <1>1, <1>3 DEF AdminInv, AdminTypeOK, LoadIsFirst
    <2>2. TableFollows' /\ PanelsFollow'
      BY <1>1, <1>3, TableKept, PanelsKept DEF AdminInv, SameRequests
    <2>3. SecretsTyped'
      BY <1>1, <1>3 DEF AdminInv, SecretsTyped, SecretIsTyped
    <2>4. FormFollows'
      BY <1>3 DEF FormFollows
    <2> QED
      BY <2>1, <2>2, <2>3, <2>4 DEF AdminInv
  <1> QED
    BY <1>2, <1>3 DEF ChangeElsewhere

\* The answers arrive.
LEMMA LoadArrivesKeeps ==
  ASSUME AdminInv, NEW q \in adminReqs, LoadArrives(q)
  PROVE  AdminInv'
  <1>1. q.op = "load" /\ q.at = "done" /\ ~loaded /\ ~created
    BY DEF LoadArrives, AdminInv, LoadIsFirst
  <1>2. adminReqs' = {}
    BY <1>1 DEF LoadArrives, AdminInv, LoadIsFirst
  <1>3. /\ UNCHANGED <<people, settings, version, refreshing, created, typedSecrets, touched, formCrossed, tableLost, wentBack>>
        /\ loaded' = TRUE
        /\ table' = q.answer.people /\ form' = FormOf(q.answer.settings) /\ panel' = q.answer.version
    BY DEF LoadArrives
  <1>4. /\ q.answer.people = people /\ (~formCrossed => q.answer.settings = settings)
        /\ q.answer.version \in [Panels -> Nat] /\ \A p \in Panels : q.answer.version[p] <= version[p]
    BY <1>1 DEF AdminInv, LoadIsFirst
  <1>5. AdminTypeOK'
    BY <1>2, <1>3, <1>4 DEF AdminInv, AdminTypeOK
  <1>6. LoadIsFirst'
    BY <1>2, <1>3, LoadIsOver
  <1>7. TableFollows'
    <2>1. \A op \in UserOps, u \in People : ~Done(op, u)'
      BY <1>2 DEF Done
    <2>2. \A u \in People : RowFollows(u)'
      BY <1>2, <1>3, <1>4, <2>1 DEF RowFollows, UserOps, RowOps
    <2>3. people[3] = None
      BY <1>1 DEF AdminInv, TableFollows
    <2>4. WishesAgree' /\ CreatedOnce'
      BY <1>1, <1>2, <1>3, <1>4, <2>1, <2>3 DEF WishesAgree, CreatedOnce, UserOps, People
    <2> QED
      BY <1>3, <2>2, <2>3, <2>4 DEF TableFollows
  <1>8. SecretsTyped'
    BY <1>2, <1>3 DEF AdminInv, SecretsTyped, SecretIsTyped, FormOf
  <1>9. FormFollows'
    BY <1>2, <1>3, <1>4 DEF FormFollows, FormOf
  <1>10. PanelsFollow'
    BY <1>2, <1>3, <1>4 DEF AdminInv, PanelsFollow
  <1> QED
    BY <1>5, <1>6, <1>7, <1>8, <1>9, <1>10 DEF AdminInv

LEMMA UserAnsweredKeeps ==
  ASSUME AdminInv, NEW q \in adminReqs, UserAnswered(q)
  PROVE  AdminInv'
  <1>1. IsAdminRequest(q) /\ q.at = "done" /\ q.op \in UserOps /\ q.on \in People /\ loaded = TRUE
    BY DEF UserAnswered, AdminInv, AdminTypeOK, IsAdminRequest, LoadIsFirst, UserOps, RowOps
  <1>2. adminReqs' = adminReqs \ {q}
    BY DEF UserAnswered
  <1>3. UNCHANGED <<people, created, tableLost, settings, form, typedSecrets, touched, formCrossed, version, panel, refreshing,
                    wentBack, loaded>>
    BY DEF UserAnswered, formPart, panelPart
  <1>4. PICK w : w = IF q.op = "create" THEN NewUser ELSE After(q, table[q.on])
    OBVIOUS
  <1>5. table' = [table EXCEPT ![q.on] = w] /\ table \in [People -> UserRow \cup {None}]
        /\ people \in [People -> UserRow \cup {None}]
    BY <1>4 DEF UserAnswered, RowAfter, AdminInv, AdminTypeOK
  <1>6. (q.op = "role" => q.val \in {"admin", "user"}) /\ (q.op = "status" => q.val \in {"active", "disabled"})
        /\ (q.op = "create" => q.on = 3)
    BY <1>1 DEF IsAdminRequest
  <1>7. /\ q.op = "create" => w = NewUser
        /\ q.op = "delete" => w = None
        /\ q.op # "create" /\ table[q.on] = None => w = None
        /\ table[q.on] # None /\ q.op = "role" => w # None /\ w.role = q.val /\ w.status = table[q.on].status
        /\ table[q.on] # None /\ q.op = "status" => w # None /\ w.status = q.val /\ w.role = table[q.on].role
    BY <1>1, <1>4, <1>5, <1>6, RowsAssumption DEF After, UserRow, UserOps, RowOps
  <1>8. w \in UserRow \cup {None}
    BY <1>1, <1>4, <1>5, <1>6 DEF After, NewUser, UserRow, UserOps, RowOps
  <1>9. AdminTypeOK'
    BY <1>2, <1>3, <1>5, <1>8 DEF AdminInv, AdminTypeOK
  <1>10. LoadIsFirst'
    BY <1>1, <1>2, <1>3, LoadIsOver DEF AdminInv, LoadIsFirst
  <1>11. SecretsTyped' /\ FormFollows' /\ PanelsFollow'
    BY <1>1, <1>2, <1>3, SettingFormKept, PanelsKept DEF AdminInv, SameRequests, SettingOps, UserOps, RowOps
  <1>12. TableFollows'
    <2>1. CASE tableLost
      BY <1>3, <2>1 DEF AdminInv, TableFollows
    <2>2. CASE ~tableLost
      <3>1. (\A u \in People : RowFollows(u)) /\ WishesAgree /\ CreatedOnce /\ (~created => people[3] = None)
        BY <1>1, <2>2 DEF AdminInv, TableFollows
      <3>2. table'[q.on] = w /\ \A u \in People : u # q.on => table'[u] = table[u]
        BY <1>1, <1>5
      <3>3. \A op \in UserOps, u \in People : /\ Done(op, u)' => Done(op, u)
                                              /\ op # q.op \/ u # q.on => (Done(op, u)' <=> Done(op, u))
        BY <1>2 DEF Done
      <3>4. \A p \in adminReqs' : p \in adminReqs /\ p # q
        BY <1>2
      <3>5. Done(q.op, q.on)
        BY <1>1 DEF Done
      <3>6. WishesAgree'
        BY <3>1, <3>4 DEF WishesAgree
      <3>7. ASSUME NEW u \in People, u # q.on PROVE RowFollows(u)'
        BY <1>3, <3>1, <3>2, <3>3, <3>4, <3>7 DEF RowFollows, UserOps, RowOps
      <3>8. CASE q.op = "create"
        <4>1. q.on = 3 /\ Done("create", 3) /\ created /\ people[3] = NewUser /\ NewUser # None
          BY <1>6, <3>1, <3>5, <3>8, RowsAssumption DEF CreatedOnce, NewUser
        <4>2. ~Done("create", 3)' /\ \A p \in adminReqs : p.op \in RowOps => p.on # 3
          BY <1>1, <1>2, <3>1, <3>8, <4>1 DEF CreatedOnce, Done
        <4>3. \A op \in RowOps : ~Done(op, 3)'
          BY <3>4, <4>2 DEF Done
        <4>4. RowFollows(3)'
          BY <1>3, <1>7, <3>2, <3>4, <3>8, <4>1, <4>2, <4>3 DEF RowFollows, RowOps, NewUser
        <4>5. CreatedOnce'
          BY <1>3, <3>1, <3>4, <4>1, <4>2 DEF CreatedOnce
        <4> QED
          BY <1>3, <3>1, <3>6, <3>7, <4>1, <4>4, <4>5 DEF TableFollows
      <3>9. CASE q.op \in RowOps
        <4>1. q.on = 3 => created /\ ~Done("create", 3)
          BY <3>1, <3>9 DEF CreatedOnce
        <4>2. ~Done("create", q.on)
          BY <4>1 DEF Done, AdminInv, AdminTypeOK, IsAdminRequest
        <4>3. CreatedOnce'
          BY <1>1, <1>3, <3>1, <3>2, <3>3, <3>4, <4>1 DEF CreatedOnce, UserOps, People
        <4>4. RowFollows(q.on)
          BY <1>1, <3>1
        <4>5. RowFollows(q.on)'
          <5>1. CASE people[q.on] = None
            <6>1. table[q.on] = None \/ Done("delete", q.on)
              BY <4>2, <4>4, <5>1 DEF RowFollows
            <6>2. w = None \/ Done("delete", q.on)'
              BY <1>1, <1>7, <3>3, <3>9, <6>1 DEF UserOps, RowOps
            <6> QED
              BY <1>3, <3>2, <5>1, <6>2 DEF RowFollows
          <5>2. CASE people[q.on] # None
            <6>1. /\ table[q.on] # None /\ ~Done("delete", q.on)
                  /\ table[q.on].role = people[q.on].role \/ Done("role", q.on)
                  /\ table[q.on].status = people[q.on].status \/ Done("status", q.on)
                  /\ \A p \in adminReqs : p.op = "role" /\ p.on = q.on /\ p.at = "done" => p.val = people[q.on].role
                  /\ \A p \in adminReqs : p.op = "status" /\ p.on = q.on /\ p.at = "done" => p.val = people[q.on].status
              BY <4>2, <4>4, <5>2 DEF RowFollows
            <6>2. q.op # "delete"
              BY <3>5, <6>1
            <6>3. w # None
              BY <1>7, <3>9, <6>1, <6>2 DEF RowOps
            <6>4. w.role = people[q.on].role \/ Done("role", q.on)'
              BY <1>1, <1>7, <3>3, <3>9, <6>1, <6>2 DEF UserOps, RowOps
            <6>5. w.status = people[q.on].status \/ Done("status", q.on)'
              BY <1>1, <1>7, <3>3, <3>9, <6>1, <6>2 DEF UserOps, RowOps
            <6>6. ~Done("delete", q.on)'
              BY <1>1, <3>3, <6>1 DEF UserOps, RowOps
            <6> QED
              BY <1>3, <3>2, <3>4, <5>2, <6>1, <6>3, <6>4, <6>5, <6>6 DEF RowFollows
          <5> QED
            BY <5>1, <5>2
        <4> QED
          BY <1>3, <3>1, <3>6, <3>7, <4>3, <4>5 DEF TableFollows
      <3> QED
        BY <1>1, <3>8, <3>9 DEF UserOps
    <2> QED
      BY <2>1, <2>2
  <1> QED
    BY <1>9, <1>10, <1>11, <1>12 DEF AdminInv

LEMMA SavedKeeps ==
  ASSUME AdminInv, NEW q \in adminReqs, Saved(q)
  PROVE  AdminInv'
  <1>1. IsAdminRequest(q) /\ q.at = "done" /\ q.op \in SettingOps /\ loaded = TRUE
    BY DEF Saved, AdminInv, AdminTypeOK, LoadIsFirst, SettingOps
  <1>2. UNCHANGED <<people, table, created, tableLost, settings, typedSecrets, formCrossed, version, panel, refreshing,
                    wentBack, loaded>>
    BY DEF Saved, usersPart, panelPart
  <1>3. CASE q.op = "save"
    <2>1. PICK r : r = [q EXCEPT !.op = "fresh", !.val = None, !.at = "sent"]
      OBVIOUS
    <2>2. r = [n |-> q.n, op |-> "fresh", on |-> q.on, val |-> None, at |-> "sent", answer |-> q.answer]
      BY <1>1, <2>1 DEF IsAdminRequest
    <2>3. IsAdminRequest(r) /\ r.op = "fresh" /\ r.at = "sent"
      BY <2>2 DEF IsAdminRequest, SettingOps, UserOps, RowOps
    <2>4. adminReqs' = (adminReqs \ {q}) \cup {r} /\ UNCHANGED <<form, touched>>
      BY <1>3, <2>1 DEF Saved, AdminInv, AdminTypeOK
    <2>5. AdminTypeOK'
      BY <1>2, <2>3, <2>4 DEF AdminInv, AdminTypeOK
    <2>6. LoadIsFirst' /\ TableFollows' /\ PanelsFollow'
      BY <1>1, <1>2, <2>3, <2>4, LoadIsOver, TableKept, PanelsKept
         DEF AdminInv, LoadIsFirst, SameRequests, SettingOps, UserOps, RowOps
    <2>7. SecretsTyped'
      BY <1>2, <2>3, <2>4 DEF AdminInv, SecretsTyped, SecretIsTyped
    <2>8. Saving'
      BY <2>3, <2>4 DEF Saving
    <2>9. FormFollows'
      BY <1>1, <1>2, <2>3, <2>4, <2>8 DEF AdminInv, FormFollows
    <2> QED
      BY <2>5, <2>6, <2>7, <2>9 DEF AdminInv
  <1>4. CASE q.op = "fresh"
    <2>1. adminReqs' = adminReqs \ {q} /\ form' = FormOf(q.answer) /\ touched' = FALSE
      BY <1>4 DEF Saved
    <2>2. AdminTypeOK'
      BY <1>2, <2>1 DEF AdminInv, AdminTypeOK
    <2>3. LoadIsFirst' /\ TableFollows' /\ PanelsFollow'
      BY <1>1, <1>2, <2>1, LoadIsOver, TableKept, PanelsKept DEF AdminInv, LoadIsFirst, SameRequests, SettingOps, UserOps, RowOps
    <2>4. SecretsTyped'
      BY <1>2, <2>1 DEF AdminInv, SecretsTyped, SecretIsTyped, FormOf
    <2>5. ~formCrossed => q.answer = settings
      BY <1>1, <1>4 DEF AdminInv, FormFollows
    <2>6. FormFollows'
      BY <1>1, <1>2, <2>1, <2>5 DEF AdminInv, FormFollows, FormOf
    <2> QED
      BY <2>2, <2>3, <2>4, <2>6 DEF AdminInv
  <1> QED
    BY <1>1, <1>3, <1>4 DEF SettingOps

LEMMA RefreshedKeeps ==
  ASSUME AdminInv, NEW q \in adminReqs, Refreshed(q)
  PROVE  AdminInv'
  <1>1. IsAdminRequest(q) /\ q.at = "done" /\ q.op = "refresh" /\ loaded = TRUE /\ q.on \in Panels
    BY DEF Refreshed, AdminInv, AdminTypeOK, IsAdminRequest, LoadIsFirst
  <1>2. /\ UNCHANGED <<people, table, created, tableLost, settings, form, typedSecrets, touched, formCrossed, version, loaded>>
        /\ adminReqs' = adminReqs \ {q} /\ refreshing' = refreshing \ {q.on}
        /\ panel' = [panel EXCEPT ![q.on] = q.answer] /\ wentBack' = (wentBack \/ q.answer < panel[q.on])
    BY DEF Refreshed, usersPart, formPart
  <1>3. q.answer \in Nat /\ panel[q.on] <= q.answer /\ q.answer <= version[q.on] /\ panel[q.on] \in Nat
    BY <1>1 DEF AdminInv, PanelsFollow, AdminTypeOK
  <1>4. wentBack' = FALSE
    <2>1. ~(q.answer < panel[q.on])
      BY <1>3
    <2>2. ~wentBack
      BY DEF AdminInv, PanelsFollow
    <2> QED
      BY <1>2, <2>1, <2>2
  <1>5. panel' \in [Panels -> Nat] /\ panel'[q.on] = q.answer /\ \A p \in Panels : p # q.on => panel'[p] = panel[p]
    BY <1>1, <1>2, <1>3 DEF AdminInv, AdminTypeOK
  <1>6. AdminTypeOK'
    BY <1>2, <1>4, <1>5 DEF AdminInv, AdminTypeOK
  <1>7. LoadIsFirst' /\ TableFollows' /\ SecretsTyped' /\ FormFollows'
    BY <1>1, <1>2, LoadIsOver, TableKept, SettingFormKept DEF AdminInv, LoadIsFirst, SameRequests, SettingOps, UserOps, RowOps
  <1>8. PanelsFollow'
    <2>1. ASSUME NEW p \in adminReqs', p.op = "refresh" PROVE p \in adminReqs /\ p.on # q.on /\ p.on \in Panels
      BY <1>1, <1>2, <2>1 DEF AdminInv, PanelsFollow, AdminTypeOK, IsAdminRequest
    <2>2. \A p \in Panels : panel'[p] <= version'[p]
      BY <1>2, <1>3, <1>5 DEF AdminInv, PanelsFollow
    <2> QED
      BY <1>2, <1>4, <1>5, <2>1, <2>2 DEF AdminInv, PanelsFollow
  <1> QED
    BY <1>6, <1>7, <1>8 DEF AdminInv

LEMMA RequestLostKeeps ==
  ASSUME AdminInv, NEW q \in adminReqs, RequestLost(q)
  PROVE  AdminInv'
  <1>1. IsAdminRequest(q) /\ adminReqs' = adminReqs \ {q}
    BY DEF RequestLost, AdminInv, AdminTypeOK
  <1>2. /\ UNCHANGED <<people, table, created, settings, form, typedSecrets, touched, version, panel, wentBack>>
        /\ loaded' = (loaded \/ q.op = "load")
        /\ refreshing' = IF q.op = "refresh" THEN refreshing \ {q.on} ELSE refreshing
        /\ tableLost' = (tableLost \/ q.op = "load" \/ (q.at = "done" /\ q.op \in UserOps))
        /\ formCrossed' = (formCrossed \/ q.op \in {"load", "save", "fresh"})
    BY DEF RequestLost, UserOps, RowOps
  <1>3. loaded' = TRUE /\ (q.op = "load" <=> ~loaded) /\ \A p \in adminReqs' : p.op # "load"
    BY <1>1, <1>2 DEF AdminInv, AdminTypeOK, LoadIsFirst
  <1>4. AdminTypeOK'
    BY <1>1, <1>2, <1>3 DEF AdminInv, AdminTypeOK
  <1>5. LoadIsFirst'
    BY <1>3, LoadIsOver
  <1>6. TableFollows'
    <2>1. CASE tableLost'
      BY <1>2, <2>1 DEF AdminInv, TableFollows
    <2>2. CASE ~tableLost'
      <3>1. q.op # "load" /\ loaded /\ ~tableLost /\ (q.op \in UserOps => q.at # "done")
        BY <1>2, <1>3, <2>2
      <3>2. UNCHANGED <<people, table, created, loaded>>
        BY <1>2, <1>3, <3>1 DEF AdminInv, AdminTypeOK
      <3>3. \A op \in UserOps, u \in People : Done(op, u)' <=> Done(op, u)
        BY <1>1, <3>1 DEF Done
      <3>4. \A p \in adminReqs' : p \in adminReqs
        BY <1>1
      <3> QED
        BY <2>2, <3>1, <3>2, <3>3, <3>4, TableSame DEF AdminInv
    <2> QED
      BY <2>1, <2>2
  <1>7. SecretsTyped'
    BY <1>1, <1>2 DEF AdminInv, SecretsTyped, SecretIsTyped
  <1>8. FormFollows'
    <2>1. CASE formCrossed'
      BY <2>1 DEF FormFollows
    <2>2. CASE ~formCrossed'
      <3>1. q.op # "load" /\ q.op \notin SettingOps /\ loaded
        BY <1>2, <1>3, <2>2 DEF SettingOps
      <3>2. UNCHANGED <<loaded, formCrossed>>
        BY <1>2, <1>3, <2>2, <3>1 DEF AdminInv, AdminTypeOK
      <3> QED
        BY <1>1, <1>2, <3>1, <3>2, SettingFormKept DEF AdminInv, SameRequests
    <2> QED
      BY <2>1, <2>2
  <1>9. PanelsFollow'
    BY <1>1, <1>2 DEF AdminInv, PanelsFollow
  <1> QED
    BY <1>4, <1>5, <1>6, <1>7, <1>8, <1>9 DEF AdminInv

LEMMA AdminStarts ==
  ASSUME AdminInit
  PROVE  AdminInv
  <1>1. PICK f : f = [n |-> 1, op |-> "load", on |-> None, val |-> None, at |-> "sent", answer |-> None]
    OBVIOUS
  <1>2. /\ adminReqs = {f} /\ IsAdminRequest(f) /\ f.op = "load" /\ f.at = "sent" /\ loaded = FALSE
        /\ created = FALSE /\ editing = FALSE /\ refreshing = {} /\ touched = FALSE /\ formCrossed = FALSE
        /\ tableLost = FALSE /\ wentBack = FALSE /\ typedSecrets = {}
        /\ version = [p \in Panels |-> 0] /\ panel = [p \in Panels |-> 0] /\ table = [u \in People |-> None]
        /\ settings = [site |-> 2, secret |-> "initial"] /\ form = [site |-> Default, secret |-> None, set |-> FALSE]
    BY <1>1 DEF AdminInit, IsAdminRequest, UserOps, RowOps, SettingOps
  <1>3. people \in [People -> UserRow \cup {None}] /\ people[3] = None
    BY DEF AdminInit, NewUser, UserRow, People
  <1>4. AdminTypeOK
    BY <1>2, <1>3 DEF AdminTypeOK
  <1>5. LoadIsFirst /\ TableFollows /\ SecretsTyped /\ FormFollows
    BY <1>2, <1>3 DEF LoadIsFirst, TableFollows, SecretsTyped, SecretIsTyped, FormFollows, SettingOps
  <1>6. PanelsFollow
    BY <1>2 DEF PanelsFollow
  <1> QED
    BY <1>4, <1>5, <1>6 DEF AdminInv

LEMMA AdminStutters ==
  ASSUME AdminInv, UNCHANGED adminVars
  PROVE  AdminInv'
  <1>1. UNCHANGED <<adminReqs, people, table, created, tableLost, settings, form, editing, typedSecrets, touched, formCrossed,
                    version, panel, refreshing, wentBack, loaded>>
    BY DEF adminVars
  <1>2. AdminTypeOK' /\ LoadIsFirst'
    BY <1>1 DEF AdminInv, AdminTypeOK, LoadIsFirst
  <1>3. TableFollows' /\ SecretsTyped' /\ FormFollows' /\ PanelsFollow'
    BY <1>1, TableKept, SettingFormKept, PanelsKept DEF AdminInv, SameRequests
  <1> QED
    BY <1>2, <1>3 DEF AdminInv

LEMMA AdminSteps ==
  ASSUME AdminInv, AdminNext
  PROVE  AdminInv'
  <1>1. CASE \E op \in RowOps, u \in People : AskUser(op, u)
    BY <1>1, AskUserKeeps
  <1>2. CASE CreateUser \/ SaveSettings \/ ChangeElsewhere \/ \E p \in Panels : Refresh(p)
    BY <1>2, CreateUserKeeps, SaveSettingsKeeps, ChangeElsewhereKeeps, RefreshKeeps
  <1>3. CASE \/ \E tab \in {"users", "settings", "panels"} : OpenTab(tab)
             \/ \E v \in {1, 2} : EditSite(v)
             \/ \E b \in BOOLEAN : FocusSecret(b)
             \/ TypeSecret
    BY <1>3, TypingKeeps
  <1>4. ASSUME NEW q \in adminReqs, ServeUsers(q) \/ ServeSettings(q) \/ ServeLoad(q) \/ ServeRefresh(q)
        PROVE  AdminInv'
    BY <1>4, ServeUsersKeeps, ServeSettingsKeeps, ServeLoadKeeps, ServeRefreshAdminKeeps
  <1>5. ASSUME NEW q \in adminReqs,
               LoadArrives(q) \/ UserAnswered(q) \/ Saved(q) \/ Refreshed(q) \/ RequestLost(q)
        PROVE  AdminInv'
    BY <1>5, LoadArrivesKeeps, UserAnsweredKeeps, SavedKeeps, RefreshedKeeps, RequestLostKeeps
  <1> QED
    BY <1>1, <1>2, <1>3, <1>4, <1>5 DEF AdminNext, RowOps

\* The rows, the form and the panels of the admin page differ from the server by what is under way.
THEOREM AdminInvariant == AdminSpec => []AdminInv
  <1>1. AdminInit => AdminInv
    BY AdminStarts
  <1>2. AdminInv /\ [AdminNext]_adminVars => AdminInv'
    BY AdminSteps, AdminStutters
  <1> QED
    BY <1>1, <1>2, PTL DEF AdminSpec

\* When all is answered the table of users is the server's, what a save stores was typed, a form
\* left alone shows what is stored, and no panel goes back (use-admin-page-state.ts), although
\* requests overlap and are answered in any order.
THEOREM AdminPagesAgree == AdminSpec => []AdminPageAgrees
  <1>1. ASSUME AdminInv PROVE AdminPageAgrees
    <2>1. TableAgrees
      <3> SUFFICES ASSUME adminReqs = {}, ~tableLost PROVE table = people
        BY DEF TableAgrees
      <3>1. \A op \in UserOps, u \in People : ~Done(op, u)
        BY DEF Done
      <3>2. \A u \in People : RowFollows(u)
        BY <1>1 DEF AdminInv, TableFollows, LoadIsFirst
      <3>3. people \in [People -> UserRow \cup {None}] /\ table \in [People -> UserRow \cup {None}]
        BY <1>1 DEF AdminInv, AdminTypeOK
      <3>4. ASSUME NEW u \in People PROVE table[u] = people[u]
        <4>1. CASE people[u] = None
          BY <3>1, <3>2, <4>1 DEF RowFollows, UserOps, RowOps
        <4>2. CASE people[u] # None
          <5>1. table[u] # None /\ table[u].role = people[u].role /\ table[u].status = people[u].status
            BY <3>1, <3>2, <4>2 DEF RowFollows, UserOps, RowOps
          <5>2. table[u] \in UserRow /\ people[u] \in UserRow
            BY <3>3, <4>2, <5>1
          <5> QED
            BY <5>1, <5>2 DEF UserRow
        <4> QED
          BY <4>1, <4>2
      <3> QED
        BY <3>3, <3>4
    <2>2. SecretIsTyped /\ FormAgrees /\ PanelsAdvance
      <3>1. FormAgrees
        BY <1>1 DEF AdminInv, FormFollows, FormAgrees
      <3> QED
        BY <1>1, <3>1 DEF AdminInv, SecretsTyped, PanelsFollow, PanelsAdvance
    <2> QED
      BY <2>1, <2>2 DEF AdminPageAgrees
  <1> QED
    BY <1>1, AdminInvariant, PTL
-----------------------------------------------------------------------------
(* RateCache: rates in a store that two tabs read and write whole.         *)

RateSpec == RateInit /\ [][RateNext]_rateVars

RateValue == Currencies \X Currencies \X Nat

RateEntry == [rate : RateValue, expires : Nat]

RateLookup ==
    [n : Nat, tab : RateTabs, target : Currencies, at : {"look", "drop", "wait", "store"},
     wanted : SUBSET Currencies, todo : SUBSET Currencies, found : [Currencies -> RateValue \cup {None}],
     changes : SUBSET Currencies, seen : [Pairs -> RateEntry \cup {None}] \cup {None}]

RateTypeOK ==
    /\ rateClock \in Nat /\ lookupCount \in Nat
    /\ rateStore \in [Pairs -> RateEntry \cup {None}]
    /\ preferred \in [RateTabs -> Currencies \cup {None}] /\ sources \in [RateTabs -> SUBSET Currencies]
    /\ pageRates \in [RateTabs -> [Pairs -> RateValue \cup {None}]]
    /\ effect \in [RateTabs -> Nat] /\ lookups \subseteq RateLookup
    /\ lookedSince \in [RateTabs -> Nat] /\ unknown \in [RateTabs -> SUBSET Currencies]

\* A rate of the pair that has been received by now, and an entry that holds one.
Received(p, r) == r[1] = p[1] /\ r[2] = p[2] /\ r[3] <= rateClock

Entry(p, e) == Received(p, e.rate) /\ e.expires = e.rate[3] + RateTTL

Holds(store) == \A p \in Pairs : store[p] # None => Entry(p, store[p])

\* What a lookup has found, has read of the store and will change of it.
LookupTrue(q) ==
    /\ q.todo \subseteq q.wanted /\ q.n # 0 /\ q.n <= lookupCount
    /\ \A c \in Currencies : q.found[c] # None => Received(<<c, q.target>>, q.found[c])
    /\ q.at \in {"look", "drop"} => \A c \in q.todo : q.found[c] = None
    /\ q.at \in {"drop", "store"} => q.seen \in [Pairs -> RateEntry \cup {None}] /\ Holds(q.seen)
    /\ q.at = "drop" => \A c \in q.changes : /\ q.found[c] = None
                                             /\ q.seen[<<c, q.target>>] # None
                                             /\ q.seen[<<c, q.target>>].expires <= rateClock
    /\ q.at = "store" => \A c \in q.changes :
          /\ q.found[c] # None
          /\ q.seen[<<c, q.target>>] # None => q.seen[<<c, q.target>>].rate[3] <= q.found[c][3]

\* The lookup whose answer the tab takes is for what the tab shows, and has found nothing
\* that had expired when it began.
CurrentTrue(q) ==
    effect[q.tab] = q.n =>
        /\ preferred[q.tab] = q.target /\ sources[q.tab] = q.wanted \cup {q.target}
        /\ \A c \in Currencies : q.found[c] # None => q.found[c][3] + RateTTL > lookedSince[q.tab]
        /\ q.at = "store" => \A c \in q.wanted : q.found[c] # None \/ c \in unknown[q.tab]

PagesTrue ==
    /\ \A t \in RateTabs, p \in Pairs : pageRates[t][p] # None => Received(p, pageRates[t][p])
    /\ \A t \in RateTabs : lookedSince[t] <= rateClock /\ (sources[t] # {} => preferred[t] \in Currencies)

RateInv ==
    /\ RateTypeOK /\ Holds(rateStore) /\ PagesTrue /\ CardsHaveRates
    /\ \A q \in lookups : LookupTrue(q) /\ CurrentTrue(q)
    /\ \A p, q \in lookups : p.n = q.n => p = q

LEMMA RateIsThere ==
  ASSUME NEW r
  PROVE  /\ r \in RateValue => r # None
         /\ r \in RateEntry => r # None
BY RatesAssumption DEF RateValue, RateEntry

LEMMA CardIsRate ==
  ASSUME RateTypeOK, NEW t \in RateTabs, NEW c \in Currencies, preferred[t] \in Currencies, c # preferred[t]
  PROVE  /\ <<c, preferred[t]>> \in Pairs /\ CardRate(t, c) = pageRates[t][<<c, preferred[t]>>]
         /\ pageRates[t][<<c, preferred[t]>>] \in RateValue \cup {None}
BY DEF CardRate, Pairs, RateTypeOK

LEMMA RateInitial ==
  ASSUME RateInit
  PROVE  RateInv
<1>1. PICK left \in {{}, Pairs} :
        rateStore = [p \in Pairs |-> IF p \in left THEN [rate |-> <<p[1], p[2], 0>>, expires |-> RateTTL] ELSE None]
  BY DEF RateInit
<1>2. ASSUME NEW p \in Pairs
      PROVE  /\ [rate |-> <<p[1], p[2], 0>>, expires |-> RateTTL] \in RateEntry
             /\ Entry(p, [rate |-> <<p[1], p[2], 0>>, expires |-> RateTTL])
  BY DEF Pairs, RateEntry, RateValue, Entry, Received, RateTTL, RateInit
<1>3. rateStore \in [Pairs -> RateEntry \cup {None}] /\ Holds(rateStore)
  BY <1>1, <1>2 DEF Holds
<1>4. RateTypeOK
  BY <1>3 DEF RateInit, RateTypeOK
<1>5. PagesTrue /\ CardsHaveRates /\ lookups = {}
  BY DEF RateInit, PagesTrue, CardsHaveRates
<1> QED
  BY <1>3, <1>4, <1>5 DEF RateInv

\* What the store loses or replaces in a step.
StoreKept ==
    \A p \in Pairs : rateStore[p] # None /\ rateStore'[p] # rateStore[p] =>
        \/ rateStore[p].expires <= rateClock
        \/ rateStore'[p] # None /\ rateStore'[p].rate[3] > rateStore[p].rate[3]
        \/ Crossed

\* Entries and rates stay received as time goes by.
LEMMA RatesStay ==
  ASSUME RateTypeOK, rateClock' \in {rateClock, rateClock + 1}
  PROVE  /\ \A p, r : r \in RateValue /\ Received(p, r) => Received(p, r)'
         /\ \A store \in [Pairs -> RateEntry \cup {None}] : Holds(store) => Holds(store)'
<1>1. \A p, r : r \in RateValue /\ Received(p, r) => Received(p, r)'
  BY DEF RateTypeOK, RateValue, Received
<1>2. ASSUME NEW store \in [Pairs -> RateEntry \cup {None}], Holds(store)
      PROVE  Holds(store)'
  <2> SUFFICES ASSUME NEW p \in Pairs, store[p] # None
               PROVE  Entry(p, store[p])'
    BY DEF Holds
  <2>1. store[p] \in RateEntry /\ Entry(p, store[p])
    BY <1>2 DEF Holds
  <2>2. store[p].rate \in RateValue
    BY <2>1 DEF RateEntry
  <2> QED
    BY <1>1, <2>1, <2>2 DEF Entry
<1> QED
  BY <1>1, <1>2

\* A lookup goes on: what the pages show stays as it is.
LEMMA LookupMoves ==
  ASSUME RateInv, NEW q \in lookups, NEW r \in RateLookup, Continues(q, r), r.n = q.n, r.tab = q.tab,
         LookupTrue(r)', CurrentTrue(r)', rateStore' \in [Pairs -> RateEntry \cup {None}], Holds(rateStore)',
         UNCHANGED <<rateClock, preferred, sources, lookupCount, lookedSince>>,
         unknown' \in [RateTabs -> SUBSET Currencies],
         unknown' = unknown \/ (effect[q.tab] = q.n /\ \A t \in RateTabs : t # q.tab => unknown'[t] = unknown[t])
  PROVE  RateInv'
<1>1. lookups' = (lookups \ {q}) \cup {r} /\ UNCHANGED <<pageRates, effect>>
  BY DEF Continues
<1>2. RateTypeOK'
  BY <1>1 DEF RateInv, RateTypeOK
<1>3. PagesTrue'
  BY <1>1 DEF RateInv, PagesTrue, Received
<1>4. CardsHaveRates'
  <2>1. \A t \in RateTabs : effect[t] = 0 => unknown'[t] = unknown[t]
    BY DEF RateInv, LookupTrue
  <2> SUFFICES ASSUME NEW t \in RateTabs, effect[t] = 0, NEW c \in sources[t] \ ({preferred[t]} \cup unknown[t])
               PROVE  (CardRate(t, c) # None /\ CardRate(t, c)[3] + RateTTL > lookedSince[t])'
    BY <1>1, <2>1 DEF CardsHaveRates
  <2>2. CardRate(t, c) # None /\ CardRate(t, c)[3] + RateTTL > lookedSince[t]
    BY DEF RateInv, CardsHaveRates
  <2> QED
    BY <1>1, <2>2 DEF CardRate
<1>5. ASSUME NEW p \in lookups'
      PROVE  (LookupTrue(p) /\ CurrentTrue(p))'
  <2>1. CASE p = r
    BY <2>1
  <2>2. CASE p \in lookups /\ p # q
    <3>1. LookupTrue(p) /\ CurrentTrue(p) /\ p.n # q.n /\ p.tab \in RateTabs
      BY <2>2 DEF RateInv, RateTypeOK, RateLookup
    <3>2. LookupTrue(p)'
      BY <3>1 DEF LookupTrue, Received, Holds, Entry
    <3>3. effect[p.tab] = p.n => unknown'[p.tab] = unknown[p.tab]
      BY <3>1
    <3> QED
      BY <1>1, <3>1, <3>2, <3>3 DEF CurrentTrue
  <2> QED
    BY <1>1, <1>5, <2>1, <2>2
<1>6. \A p, o \in lookups' : p.n = o.n => p = o
  BY <1>1 DEF RateInv
<1> QED
  BY <1>2, <1>3, <1>4, <1>5, <1>6 DEF RateInv

\* What a page takes of a lookup are rates of their pairs.
LEMMA MergeTakes ==
  ASSUME RateInv, NEW tab \in RateTabs, NEW target \in Currencies, NEW found \in [Currencies -> RateValue \cup {None}],
         \A c \in Currencies : found[c] # None => Received(<<c, target>>, found[c])
  PROVE  /\ Merge(tab, target, found) \in [Pairs -> RateValue \cup {None}]
         /\ \A p \in Pairs : Merge(tab, target, found)[p] # None => Received(p, Merge(tab, target, found)[p])
         /\ \A c \in Currencies : found[c] # None => Merge(tab, target, found)[<<c, target>>] = found[c]
<1>1. pageRates[tab] \in [Pairs -> RateValue \cup {None}]
  BY DEF RateInv, RateTypeOK
<1>2. ASSUME NEW p \in Pairs
      PROVE  /\ Merge(tab, target, found)[p] \in RateValue \cup {None}
             /\ Merge(tab, target, found)[p] # None => Received(p, Merge(tab, target, found)[p])
  <2>1. p[1] \in Currencies /\ p[2] \in Currencies
    BY DEF Pairs
  <2>2. CASE p[2] = target /\ found[p[1]] # None
    <3>1. Merge(tab, target, found)[p] = found[p[1]] /\ Received(<<p[1], target>>, found[p[1]])
      BY <2>1, <2>2 DEF Merge
    <3> QED
      BY <2>1, <2>2, <3>1 DEF Received
  <2>3. CASE ~(p[2] = target /\ found[p[1]] # None)
    <3>1. Merge(tab, target, found)[p] = pageRates[tab][p]
      BY <2>3 DEF Merge
    <3> QED
      BY <1>1, <3>1 DEF RateInv, PagesTrue
  <2> QED
    BY <2>2, <2>3
<1>3. \A c \in Currencies : found[c] # None => Merge(tab, target, found)[<<c, target>>] = found[c]
  BY DEF Merge, Pairs
<1>4. Merge(tab, target, found) = [p \in Pairs |-> Merge(tab, target, found)[p]]
  BY DEF Merge
<1> QED
  BY <1>2, <1>3, <1>4

LEMMA LookupEndsWell ==
  ASSUME RateInv, NEW q \in lookups, NEW found \in [Currencies -> RateValue \cup {None}], LookupEnds(q, found),
         \A c \in Currencies : found[c] # None => Received(<<c, q.target>>, found[c]),
         effect[q.tab] = q.n =>
             \A c \in Currencies : /\ found[c] # None => found[c][3] + RateTTL > lookedSince[q.tab]
                                   /\ c \in q.wanted => found[c] # None \/ c \in unknown'[q.tab],
         rateStore' \in [Pairs -> RateEntry \cup {None}], Holds(rateStore)',
         UNCHANGED <<rateClock, preferred, sources, lookupCount, lookedSince>>,
         unknown' \in [RateTabs -> SUBSET Currencies],
         unknown' = unknown \/ (effect[q.tab] = q.n /\ \A t \in RateTabs : t # q.tab => unknown'[t] = unknown[t])
  PROVE  RateInv'
<1> DEFINE M == Merge(q.tab, q.target, found)
           current == effect[q.tab] = q.n
<1>1. q \in RateLookup /\ q.tab \in RateTabs /\ q.target \in Currencies /\ q.n \in Nat /\ q.n # 0
      /\ LookupTrue(q) /\ CurrentTrue(q)
  BY DEF RateInv, RateTypeOK, RateLookup, LookupTrue
<1>2. /\ lookups' = lookups \ {q}
      /\ pageRates' = (IF current THEN [pageRates EXCEPT ![q.tab] = M] ELSE pageRates)
      /\ effect' = (IF current THEN [effect EXCEPT ![q.tab] = 0] ELSE effect)
  BY DEF LookupEnds
<1>3. /\ M \in [Pairs -> RateValue \cup {None}]
      /\ \A p \in Pairs : M[p] # None => Received(p, M[p])
      /\ \A c \in Currencies : found[c] # None => M[<<c, q.target>>] = found[c]
  BY <1>1, MergeTakes
<1> HIDE DEF M
<1>4. RateTypeOK'
  BY <1>1, <1>2, <1>3 DEF RateInv, RateTypeOK
<1>5. \A t \in RateTabs : /\ pageRates'[t] = IF current /\ t = q.tab THEN M ELSE pageRates[t]
                          /\ effect'[t] = IF current /\ t = q.tab THEN 0 ELSE effect[t]
  BY <1>1, <1>2 DEF RateInv, RateTypeOK
<1>6. PagesTrue'
  <2>1. ASSUME NEW t \in RateTabs, NEW p \in Pairs, pageRates'[t][p] # None
        PROVE  Received(p, pageRates'[t][p])
    <3>1. CASE current /\ t = q.tab
      BY <1>3, <1>5, <2>1, <3>1
    <3>2. CASE ~(current /\ t = q.tab)
      BY <1>5, <2>1, <3>2 DEF RateInv, PagesTrue
    <3> QED
      BY <3>1, <3>2
  <2> QED
    BY <2>1 DEF RateInv, PagesTrue, Received
<1>7. CardsHaveRates'
  <2> SUFFICES ASSUME NEW t \in RateTabs, effect'[t] = 0, NEW c \in sources[t], c # preferred[t], c \notin unknown'[t]
               PROVE  (CardRate(t, c) # None /\ CardRate(t, c)[3] + RateTTL > lookedSince[t])'
    BY DEF CardsHaveRates
  <2>1. CASE current /\ t = q.tab
    <3>1. preferred[t] = q.target /\ sources[t] = q.wanted \cup {q.target}
      BY <1>1, <2>1 DEF CurrentTrue
    <3>2. c \in q.wanted /\ c \in Currencies /\ found[c] # None /\ found[c][3] + RateTTL > lookedSince[t]
      BY <1>1, <2>1, <3>1 DEF RateLookup
    <3>3. CardRate(t, c)' = M[<<c, q.target>>]
      BY <1>5, <2>1, <3>1 DEF CardRate
    <3> QED
      BY <1>3, <3>2, <3>3
  <2>2. CASE ~(current /\ t = q.tab)
    <3>1. effect[t] = 0 /\ pageRates'[t] = pageRates[t]
      BY <1>5, <2>2
    <3>2. unknown'[t] = unknown[t]
      BY <1>1, <2>2, <3>1
    <3>3. CardRate(t, c) # None /\ CardRate(t, c)[3] + RateTTL > lookedSince[t]
      BY <3>1, <3>2 DEF RateInv, CardsHaveRates
    <3> QED
      BY <3>1, <3>3 DEF CardRate
  <2> QED
    BY <2>1, <2>2
<1>8. ASSUME NEW p \in lookups'
      PROVE  (LookupTrue(p) /\ CurrentTrue(p))'
  <2>1. p \in lookups /\ p # q /\ p.n # q.n /\ p.n # 0 /\ LookupTrue(p) /\ CurrentTrue(p) /\ p.tab \in RateTabs
    BY <1>2, <1>8 DEF RateInv, RateTypeOK, RateLookup, LookupTrue
  <2>2. LookupTrue(p)'
    BY <2>1 DEF LookupTrue, Received, Holds, Entry
  <2>3. effect'[p.tab] = p.n => effect[p.tab] = p.n /\ unknown'[p.tab] = unknown[p.tab]
    BY <1>5, <2>1
  <2> QED
    BY <2>1, <2>2, <2>3 DEF CurrentTrue
<1>9. \A p, o \in lookups' : p.n = o.n => p = o
  BY <1>2 DEF RateInv
<1> QED
  BY <1>4, <1>6, <1>7, <1>8, <1>9 DEF RateInv

\* One currency more has been looked for.
LEMMA LookedForWell ==
  ASSUME RateInv, NEW q \in lookups, NEW r \in RateLookup, LookedFor(q, r), r.at = "look",
         r.n = q.n, r.tab = q.tab, r.target = q.target, r.wanted = q.wanted, r.todo \subseteq q.todo, \A c \in r.todo : r.found[c] = None,
         \A c \in Currencies : r.found[c] # None => Received(<<c, q.target>>, r.found[c]),
         effect[q.tab] = q.n => \A c \in Currencies : r.found[c] # None => r.found[c][3] + RateTTL > lookedSince[q.tab],
         rateStore' \in [Pairs -> RateEntry \cup {None}], Holds(rateStore)',
         UNCHANGED <<rateClock, preferred, sources, lookupCount, lookedSince, unknown>>
  PROVE  /\ RateInv'
         /\ \E o \in RateLookup : o.at \in {"look", "wait"} /\ lookups' \subseteq (lookups \ {q}) \cup {o}
<1>1. q \in RateLookup /\ LookupTrue(q) /\ CurrentTrue(q) /\ unknown' \in [RateTabs -> SUBSET Currencies]
  BY DEF RateInv, RateTypeOK
<1>2. ASSUME NEW o \in RateLookup, Continues(q, o), o.n = q.n, o.tab = q.tab, o.target = q.target, o.wanted = q.wanted,
             o.todo \subseteq q.todo, o.found = r.found, o.at \in {"look", "wait"}, o.at = "look" => o.todo = r.todo
      PROVE  RateInv' /\ lookups' \subseteq (lookups \ {q}) \cup {o}
  <2>1. LookupTrue(o)'
    BY <1>1, <1>2 DEF LookupTrue, Received
  <2>2. CurrentTrue(o)'
    BY <1>1, <1>2 DEF CurrentTrue, Continues
  <2>3. RateInv'
    BY <1>1, <1>2, <2>1, <2>2, LookupMoves
  <2> QED
    BY <1>2, <2>3 DEF Continues
<1>3. CASE r.todo # {}
  BY <1>2, <1>3 DEF LookedFor
<1>4. CASE r.todo = {} /\ MissingRates(r) = {}
  <2>1. LookupEnds(q, r.found) /\ lookups' = lookups \ {q}
    BY <1>4 DEF LookedFor, LookupEnds
  <2>2. r.found \in [Currencies -> RateValue \cup {None}]
    BY DEF RateLookup
  <2>3. \A c \in q.wanted : r.found[c] # None
    BY <1>4 DEF MissingRates
  <2>4. RateInv'
    BY <1>1, <2>1, <2>2, <2>3, LookupEndsWell
  <2> QED
    BY <2>1, <2>4
<1>5. CASE r.todo = {} /\ MissingRates(r) # {}
  <2> DEFINE o == [r EXCEPT !.at = "wait"]
  <2>1. /\ o \in RateLookup /\ o.n = q.n /\ o.tab = q.tab /\ o.target = q.target /\ o.wanted = q.wanted
        /\ o.todo \subseteq q.todo /\ o.found = r.found /\ o.at = "wait"
    BY DEF RateLookup
  <2>2. Continues(q, o)
    BY <1>5 DEF LookedFor
  <2> HIDE DEF o
  <2> QED
    BY <1>2, <2>1, <2>2
<1> QED
  BY <1>3, <1>4, <1>5

\* A rate that the cache gives is of its pair and has not expired.
LEMMA LookForKeeps ==
  ASSUME RateInv, NEW q \in lookups, NEW s \in q.todo, LookFor(q, s)
  PROVE  RateInv'
<1> DEFINE pair == <<s, q.target>>
<1>1. /\ q \in RateLookup /\ LookupTrue(q) /\ CurrentTrue(q) /\ s \in Currencies /\ s \in q.wanted /\ pair \in Pairs
      /\ rateStore \in [Pairs -> RateEntry \cup {None}] /\ Holds(rateStore) /\ rateClock \in Nat
      /\ unknown \in [RateTabs -> SUBSET Currencies] /\ PagesTrue /\ q.tab \in RateTabs
  <2>1. q \in RateLookup /\ LookupTrue(q) /\ CurrentTrue(q)
    BY DEF RateInv, RateTypeOK
  <2>2. s \in Currencies /\ s \in q.wanted /\ pair \in Pairs
    BY <2>1 DEF RateLookup, LookupTrue, Pairs
  <2> QED
    BY <2>1, <2>2 DEF RateInv, RateTypeOK, RateLookup
<1>2. UNCHANGED <<rateClock, rateStore, preferred, sources, lookupCount, lookedSince, unknown>> /\ Holds(rateStore)'
  BY <1>1 DEF LookFor, Holds, Entry, Received
<1>3. CASE rateStore[pair] # None /\ ~Live(pair)
  <2>1. PICK r : r = [q EXCEPT !.at = "drop", !.changes = {s}, !.seen = rateStore] /\ Continues(q, r)
    BY <1>3 DEF LookFor
  <2>2. /\ r \in RateLookup /\ r.n = q.n /\ r.tab = q.tab /\ r.target = q.target /\ r.todo = q.todo /\ r.wanted = q.wanted
        /\ r.found = q.found /\ r.at = "drop" /\ r.changes = {s} /\ r.seen = rateStore
    BY <1>1, <2>1 DEF RateLookup
  <2>3. q.found[s] = None
    BY <1>1 DEF LookFor, LookupTrue
  <2>4. rateStore[pair].expires <= rateClock
    BY <1>1, <1>3 DEF Live, RateEntry
  <2>5. LookupTrue(r)'
    <3>1. /\ r.todo \subseteq r.wanted /\ r.n # 0 /\ r.n <= lookupCount'
          /\ \A c \in Currencies : r.found[c] # None => Received(<<c, r.target>>, r.found[c])'
          /\ \A c \in r.todo : r.found[c] = None
      BY <1>1, <1>2, <2>2 DEF LookupTrue, Received, LookFor
    <3>2. r.seen \in [Pairs -> RateEntry \cup {None}] /\ Holds(r.seen)'
      BY <1>1, <1>2, <2>2
    <3>3. \A c \in r.changes : /\ r.found[c] = None /\ r.seen[<<c, r.target>>] # None
                               /\ r.seen[<<c, r.target>>].expires <= rateClock'
      BY <1>2, <1>3, <2>2, <2>3, <2>4
    <3> QED
      BY <2>2, <3>1, <3>2, <3>3 DEF LookupTrue
  <2>6. CurrentTrue(r)'
    <3>1. effect' = effect
      BY <2>1 DEF Continues
    <3>2. effect[q.tab] = q.n => /\ preferred[q.tab] = q.target /\ sources[q.tab] = q.wanted \cup {q.target}
                                 /\ \A c \in Currencies : q.found[c] # None => q.found[c][3] + RateTTL > lookedSince[q.tab]
      BY <1>1 DEF CurrentTrue
    <3> QED
      BY <1>2, <2>2, <3>1, <3>2 DEF CurrentTrue
  <2> QED
    BY <1>1, <1>2, <2>1, <2>2, <2>5, <2>6, LookupMoves
<1>4. CASE ~(rateStore[pair] # None /\ ~Live(pair))
  <2> DEFINE x == IF Live(pair) THEN rateStore[pair].rate ELSE None
             r == [q EXCEPT !.todo = @ \ {s}, !.found[s] = x]
  <2>1. LookedFor(q, r) /\ q.at = "look"
    BY <1>4 DEF LookFor
  <2>2. x # None => x \in RateValue /\ Received(pair, x) /\ x[3] + RateTTL > rateClock
    <3> SUFFICES ASSUME Live(pair)
                 PROVE  rateStore[pair].rate \in RateValue /\ Received(pair, rateStore[pair].rate)
                        /\ rateStore[pair].rate[3] + RateTTL > rateClock
      OBVIOUS
    <3>1. rateStore[pair] \in RateEntry /\ Entry(pair, rateStore[pair]) /\ rateStore[pair].expires > rateClock
      BY <1>1 DEF Live, Holds
    <3> QED
      BY <3>1 DEF RateEntry, Entry
  <2>3. x # None => x[3] + RateTTL > lookedSince[q.tab]
    <3> SUFFICES ASSUME x # None
                 PROVE  x[3] + RateTTL > lookedSince[q.tab]
      OBVIOUS
    <3>1. x[3] \in Nat /\ x[3] + RateTTL > rateClock
      BY <2>2 DEF RateValue
    <3>2. lookedSince[q.tab] <= rateClock /\ lookedSince[q.tab] \in Nat
      BY <1>1 DEF PagesTrue, RateInv, RateTypeOK
    <3> HIDE DEF x
    <3> QED
      BY <1>1, <3>1, <3>2 DEF RateTTL
  <2> HIDE DEF x
  <2>4. /\ r \in RateLookup /\ r.n = q.n /\ r.tab = q.tab /\ r.target = q.target /\ r.wanted = q.wanted
        /\ r.todo \subseteq q.todo /\ r.at = q.at /\ r.found = [q.found EXCEPT ![s] = x]
        /\ r.todo = q.todo \ {s}
    BY <1>1, <2>2 DEF RateLookup
  <2>5. r.found[s] = x /\ \A c \in Currencies : c # s => r.found[c] = q.found[c]
    BY <1>1, <2>4 DEF RateLookup
  <2> HIDE DEF r
  <2>6. \A c \in Currencies : r.found[c] # None => Received(<<c, q.target>>, r.found[c])
    BY <1>1, <2>2, <2>5 DEF LookupTrue
  <2>7. effect[q.tab] = q.n => \A c \in Currencies : r.found[c] # None => r.found[c][3] + RateTTL > lookedSince[q.tab]
    BY <1>1, <2>3, <2>5 DEF CurrentTrue
  <2>8. r.at = "look" /\ rateStore' \in [Pairs -> RateEntry \cup {None}] /\ \A c \in r.todo : r.found[c] = None
    BY <1>1, <1>2, <2>1, <2>4, <2>5 DEF LookupTrue, RateLookup
  <2> QED
    BY <1>2, <2>1, <2>4, <2>6, <2>7, <2>8, LookedForWell
<1> QED
  BY <1>3, <1>4

\* An answer, with what has not been found; no answer leaves what the cache had.
LEMMA RatesArriveKeeps ==
  ASSUME RateInv, NEW q \in lookups, NEW known \in SUBSET MissingRates(q), RatesArrive(q, known)
  PROVE  RateInv'
<1>1. /\ q \in RateLookup /\ LookupTrue(q) /\ CurrentTrue(q) /\ known \subseteq q.wanted /\ known \subseteq Currencies
      /\ rateStore \in [Pairs -> RateEntry \cup {None}] /\ Holds(rateStore) /\ rateClock \in Nat /\ q.tab \in RateTabs
      /\ unknown \in [RateTabs -> SUBSET Currencies] /\ PagesTrue
  BY DEF RateInv, RateTypeOK, RateLookup, MissingRates
<1>2. /\ UNCHANGED <<rateClock, rateStore, preferred, sources, lookupCount, lookedSince>> /\ Holds(rateStore)'
      /\ rateStore' \in [Pairs -> RateEntry \cup {None}]
  BY <1>1 DEF RatesArrive, Holds, Entry, Received
<1>3. /\ unknown' \in [RateTabs -> SUBSET Currencies]
      /\ unknown' = unknown \/ (effect[q.tab] = q.n /\ \A t \in RateTabs : t # q.tab => unknown'[t] = unknown[t])
      /\ effect[q.tab] = q.n => unknown'[q.tab] = MissingRates(q) \ known
  BY <1>1 DEF RatesArrive, MissingRates, RateLookup
<1>4. CASE known = {}
  <2>1. LookupEnds(q, q.found) /\ q.found \in [Currencies -> RateValue \cup {None}]
    BY <1>1, <1>4 DEF RatesArrive, RateLookup
  <2>2. \A c \in Currencies : q.found[c] # None => Received(<<c, q.target>>, q.found[c])
    BY <1>1 DEF LookupTrue
  <2>3. effect[q.tab] = q.n =>
            \A c \in Currencies : /\ q.found[c] # None => q.found[c][3] + RateTTL > lookedSince[q.tab]
                                  /\ c \in q.wanted => q.found[c] # None \/ c \in unknown'[q.tab]
    BY <1>1, <1>3, <1>4 DEF CurrentTrue, MissingRates
  <2> QED
    BY <1>2, <1>3, <2>1, <2>2, <2>3, LookupEndsWell
<1>5. CASE known # {}
  <2>1. PICK r : /\ r = [q EXCEPT !.at = "store", !.changes = known, !.seen = rateStore,
                                  !.found = [c \in Currencies |-> IF c \in known THEN Rate(c, q.target) ELSE q.found[c]]]
                 /\ Continues(q, r)
    BY <1>5 DEF RatesArrive
  <2>2. ASSUME NEW c \in Currencies
        PROVE  /\ Rate(c, q.target) \in RateValue /\ Received(<<c, q.target>>, Rate(c, q.target))
               /\ Rate(c, q.target)[3] = rateClock
    BY <1>1 DEF Rate, RateValue, Received, RateLookup
  <2>3. /\ r.n = q.n /\ r.tab = q.tab /\ r.target = q.target /\ r.todo = q.todo /\ r.wanted = q.wanted
        /\ r.at = "store" /\ r.changes = known /\ r.seen = rateStore
        /\ r.found = [c \in Currencies |-> IF c \in known THEN Rate(c, q.target) ELSE q.found[c]]
    BY <2>1 DEF RateLookup
  <2>4. r \in RateLookup
    <3>1. r.found \in [Currencies -> RateValue \cup {None}]
      <4>1. q.found \in [Currencies -> RateValue \cup {None}]
        BY <1>1 DEF RateLookup
      <4> QED
        BY <2>2, <2>3, <4>1
    <3> QED
      BY <1>1, <2>1, <3>1 DEF RateLookup
  <2>5. \A c \in Currencies : r.found[c] = IF c \in known THEN Rate(c, q.target) ELSE q.found[c]
    BY <2>3
  <2>6. \A c \in known : r.found[c] # None /\ r.found[c][3] = rateClock
    BY <1>1, <2>2, <2>5, RateIsThere
  <2>7. LookupTrue(r)'
    <3>1. \A c \in Currencies : r.found[c] # None => Received(<<c, r.target>>, r.found[c])
      BY <1>1, <2>2, <2>3, <2>5 DEF LookupTrue
    <3>2. ASSUME NEW c \in known, rateStore[<<c, q.target>>] # None
          PROVE  rateStore[<<c, q.target>>].rate[3] <= r.found[c][3]
      <4>1. <<c, q.target>> \in Pairs
        BY <1>1 DEF Pairs, RateLookup
      <4>2. Received(<<c, q.target>>, rateStore[<<c, q.target>>].rate)
        BY <1>1, <3>2, <4>1 DEF Holds, Entry
      <4> QED
        BY <2>6, <4>2 DEF Received
    <3>3. r.todo \subseteq r.wanted /\ r.n # 0 /\ r.n <= lookupCount /\ lookupCount' = lookupCount /\ rateClock' = rateClock
      BY <1>1, <1>2, <2>3 DEF LookupTrue
    <3>4. \A c \in Currencies : r.found[c] # None => Received(<<c, r.target>>, r.found[c])'
      BY <3>1, <3>3 DEF Received
    <3>5. r.seen \in [Pairs -> RateEntry \cup {None}] /\ Holds(r.seen)'
      BY <1>1, <1>2, <2>3
    <3>6. \A c \in r.changes :
             /\ r.found[c] # None
             /\ r.seen[<<c, r.target>>] # None => r.seen[<<c, r.target>>].rate[3] <= r.found[c][3]
      BY <2>3, <2>6, <3>2
    <3> QED
      BY <2>3, <3>3, <3>4, <3>5, <3>6 DEF LookupTrue
  <2>8. CurrentTrue(r)'
    <3>1. effect' = effect /\ lookedSince' = lookedSince /\ lookedSince[q.tab] <= rateClock /\ lookedSince[q.tab] \in Nat
      BY <1>1, <1>2, <2>1 DEF Continues, PagesTrue, RateInv, RateTypeOK
    <3>2. effect[q.tab] = q.n =>
             /\ preferred[q.tab] = q.target /\ sources[q.tab] = q.wanted \cup {q.target}
             /\ \A c \in Currencies : q.found[c] # None => q.found[c][3] + RateTTL > lookedSince[q.tab]
      BY <1>1 DEF CurrentTrue
    <3>3. effect[q.tab] = q.n => \A c \in Currencies : r.found[c] # None => r.found[c][3] + RateTTL > lookedSince[q.tab]
      BY <1>1, <2>5, <2>6, <3>1, <3>2 DEF RateTTL
    <3>4. effect[q.tab] = q.n => \A c \in q.wanted : r.found[c] # None \/ c \in unknown'[q.tab]
      <4> SUFFICES ASSUME effect[q.tab] = q.n, NEW c \in q.wanted, c \notin known
                   PROVE  r.found[c] # None \/ c \in unknown'[q.tab]
        BY <2>6
      <4>1. c \in Currencies /\ r.found[c] = q.found[c]
        BY <1>1, <2>5 DEF RateLookup
      <4> QED
        BY <1>3, <4>1 DEF MissingRates
    <3> QED
      BY <1>2, <2>3, <3>1, <3>2, <3>3, <3>4 DEF CurrentTrue
  <2> QED
    BY <1>2, <1>3, <2>1, <2>3, <2>4, <2>7, <2>8, LookupMoves
<1> QED
  BY <1>4, <1>5

\* The store that is written is the one that was read, but for rates of their pairs.
LEMMA StoreWithHolds ==
  ASSUME NEW q \in RateLookup, LookupTrue(q), q.at \in {"drop", "store"}, rateClock \in Nat
  PROVE  /\ StoreWith(q) \in [Pairs -> RateEntry \cup {None}] /\ Holds(StoreWith(q))
         /\ \A p \in Pairs : q.seen[p] # None /\ StoreWith(q)[p] # q.seen[p] =>
               \/ q.seen[p].expires <= rateClock
               \/ StoreWith(q)[p] # None /\ StoreWith(q)[p].rate[3] > q.seen[p].rate[3]
<1>1. ASSUME NEW p \in Pairs
      PROVE  /\ StoreWith(q)[p] \in RateEntry \cup {None} /\ (StoreWith(q)[p] # None => Entry(p, StoreWith(q)[p]))
             /\ q.seen[p] # None /\ StoreWith(q)[p] # q.seen[p] =>
                   \/ q.seen[p].expires <= rateClock
                   \/ StoreWith(q)[p] # None /\ StoreWith(q)[p].rate[3] > q.seen[p].rate[3]
  <2>1. p[1] \in Currencies /\ p = <<p[1], p[2]>> /\ q.seen[p] \in RateEntry \cup {None}
        /\ (q.seen[p] # None => Entry(p, q.seen[p]))
    BY DEF Pairs, LookupTrue, Holds
  <2>2. CASE p[2] # q.target \/ p[1] \notin q.changes
    <3>1. StoreWith(q)[p] = q.seen[p]
      BY <2>2 DEF StoreWith
    <3> QED
      BY <2>1, <3>1
  <2>3. CASE ~(p[2] # q.target \/ p[1] \notin q.changes) /\ q.found[p[1]] = None
    <3>1. StoreWith(q)[p] = None
      BY <2>3 DEF StoreWith
    <3>2. p = <<p[1], q.target>> /\ p[1] \in q.changes /\ q.at = "drop"
      BY <2>1, <2>3 DEF LookupTrue
    <3>3. q.seen[p].expires <= rateClock
      BY <3>2 DEF LookupTrue
    <3> QED
      BY <3>1, <3>3
  <2>4. CASE ~(p[2] # q.target \/ p[1] \notin q.changes) /\ q.found[p[1]] # None
    <3> DEFINE f == q.found[p[1]]
    <3>1. StoreWith(q)[p] = [rate |-> f, expires |-> f[3] + RateTTL]
      BY <2>4 DEF StoreWith
    <3>2. p = <<p[1], q.target>> /\ p[1] \in q.changes /\ q.at = "store" /\ f \in RateValue /\ Received(p, f)
      BY <2>1, <2>4 DEF LookupTrue, RateLookup
    <3>3. q.seen[p] # None => q.seen[p].rate[3] <= f[3]
      BY <3>2 DEF LookupTrue
    <3> HIDE DEF f
    <3>4. [rate |-> f, expires |-> f[3] + RateTTL] \in RateEntry /\ Entry(p, [rate |-> f, expires |-> f[3] + RateTTL])
      BY <3>2 DEF RateEntry, RateValue, RateTTL, Entry
    <3>5. ASSUME q.seen[p] # None, q.seen[p].rate[3] = f[3]
          PROVE  q.seen[p] = [rate |-> f, expires |-> f[3] + RateTTL]
      <4>1. q.seen[p] \in RateEntry /\ q.seen[p].rate \in RateValue /\ Entry(p, q.seen[p])
        BY <2>1, <3>5 DEF RateEntry
      <4>2. q.seen[p].rate = f
        BY <3>2, <3>5, <4>1 DEF RateValue, Entry, Received
      <4> QED
        BY <4>1, <4>2 DEF RateEntry, Entry
    <3>6. q.seen[p] # None => q.seen[p].rate[3] \in Nat /\ f[3] \in Nat
      BY <2>1, <3>2 DEF RateEntry, RateValue
    <3>7. q.seen[p] # None /\ StoreWith(q)[p] # q.seen[p] => f[3] > q.seen[p].rate[3]
      BY <3>1, <3>3, <3>5, <3>6
    <3>8. StoreWith(q)[p].rate = f /\ StoreWith(q)[p] # None
      BY <3>1, <3>4, RateIsThere
    <3> QED
      BY <3>1, <3>4, <3>7, <3>8
  <2> QED
    BY <2>2, <2>3, <2>4
<1>2. StoreWith(q) = [p \in Pairs |-> StoreWith(q)[p]]
  BY DEF StoreWith
<1>3. StoreWith(q) \in [Pairs -> RateEntry \cup {None}]
  BY <1>1, <1>2
<1> QED
  BY <1>1, <1>3 DEF Holds

\* A tab writes the store back: what another wrote since it was read is lost.
LEMMA WriteStoreKeeps ==
  ASSUME RateInv, NEW q \in lookups, WriteStore(q)
  PROVE  RateInv' /\ StoreKept
<1>1. /\ q \in RateLookup /\ LookupTrue(q) /\ CurrentTrue(q) /\ q.at \in {"drop", "store"} /\ rateClock \in Nat
      /\ UNCHANGED <<rateClock, preferred, sources, lookupCount, lookedSince, unknown>>
      /\ unknown' \in [RateTabs -> SUBSET Currencies] /\ q.found \in [Currencies -> RateValue \cup {None}]
      /\ \A c \in Currencies : q.found[c] # None => Received(<<c, q.target>>, q.found[c])
  BY DEF RateInv, RateTypeOK, WriteStore, RateLookup, LookupTrue
<1>2. rateStore' = StoreWith(q)
  BY DEF WriteStore
<1>3. rateStore' \in [Pairs -> RateEntry \cup {None}] /\ Holds(rateStore)'
  BY <1>1, <1>2, StoreWithHolds DEF Holds, Entry, Received
<1>4. RateInv' /\ q \notin lookups'
  <2>1. CASE q.at = "store"
    <3>1. LookupEnds(q, q.found)
      BY <2>1 DEF WriteStore
    <3>2. effect[q.tab] = q.n =>
              \A c \in Currencies : /\ q.found[c] # None => q.found[c][3] + RateTTL > lookedSince[q.tab]
                                    /\ c \in q.wanted => q.found[c] # None \/ c \in unknown'[q.tab]
      BY <1>1, <2>1 DEF CurrentTrue
    <3>3. RateInv'
      BY <1>1, <1>3, <3>1, <3>2, LookupEndsWell
    <3> QED
      BY <3>1, <3>3 DEF LookupEnds
  <2>2. CASE q.at = "drop"
    <3> DEFINE r == [q EXCEPT !.at = "look", !.todo = @ \ q.changes, !.changes = {}, !.seen = None]
    <3>1. LookedFor(q, r)
      BY <2>2 DEF WriteStore
    <3>2. /\ r \in RateLookup /\ r.at = "look" /\ r.n = q.n /\ r.tab = q.tab /\ r.target = q.target /\ r.wanted = q.wanted
          /\ r.todo = q.todo \ q.changes /\ r.found = q.found
      BY <1>1 DEF RateLookup
    <3> HIDE DEF r
    <3>3. \A c \in r.todo : r.found[c] = None
      BY <1>1, <2>2, <3>2 DEF LookupTrue
    <3>4. effect[q.tab] = q.n => \A c \in Currencies : r.found[c] # None => r.found[c][3] + RateTTL > lookedSince[q.tab]
      BY <1>1, <3>2 DEF CurrentTrue
    <3>5. r.todo \subseteq q.todo /\ \A c \in Currencies : r.found[c] # None => Received(<<c, q.target>>, r.found[c])
      BY <1>1, <3>2
    <3>6. /\ RateInv'
          /\ \E o \in RateLookup : o.at \in {"look", "wait"} /\ lookups' \subseteq (lookups \ {q}) \cup {o}
      BY <1>1, <1>3, <3>1, <3>2, <3>3, <3>4, <3>5, LookedForWell
    <3> QED
      BY <2>2, <3>6
  <2> QED
    BY <1>1, <2>1, <2>2
<1>5. StoreKept
  <2> SUFFICES ASSUME NEW p \in Pairs, rateStore[p] # None, rateStore'[p] # rateStore[p], ~Crossed
               PROVE  \/ rateStore[p].expires <= rateClock
                      \/ rateStore'[p] # None /\ rateStore'[p].rate[3] > rateStore[p].rate[3]
    BY DEF StoreKept
  <2>1. q.seen = rateStore
    BY <1>1, <1>4 DEF Crossed
  <2> QED
    BY <1>1, <1>2, <2>1, StoreWithHolds
<1> QED
  BY <1>4, <1>5

\* The effect of a fetch: from now on the tab takes the answer of this lookup only.
LEMMA LookupKeeps ==
  ASSUME RateInv, NEW tab \in RateTabs, NEW target \in {"EUR", "USD"}, NEW wanted \in SUBSET (Currencies \ {target}),
         Lookup(tab, target, wanted)
  PROVE  RateInv'
<1>1. PICK q : /\ q = [n |-> lookupCount + 1, tab |-> tab, target |-> target, at |-> "look", wanted |-> wanted, todo |-> wanted,
                       found |-> [c \in Currencies |-> None], changes |-> {}, seen |-> None]
               /\ lookups' = lookups \cup {o \in {q} : wanted # {}}
  BY DEF Lookup
<1>2. /\ RateTypeOK /\ lookupCount \in Nat /\ lookupCount' = lookupCount + 1 /\ target \in Currencies /\ wanted \subseteq Currencies
      /\ UNCHANGED <<rateClock, rateStore, pageRates>>
      /\ preferred' = [preferred EXCEPT ![tab] = target] /\ sources' = [sources EXCEPT ![tab] = wanted \cup {target}]
      /\ lookedSince' = [lookedSince EXCEPT ![tab] = rateClock] /\ unknown' = [unknown EXCEPT ![tab] = {}]
      /\ effect' = [effect EXCEPT ![tab] = IF wanted = {} THEN 0 ELSE lookupCount + 1]
  BY DEF Lookup, RateInv, RateTypeOK, Currencies
<1>3. q \in RateLookup /\ q.n = lookupCount + 1 /\ q.tab = tab /\ q.target = target /\ q.wanted = wanted /\ q.todo = wanted
      /\ q.at = "look" /\ \A c \in Currencies : q.found[c] = None
  BY <1>1, <1>2 DEF RateLookup
<1>4. RateTypeOK'
  <2>1. lookups' \subseteq RateLookup
    BY <1>1, <1>2, <1>3 DEF RateTypeOK
  <2> QED
    BY <1>2, <2>1 DEF RateTypeOK
<1>5. Holds(rateStore)' /\ PagesTrue'
  BY <1>2 DEF RateInv, RateTypeOK, Holds, Entry, Received, PagesTrue
<1>6. \A t \in RateTabs : t # tab => /\ preferred'[t] = preferred[t] /\ sources'[t] = sources[t] /\ unknown'[t] = unknown[t]
                                     /\ lookedSince'[t] = lookedSince[t] /\ effect'[t] = effect[t]
  BY <1>2 DEF RateTypeOK
<1>7. CardsHaveRates'
  <2> SUFFICES ASSUME NEW t \in RateTabs, effect'[t] = 0,
                      NEW c \in sources'[t], c # preferred'[t], c \notin unknown'[t]
               PROVE  (CardRate(t, c) # None /\ CardRate(t, c)[3] + RateTTL > lookedSince[t])'
    BY DEF CardsHaveRates
  <2>1. CASE t = tab
    <3>1. wanted = {}
      BY <1>2, <2>1 DEF RateTypeOK
    <3> QED
      BY <1>2, <2>1, <3>1 DEF RateTypeOK
  <2>2. CASE t # tab
    <3>1. CardRate(t, c) # None /\ CardRate(t, c)[3] + RateTTL > lookedSince[t]
      BY <1>6, <2>2 DEF RateInv, CardsHaveRates
    <3> QED
      BY <1>2, <1>6, <2>2, <3>1 DEF CardRate
  <2> QED
    BY <2>1, <2>2
<1>8. ASSUME NEW p \in lookups
      PROVE  p.n \in Nat /\ p.n # 0 /\ p.n <= lookupCount /\ LookupTrue(p)' /\ CurrentTrue(p)'
  <2>1. p \in RateLookup /\ p.n \in Nat /\ p.n # 0 /\ p.n <= lookupCount /\ p.tab \in RateTabs /\ LookupTrue(p) /\ CurrentTrue(p)
    BY DEF RateInv, RateTypeOK, RateLookup, LookupTrue
  <2>2. LookupTrue(p)'
    <3>1. p.n <= lookupCount'
      BY <1>2, <2>1
    <3> QED
      BY <1>2, <2>1, <3>1 DEF LookupTrue, Received, Holds, Entry
  <2>3. effect'[p.tab] = p.n => p.tab # tab
    BY <1>2, <2>1 DEF RateTypeOK
  <2>4. CurrentTrue(p)'
    BY <1>6, <2>1, <2>3 DEF CurrentTrue
  <2> QED
    BY <2>1, <2>2, <2>4
<1>9. LookupTrue(q)' /\ CurrentTrue(q)'
  <2>1. q.n # 0 /\ q.n <= lookupCount'
    <3>1. lookupCount \in Nat /\ lookupCount' = lookupCount + 1 /\ q.n = lookupCount + 1
      BY <1>2, <1>3
    <3> QED
      BY ONLY <3>1
  <2>2. LookupTrue(q)'
    BY <1>2, <1>3, <2>1 DEF LookupTrue
  <2> QED
    BY <1>2, <1>3, <2>2 DEF CurrentTrue, RateTypeOK
<1>10. \A p \in lookups' : LookupTrue(p)' /\ CurrentTrue(p)'
  BY <1>1, <1>8, <1>9
<1>11. \A p, o \in lookups' : p.n = o.n => p = o
  <2>1. \A p \in lookups : p.n # q.n
    BY <1>2, <1>3, <1>8
  <2> QED
    BY <1>1, <2>1 DEF RateInv
<1> QED
  BY <1>4, <1>5, <1>7, <1>10, <1>11 DEF RateInv

LEMMA RateTickKeeps ==
  ASSUME RateInv, RateTick
  PROVE  RateInv'
<1>1. /\ RateTypeOK /\ rateClock \in Nat /\ rateClock' = rateClock + 1
      /\ UNCHANGED <<rateStore, preferred, sources, pageRates, effect, lookups, lookupCount, lookedSince, unknown>>
  BY DEF RateTick, RateInv, RateTypeOK
<1>2. RateTypeOK' /\ Holds(rateStore)'
  BY <1>1, RatesStay DEF RateInv, RateTypeOK
<1>3. PagesTrue'
  <2>1. ASSUME NEW t \in RateTabs, NEW p \in Pairs, pageRates[t][p] # None
        PROVE  Received(p, pageRates[t][p])'
    BY <1>1, <2>1, RatesStay DEF RateInv, PagesTrue, RateTypeOK
  <2>2. \A t \in RateTabs : lookedSince[t] <= rateClock'
    BY <1>1 DEF RateInv, PagesTrue, RateTypeOK
  <2> QED
    BY <1>1, <2>1, <2>2 DEF RateInv, PagesTrue
<1>4. CardsHaveRates'
  BY <1>1 DEF RateInv, CardsHaveRates, CardRate
<1>5. ASSUME NEW q \in lookups
      PROVE  LookupTrue(q)' /\ CurrentTrue(q)'
  <2>1. q \in RateLookup /\ LookupTrue(q) /\ CurrentTrue(q)
    BY DEF RateInv, RateTypeOK
  <2>2. \A c \in Currencies : q.found[c] # None => Received(<<c, q.target>>, q.found[c])'
    BY <1>1, <2>1, RatesStay DEF LookupTrue, RateLookup
  <2>3. q.at \in {"drop", "store"} => q.seen \in [Pairs -> RateEntry \cup {None}] /\ Holds(q.seen)'
    BY <1>1, <2>1, RatesStay DEF LookupTrue
  <2>4. q.at = "drop" => \A c \in q.changes : q.seen[<<c, q.target>>] # None => q.seen[<<c, q.target>>].expires <= rateClock'
    <3> SUFFICES ASSUME q.at = "drop", NEW c \in q.changes, q.seen[<<c, q.target>>] # None
                 PROVE  q.seen[<<c, q.target>>].expires <= rateClock'
      OBVIOUS
    <3>1. <<c, q.target>> \in Pairs /\ q.seen[<<c, q.target>>] \in RateEntry
      BY <2>1 DEF LookupTrue, RateLookup, Pairs
    <3>2. q.seen[<<c, q.target>>].expires <= rateClock /\ q.seen[<<c, q.target>>].expires \in Nat
      BY <2>1, <3>1 DEF LookupTrue, RateEntry
    <3> QED
      BY <1>1, <3>2
  <2>5. LookupTrue(q)'
    BY <1>1, <2>1, <2>2, <2>3, <2>4 DEF LookupTrue
  <2> QED
    BY <1>1, <2>1, <2>5 DEF CurrentTrue
<1> QED
  BY <1>1, <1>2, <1>3, <1>4, <1>5 DEF RateInv

LEMMA RateStep ==
  ASSUME RateInv, [RateNext]_rateVars
  PROVE  RateInv' /\ StoreKept
<1>1. ASSUME UNCHANGED rateStore
      PROVE  StoreKept
  BY <1>1 DEF StoreKept
<1>2. ASSUME NEW tab \in RateTabs, NEW target \in {"EUR", "USD"}, NEW wanted \in SUBSET (Currencies \ {target}),
             Lookup(tab, target, wanted)
      PROVE  RateInv' /\ StoreKept
  BY <1>1, <1>2, LookupKeeps DEF Lookup
<1>3. ASSUME NEW q \in lookups, NEW s \in q.todo, LookFor(q, s)
      PROVE  RateInv' /\ StoreKept
  BY <1>1, <1>3, LookForKeeps DEF LookFor
<1>4. ASSUME NEW q \in lookups, NEW known \in SUBSET MissingRates(q), RatesArrive(q, known)
      PROVE  RateInv' /\ StoreKept
  BY <1>1, <1>4, RatesArriveKeeps DEF RatesArrive
<1>5. CASE RateTick
  BY <1>1, <1>5, RateTickKeeps DEF RateTick
<1>6. CASE UNCHANGED rateVars
  <2>1. StoreKept
    BY <1>1, <1>6 DEF rateVars
  <2>2. RateTypeOK' /\ Holds(rateStore)' /\ PagesTrue' /\ CardsHaveRates'
    BY <1>6 DEF rateVars, RateInv, RateTypeOK, Holds, Entry, Received, PagesTrue, CardsHaveRates, CardRate
  <2>3. \A q \in lookups : LookupTrue(q)' /\ CurrentTrue(q)'
    BY <1>6 DEF rateVars, RateInv, LookupTrue, CurrentTrue, Received, Holds, Entry
  <2> QED
    BY <1>6, <2>1, <2>2, <2>3 DEF rateVars, RateInv
<1> QED
  BY <1>2, <1>3, <1>4, <1>5, <1>6, WriteStoreKeeps DEF RateNext

LEMMA RateInvariant == RateSpec => []RateInv
<1> QED
  BY RateInitial, RateStep, PTL DEF RateSpec

\* Rates are used for their own pair only and while they are valid, and the store keeps them
\* until they expire, unless two tabs cross: for any number of lookups and any clock.
THEOREM RatesStayTrue == RateSpec => RatesKept
<1>1. ASSUME RateInv
      PROVE  CardsConvertRight
  <2> SUFFICES ASSUME NEW tab \in RateTabs, NEW c \in sources[tab], CardRate(tab, c) # None
               PROVE  CardRate(tab, c)[1] = c /\ CardRate(tab, c)[2] = preferred[tab]
    BY DEF CardsConvertRight
  <2>1. c \in Currencies /\ preferred[tab] \in Currencies
    BY <1>1 DEF RateInv, RateTypeOK, PagesTrue
  <2>2. CardRate(tab, c) = pageRates[tab][<<c, preferred[tab]>>] /\ <<c, preferred[tab]>> \in Pairs
    BY <2>1 DEF CardRate, Pairs
  <2>3. Received(<<c, preferred[tab]>>, CardRate(tab, c))
    BY <1>1, <2>2 DEF RateInv, PagesTrue
  <2> QED
    BY <2>3 DEF Received
<1>2. ASSUME RateInv
      PROVE  CardsHaveRates /\ RatesKeepTheirAge
  BY <1>2 DEF RateInv, Holds, Entry, Received, RatesKeepTheirAge
<1>3. RateInv /\ [RateNext]_rateVars => [StoreKept]_rateVars
  BY RateStep
<1>4. RateSpec => []CardsConvertRight /\ []CardsHaveRates /\ []RatesKeepTheirAge
  BY <1>1, <1>2, RateInvariant, PTL
<1>5. RateSpec => [][StoreKept]_rateVars
  BY <1>3, RateInvariant, PTL DEF RateSpec
<1> QED
  BY <1>4, <1>5 DEF RatesKept, CacheKept, StoreKept

-----------------------------------------------------------------------------
(* Appearance: looks and a switch of the display that two tabs share.      *)

LooksSpec == LooksInit /\ [][LooksNext]_lookVars

Looks == [theme : Themes, scheme : Schemes \cup {None, "retired"}, colours : Colours \cup {None, "retired"}]

PageLooks == [theme : Themes, scheme : Schemes, colours : Colours]

LookTypeOK ==
    /\ systemTone \in {"light", "dark"} /\ storedSwitch \in BOOLEAN /\ storedLook \in Looks
    /\ DOMAIN dark = LookTabs /\ DOMAIN overrides = LookTabs /\ DOMAIN dashboardSwitch = LookTabs
    /\ DOMAIN route = LookTabs /\ DOMAIN pageLook = LookTabs
    /\ behind \subseteq LookTabs /\ outdated \subseteq LookTabs

\* A tab paints what is stored.
Painted(tab) ==
    LET look == Taken(storedLook)
    IN  /\ dark[tab] = (ResolvedTone(look.theme) = "dark")
        /\ overrides[tab] = Styles(look.theme, look.scheme, look.colours)

\* A tab to which no other has got ahead waits for the system's colours alone, and only if
\* the theme follows them.
PaintedUnlessCalled ==
    \A tab \in LookTabs \ behind :
        <<tab, "system">> \notin signals \/ storedLook.theme # "system" => Painted(tab)

\* A settings page works on the stored colours unless another tab has stored a look since.
PagesUpToDate ==
    \A tab \in LookTabs : route[tab] = "settings" =>
        /\ pageLook[tab] \in PageLooks
        /\ tab \notin outdated => pageLook[tab].colours = ParseColours(storedLook)

LookInv == LookTypeOK /\ PaintedUnlessCalled /\ PagesUpToDate /\ DashboardFollows

\* What a step may do to the stored colours.
ColoursKept ==
    LET colours == ParseColours(storedLook')
    IN  colours # ParseColours(storedLook) =>
            picked' = colours \/ \E tab \in outdated : pageLook[tab].colours = colours

LEMMA LooksInitial ==
  ASSUME LooksInit
  PROVE  LookInv
<1>1. storedLook \in Looks /\ storedLook.theme = "system" /\ storedLook.scheme \in {None, "retired"}
      /\ Themes = {"light", "dark", "system"}
  BY DEF LooksInit, Looks, Themes
<1>2. LookTypeOK
  BY <1>1 DEF LooksInit, LookTypeOK
<1>3. \A tab \in LookTabs : Painted(tab)
  <2>1. storedLook.scheme \notin Schemes
    BY <1>1, LooksAssumption DEF Schemes
  <2>2. GetScheme(storedLook) = "default" /\ GetTheme(storedLook) = "system" /\ systemTone = "light"
    BY <1>1, <2>1 DEF GetScheme, GetTheme, LooksInit
  <2> QED
    BY <2>2 DEF Painted, Taken, ResolvedTone, Styles, LooksInit
<1>4. PaintedUnlessCalled /\ PagesUpToDate /\ DashboardFollows
  BY <1>3 DEF PaintedUnlessCalled, PagesUpToDate, DashboardFollows, LooksInit
<1> QED
  BY <1>2, <1>4 DEF LookInv

\* What painting needs to know of the store.
LEMMA PaintedAgain ==
  ASSUME LookTypeOK, NEW tab \in LookTabs, Painted(tab),
         UNCHANGED <<systemTone, storedLook>>, dark'[tab] = dark[tab], overrides'[tab] = overrides[tab]
  PROVE  Painted(tab)'
BY DEF Painted, Taken, GetTheme, GetScheme, ParseColours, ResolvedTone, Styles

LEMMA ThemePaints ==
  ASSUME LookTypeOK, NEW tab \in LookTabs, NEW theme \in Themes, ApplyTheme(tab, theme), UNCHANGED systemTone
  PROVE  /\ Painted(tab)' /\ storedLook' \in Looks /\ storedLook'.theme = theme
         /\ DOMAIN dark' = LookTabs /\ DOMAIN overrides' = LookTabs
         /\ ParseColours(storedLook') = ParseColours(storedLook)
         /\ theme = storedLook.theme => storedLook' = storedLook
         /\ \A t \in LookTabs \ {tab} : dark'[t] = dark[t] /\ overrides'[t] = overrides[t]
<1>1. /\ storedLook' = [storedLook EXCEPT !.theme = theme]
      /\ dark' = [dark EXCEPT ![tab] = ResolvedTone(theme) = "dark"]
      /\ overrides' = [overrides EXCEPT ![tab] = Styles(theme, GetScheme(storedLook), ParseColours(storedLook))]
  BY DEF ApplyTheme
<1>2. storedLook' \in Looks /\ storedLook'.theme = theme /\ storedLook'.scheme = storedLook.scheme
      /\ storedLook'.colours = storedLook.colours /\ (theme = storedLook.theme => storedLook' = storedLook)
  BY <1>1 DEF LookTypeOK, Looks
<1>3. dark'[tab] = (ResolvedTone(theme) = "dark")
      /\ overrides'[tab] = Styles(theme, GetScheme(storedLook), ParseColours(storedLook))
  BY <1>1 DEF LookTypeOK
<1>4. GetTheme(storedLook)' = theme /\ GetScheme(storedLook)' = GetScheme(storedLook)
      /\ ParseColours(storedLook)' = ParseColours(storedLook)
  BY <1>2 DEF GetTheme, GetScheme, ParseColours
<1>5. Painted(tab)'
  BY <1>3, <1>4 DEF Painted, Taken, Styles, ResolvedTone
<1> QED
  BY <1>1, <1>2, <1>4, <1>5 DEF LookTypeOK, ParseColours

LEMMA SchemePaints ==
  ASSUME LookTypeOK, NEW tab \in LookTabs, NEW scheme \in Schemes, NEW colours \in Colours,
         ApplyScheme(tab, scheme, colours), UNCHANGED systemTone
  PROVE  /\ dark' = dark /\ storedLook' \in Looks /\ storedLook'.theme = storedLook.theme
         /\ DOMAIN overrides' = LookTabs /\ ParseColours(storedLook') = colours
         /\ (dark[tab] = (ResolvedTone(storedLook.theme) = "dark") => Painted(tab)')
<1>1. /\ storedLook' = [storedLook EXCEPT !.scheme = scheme, !.colours = colours]
      /\ overrides' = [overrides EXCEPT ![tab] = Styles(GetTheme(storedLook), scheme, colours)]
      /\ dark' = dark
  BY DEF ApplyScheme
<1>2. storedLook' \in Looks /\ storedLook'.theme = storedLook.theme /\ storedLook'.scheme = scheme
      /\ storedLook'.colours = colours /\ storedLook.theme \in Themes
  BY <1>1 DEF LookTypeOK, Looks
<1>3. GetTheme(storedLook)' = storedLook.theme /\ GetTheme(storedLook) = storedLook.theme
      /\ GetScheme(storedLook)' = scheme /\ ParseColours(storedLook)' = colours
  BY <1>2 DEF GetTheme, GetScheme, ParseColours
<1>4. overrides'[tab] = Styles(storedLook.theme, scheme, colours)
  BY <1>1, <1>3 DEF LookTypeOK
<1>5. dark[tab] = (ResolvedTone(storedLook.theme) = "dark") => Painted(tab)'
  BY <1>1, <1>3, <1>4 DEF Painted, Taken, Styles, ResolvedTone
<1> QED
  BY <1>1, <1>2, <1>3, <1>5 DEF LookTypeOK, ParseColours

\* The painting of a tab that is not behind tells the tone of the theme.
LEMMA PaintedTone ==
  ASSUME LookTypeOK, NEW tab \in LookTabs, Painted(tab)
  PROVE  dark[tab] = (ResolvedTone(storedLook.theme) = "dark")
<1>1. GetTheme(storedLook) = storedLook.theme
  BY DEF LookTypeOK, Looks, GetTheme
<1> QED
  BY <1>1 DEF Painted, Taken

\* A settings page holds another look, which is stored and painted.
Restyled(tab, value) ==
    /\ pageLook' = [pageLook EXCEPT ![tab] = value]
    /\ storedLook' \in Looks /\ DOMAIN dark' = LookTabs /\ DOMAIN overrides' = LookTabs
    /\ \/ ParseColours(storedLook') = ParseColours(storedLook) /\ value.colours = pageLook[tab].colours
       \/ /\ ParseColours(storedLook') = value.colours
          /\ value.colours = picked' \/ value.colours = pageLook[tab].colours
    /\ tab \notin behind' /\ (<<tab, "system">> \notin signals \/ storedLook'.theme # "system") => Painted(tab)'

LEMMA RestylesKeepLooks ==
  ASSUME LookInv, NEW tab \in LookTabs,
         \/ \E theme \in Themes : ChooseTheme(tab, theme)
         \/ \E scheme \in Schemes : ChooseScheme(tab, scheme)
         \/ \E colours \in Colours : PickColours(tab, colours)
  PROVE  LookInv' /\ ColoursKept
<1>1. /\ route[tab] = "settings"
      /\ outdated' = outdated \cup {t \in LookTabs \ {tab} : route[t] = "settings"}
      /\ UNCHANGED <<systemTone, storedSwitch, route, dashboardSwitch, listening, deaf, signals>>
      /\ behind' \subseteq LookTabs /\ LookTabs \ {tab} \subseteq behind' /\ tab \notin behind' \ behind
  BY DEF LookInv, LookTypeOK, ChooseTheme, ChooseScheme, PickColours, Restyles, Others, dashboardTabs
<1>2. LookTypeOK /\ pageLook[tab] \in PageLooks
  BY <1>1 DEF LookInv, PagesUpToDate
<1>3. \E value \in PageLooks : Restyled(tab, value)
  <2>1. ASSUME NEW theme \in Themes, ChooseTheme(tab, theme)
        PROVE  \E value \in PageLooks : Restyled(tab, value)
    <3>1. ApplyTheme(tab, theme) /\ pageLook' = [pageLook EXCEPT ![tab].theme = theme]
      BY <2>1 DEF ChooseTheme
    <3>2. /\ Painted(tab)' /\ storedLook' \in Looks
          /\ DOMAIN dark' = LookTabs /\ DOMAIN overrides' = LookTabs
          /\ ParseColours(storedLook') = ParseColours(storedLook)
      BY <1>1, <1>2, <3>1, ThemePaints
    <3> DEFINE value == [pageLook[tab] EXCEPT !.theme = theme]
    <3>3. value \in PageLooks /\ value.colours = pageLook[tab].colours
          /\ pageLook' = [pageLook EXCEPT ![tab] = value]
      BY <1>2, <2>1, <3>1 DEF PageLooks
    <3> QED
      BY <3>2, <3>3 DEF Restyled
  <2>2. ASSUME NEW scheme \in Schemes, NEW colours \in Colours, NEW shownLook \in PageLooks,
               ApplyScheme(tab, scheme, colours), pageLook' = [pageLook EXCEPT ![tab] = shownLook],
               shownLook.colours = colours, behind' = behind \cup (LookTabs \ {tab}),
               colours = picked' \/ colours = pageLook[tab].colours
        PROVE  \E value \in PageLooks : Restyled(tab, value)
    <3>1. /\ dark' = dark /\ storedLook' \in Looks /\ storedLook'.theme = storedLook.theme
          /\ DOMAIN overrides' = LookTabs /\ ParseColours(storedLook') = colours
          /\ (dark[tab] = (ResolvedTone(storedLook.theme) = "dark") => Painted(tab)')
      BY <1>1, <1>2, <2>2, SchemePaints
    <3>2. ASSUME tab \notin behind', <<tab, "system">> \notin signals \/ storedLook'.theme # "system"
          PROVE  Painted(tab)'
      <4>1. Painted(tab)
        BY <2>2, <3>1, <3>2 DEF LookInv, PaintedUnlessCalled
      <4> QED
        BY <1>2, <3>1, <4>1, PaintedTone
    <3> QED
      BY <1>2, <2>2, <3>1, <3>2 DEF LookTypeOK, Restyled
  <2>3. ASSUME NEW scheme \in Schemes, ChooseScheme(tab, scheme)
        PROVE  \E value \in PageLooks : Restyled(tab, value)
    <3> DEFINE value == [pageLook[tab] EXCEPT !.scheme = scheme]
    <3>1. value \in PageLooks /\ value.colours = pageLook[tab].colours
          /\ pageLook' = [pageLook EXCEPT ![tab] = value] /\ pageLook[tab].colours \in Colours
      BY <1>2, <2>3 DEF ChooseScheme, PageLooks
    <3>2. ApplyScheme(tab, scheme, pageLook[tab].colours) /\ behind' = behind \cup (LookTabs \ {tab})
      BY <2>3 DEF ChooseScheme, Others
    <3> QED
      BY <2>2, <2>3, <3>1, <3>2
  <2>4. ASSUME NEW colours \in Colours, PickColours(tab, colours)
        PROVE  \E value \in PageLooks : Restyled(tab, value)
    <3> DEFINE value == [pageLook[tab] EXCEPT !.colours = colours]
    <3>1. value \in PageLooks /\ value.colours = colours
          /\ pageLook' = [pageLook EXCEPT ![tab] = value]
      BY <1>2, <2>4 DEF PickColours, PageLooks
    <3>2. ApplyScheme(tab, "custom", colours) /\ behind' = behind \cup (LookTabs \ {tab}) /\ picked' = colours
          /\ "custom" \in Schemes
      BY <2>4 DEF PickColours, Others, Schemes
    <3> QED
      BY <2>2, <2>4, <3>1, <3>2
  <2> QED
    BY <2>1, <2>3, <2>4
<1>4. PICK value \in PageLooks : Restyled(tab, value)
  BY <1>3
<1>5. LookTypeOK'
  BY <1>1, <1>2, <1>4 DEF LookTypeOK, Restyled
<1>6. PaintedUnlessCalled'
  BY <1>1, <1>4 DEF PaintedUnlessCalled, Restyled
<1>7. PagesUpToDate'
  <2> SUFFICES ASSUME NEW t \in LookTabs, route'[t] = "settings"
               PROVE  /\ pageLook'[t] \in PageLooks
                      /\ t \notin outdated' => pageLook'[t].colours = ParseColours(storedLook')
    BY DEF PagesUpToDate, ParseColours
  <2>1. CASE t = tab
    <3>1. pageLook'[t] = value
      BY <1>4, <2>1 DEF LookInv, LookTypeOK, Restyled
    <3>2. t \notin outdated' => pageLook[tab].colours = ParseColours(storedLook)
      BY <1>1, <2>1 DEF LookInv, PagesUpToDate
    <3> QED
      BY <1>4, <3>1, <3>2 DEF Restyled
  <2>2. CASE t # tab
    BY <1>1, <1>4, <2>2 DEF LookInv, LookTypeOK, PagesUpToDate, Restyled
  <2> QED
    BY <2>1, <2>2
<1>8. DashboardFollows'
  BY <1>1 DEF LookInv, DashboardFollows
<1>9. ColoursKept
  <2>1. tab \in outdated \/ pageLook[tab].colours = ParseColours(storedLook)
    BY <1>1 DEF LookInv, PagesUpToDate
  <2> QED
    BY <1>4, <2>1 DEF ColoursKept, Restyled
<1> QED
  BY <1>5, <1>6, <1>7, <1>8, <1>9 DEF LookInv

LEMMA SwitchesKeepLooks ==
  ASSUME LookInv, NEW tab \in LookTabs, FlipSwitch(tab) \/ SwitchArrives(tab) \/ Listen(tab)
  PROVE  LookInv' /\ ColoursKept
<1>1. /\ UNCHANGED <<systemTone, storedLook, paint, route, settingsState, behind, picked>>
      /\ storedSwitch' \in BOOLEAN /\ DOMAIN dashboardSwitch' = LookTabs
      /\ \A t \in LookTabs : <<t, "system">> \in signals' <=> <<t, "system">> \in signals
  BY DEF LookInv, LookTypeOK, FlipSwitch, SwitchArrives, Listen, SetDisplay
<1>2. LookTypeOK' /\ PagesUpToDate' /\ ColoursKept
  BY <1>1 DEF LookInv, LookTypeOK, PagesUpToDate, ColoursKept, ParseColours, paint, settingsState
<1>3. PaintedUnlessCalled'
  BY <1>1, PaintedAgain DEF LookInv, PaintedUnlessCalled, paint
<1>4. DashboardFollows'
  <2> SUFFICES ASSUME NEW t \in LookTabs, route'[t] = "dashboard", t \notin deaf', <<t, "switch">> \notin signals'
               PROVE  dashboardSwitch'[t] = storedSwitch'
    BY DEF DashboardFollows
  <2>1. CASE FlipSwitch(tab)
    <3>1. /\ route[tab] = "settings" /\ route' = route
          /\ signals' = signals \cup {<<u, "switch">> : u \in (LookTabs \ {tab}) \cap listening}
          /\ deaf' = deaf \cup {u \in LookTabs \ {tab} : route[u] = "dashboard" /\ u \notin listening}
      BY <2>1 DEF FlipSwitch, Others
    <3>2. t # tab
      BY <3>1
    <3> QED
      BY <3>1, <3>2
  <2>2. CASE SwitchArrives(tab)
    <3>1. /\ signals' = signals \ {<<tab, "switch">>} /\ route' = route /\ deaf' = deaf
          /\ dashboardSwitch' = [dashboardSwitch EXCEPT ![tab] = storedSwitch] /\ storedSwitch' = storedSwitch
      BY <2>2 DEF SwitchArrives
    <3>2. CASE t = tab
      BY <3>1, <3>2 DEF LookInv, LookTypeOK
    <3>3. CASE t # tab
      BY <3>1, <3>3 DEF LookInv, LookTypeOK, DashboardFollows
    <3> QED
      BY <3>2, <3>3
  <2>3. CASE Listen(tab)
    BY <2>3 DEF LookInv, DashboardFollows, Listen
  <2> QED
    BY <2>1, <2>2, <2>3
<1> QED
  BY <1>2, <1>3, <1>4 DEF LookInv

\* The system's colours change, and the tabs hear of it; or a document is loaded again.
LEMMA SystemKeepsLooks ==
  ASSUME LookInv,
         SystemChanges \/ \E tab \in LookTabs : SystemArrives(tab) \/ InitTheme(tab)
  PROVE  LookInv' /\ ColoursKept
<1>0. LookTypeOK
  BY DEF LookInv
<1>1. CASE SystemChanges
  <2>1. /\ signals' = signals \cup {<<t, "system">> : t \in LookTabs} /\ systemTone' \in {"light", "dark"}
        /\ UNCHANGED <<storedLook, storedSwitch, paint, route, settingsState, dashboardTabs, behind, picked>>
    BY <1>1 DEF SystemChanges
  <2>2. LookTypeOK' /\ PagesUpToDate' /\ ColoursKept
    BY <2>1 DEF LookInv, LookTypeOK, PagesUpToDate, ColoursKept, ParseColours, paint, settingsState, dashboardTabs
  <2>3. DashboardFollows'
    BY <2>1 DEF LookInv, DashboardFollows, dashboardTabs
  <2>4. PaintedUnlessCalled'
    <3> SUFFICES ASSUME NEW t \in LookTabs \ behind, storedLook.theme # "system"
                 PROVE  Painted(t)'
      BY <2>1 DEF PaintedUnlessCalled
    <3>1. Painted(t)
      BY DEF LookInv, PaintedUnlessCalled
    <3>2. GetTheme(storedLook) = storedLook.theme /\ GetTheme(storedLook)' = storedLook.theme
      BY <1>0, <2>1 DEF GetTheme, LookTypeOK, Looks
    <3>3. GetScheme(storedLook)' = GetScheme(storedLook) /\ ParseColours(storedLook)' = ParseColours(storedLook)
      BY <2>1 DEF GetScheme, ParseColours
    <3> QED
      BY <2>1, <3>1, <3>2, <3>3 DEF Painted, Taken, ResolvedTone, Styles, paint
  <2> QED
    BY <2>2, <2>3, <2>4 DEF LookInv
<1>2. ASSUME NEW tab \in LookTabs, NEW theme \in Themes, ApplyTheme(tab, theme), theme = storedLook.theme,
             signals' = signals \ {<<tab, "system">>}, behind' = behind \ {tab},
             UNCHANGED <<systemTone, storedSwitch, route, settingsState, dashboardTabs, picked>>
      PROVE  LookInv' /\ ColoursKept
  <2>1. /\ Painted(tab)' /\ storedLook' = storedLook
        /\ DOMAIN dark' = LookTabs /\ DOMAIN overrides' = LookTabs
        /\ \A t \in LookTabs \ {tab} : dark'[t] = dark[t] /\ overrides'[t] = overrides[t]
    BY <1>0, <1>2, ThemePaints
  <2>2. LookTypeOK' /\ PagesUpToDate' /\ ColoursKept
    BY <1>2, <2>1 DEF LookInv, LookTypeOK, PagesUpToDate, ColoursKept, ParseColours, settingsState, dashboardTabs
  <2>3. DashboardFollows'
    BY <1>2 DEF LookInv, DashboardFollows, dashboardTabs
  <2>4. PaintedUnlessCalled'
    <3> SUFFICES ASSUME NEW t \in LookTabs \ behind', <<t, "system">> \notin signals' \/ storedLook'.theme # "system"
                 PROVE  Painted(t)'
      BY DEF PaintedUnlessCalled
    <3>1. CASE t = tab
      BY <2>1, <3>1
    <3>2. CASE t # tab
      <4>1. Painted(t)
        BY <1>2, <2>1, <3>2 DEF LookInv, PaintedUnlessCalled
      <4> QED
        BY <1>0, <1>2, <2>1, <3>2, <4>1, PaintedAgain
    <3> QED
      BY <3>1, <3>2
  <2> QED
    BY <2>2, <2>3, <2>4 DEF LookInv
<1>3. storedLook.theme \in Themes /\ GetTheme(storedLook) = storedLook.theme /\ "system" \in Themes
  BY <1>0 DEF GetTheme, LookTypeOK, Looks, Themes
<1>4. ASSUME NEW tab \in LookTabs, SystemArrives(tab)
      PROVE  LookInv' /\ ColoursKept
  <2>1. CASE storedLook.theme = "system"
    BY <1>2, <1>3, <1>4, <2>1 DEF SystemArrives
  <2>2. CASE storedLook.theme # "system"
    <3>1. /\ signals' = signals \ {<<tab, "system">>}
          /\ UNCHANGED <<systemTone, storedLook, storedSwitch, paint, route, settingsState, dashboardTabs, behind, picked>>
      BY <1>3, <1>4, <2>2 DEF SystemArrives
    <3>2. LookTypeOK' /\ PagesUpToDate' /\ ColoursKept
      BY <3>1 DEF LookInv, LookTypeOK, PagesUpToDate, ColoursKept, ParseColours, paint, settingsState, dashboardTabs
    <3>3. DashboardFollows'
      BY <3>1 DEF LookInv, DashboardFollows, dashboardTabs
    <3>4. PaintedUnlessCalled'
      BY <1>0, <2>2, <3>1, PaintedAgain DEF LookInv, PaintedUnlessCalled, paint
    <3> QED
      BY <3>2, <3>3, <3>4 DEF LookInv
  <2> QED
    BY <2>1, <2>2
<1>5. ASSUME NEW tab \in LookTabs, InitTheme(tab)
      PROVE  LookInv' /\ ColoursKept
  BY <1>2, <1>3, <1>5 DEF InitTheme
<1> QED
  BY <1>1, <1>4, <1>5

LEMMA VisitsKeepLooks ==
  ASSUME LookInv, NEW tab \in LookTabs, OpenSettings(tab) \/ OpenDashboard(tab) \/ Leave(tab)
  PROVE  LookInv' /\ ColoursKept
<1>0. LookTypeOK
  BY DEF LookInv
<1>1. /\ UNCHANGED <<systemTone, storedLook, storedSwitch, paint, behind, picked>>
      /\ \A t \in LookTabs : <<t, "system">> \in signals' <=> <<t, "system">> \in signals
      /\ outdated' = outdated \ {tab}
  BY DEF OpenSettings, OpenDashboard, Leave
<1>2. PICK page \in {"settings", "dashboard", "away"} :
         /\ route' = [route EXCEPT ![tab] = page]
         /\ page = "settings" => pageLook' = [pageLook EXCEPT ![tab] = Taken(storedLook)]
         /\ page # "settings" => pageLook' = [pageLook EXCEPT ![tab] = None]
         /\ page = "dashboard" => /\ dashboardSwitch' = [dashboardSwitch EXCEPT ![tab] = storedSwitch]
                                  /\ UNCHANGED <<deaf, signals>>
         /\ page # "dashboard" => /\ dashboardSwitch' = dashboardSwitch /\ deaf' = deaf \ {tab}
                                  /\ signals' = signals \ {<<tab, "switch">>}
  <2>1. CASE OpenSettings(tab)
    BY <2>1 DEF OpenSettings, Visit
  <2>2. CASE OpenDashboard(tab)
    BY <2>2 DEF OpenDashboard, Visit
  <2>3. CASE Leave(tab)
    BY <2>3 DEF Leave, Visit
  <2> QED
    BY <2>1, <2>2, <2>3
<1>3. LookTypeOK'
  BY <1>0, <1>1, <1>2 DEF LookTypeOK, paint
<1>4. PaintedUnlessCalled'
  BY <1>0, <1>1, PaintedAgain DEF LookInv, PaintedUnlessCalled, paint
<1>5. Taken(storedLook) \in PageLooks /\ Taken(storedLook).colours = ParseColours(storedLook)
  <2>1. "system" \in Themes /\ "default" \in Schemes /\ "standard" \in Colours
    BY DEF Themes, Schemes, Colours
  <2> QED
    BY <2>1 DEF Taken, PageLooks, GetTheme, GetScheme, ParseColours
<1>6. PagesUpToDate'
  <2> SUFFICES ASSUME NEW t \in LookTabs, route'[t] = "settings"
               PROVE  /\ pageLook'[t] \in PageLooks
                      /\ t \notin outdated' => pageLook'[t].colours = ParseColours(storedLook')
    BY DEF PagesUpToDate, ParseColours
  <2>1. ParseColours(storedLook') = ParseColours(storedLook)
    BY <1>1 DEF ParseColours
  <2>2. CASE t = tab
    <3>1. page = "settings" /\ pageLook'[t] = Taken(storedLook)
      BY <1>0, <1>2, <2>2 DEF LookTypeOK
    <3> QED
      BY <1>5, <2>1, <3>1
  <2>3. CASE t # tab
    <3>1. route[t] = "settings" /\ pageLook'[t] = pageLook[t] /\ (t \notin outdated' => t \notin outdated)
      BY <1>0, <1>1, <1>2, <2>3 DEF LookTypeOK
    <3> QED
      BY <2>1, <3>1 DEF LookInv, PagesUpToDate
  <2> QED
    BY <2>2, <2>3
<1>7. DashboardFollows'
  <2> SUFFICES ASSUME NEW t \in LookTabs, route'[t] = "dashboard", t \notin deaf', <<t, "switch">> \notin signals'
               PROVE  dashboardSwitch'[t] = storedSwitch'
    BY DEF DashboardFollows
  <2>1. CASE t = tab
    BY <1>0, <1>1, <1>2, <2>1 DEF LookTypeOK
  <2>2. CASE t # tab
    <3>1. route[t] = "dashboard" /\ t \notin deaf /\ <<t, "switch">> \notin signals
          /\ dashboardSwitch'[t] = dashboardSwitch[t]
      BY <1>0, <1>2, <2>2 DEF LookTypeOK
    <3> QED
      BY <1>1, <3>1 DEF LookInv, DashboardFollows
  <2> QED
    BY <2>1, <2>2
<1>8. ColoursKept
  BY <1>1 DEF ColoursKept, ParseColours
<1> QED
  BY <1>3, <1>4, <1>6, <1>7, <1>8 DEF LookInv

LEMMA LooksStep ==
  ASSUME LookInv, [LooksNext]_lookVars
  PROVE  LookInv' /\ [ColoursKept]_lookVars
<1>1. CASE UNCHANGED lookVars
  <2>1. UNCHANGED <<systemTone, storedSwitch, storedLook, paint, route, pageLook, outdated, dashboardSwitch, deaf,
                    signals, behind>>
    BY <1>1 DEF lookVars, settingsState, dashboardTabs
  <2>2. LookTypeOK' /\ PagesUpToDate' /\ DashboardFollows'
    BY <2>1 DEF LookInv, LookTypeOK, PagesUpToDate, DashboardFollows, ParseColours, paint
  <2>3. PaintedUnlessCalled'
    BY <2>1, PaintedAgain DEF LookInv, PaintedUnlessCalled, paint
  <2> QED
    BY <1>1, <2>2, <2>3 DEF LookInv
<1>2. ASSUME NEW tab \in LookTabs,
             \/ \E theme \in Themes : ChooseTheme(tab, theme)
             \/ \E scheme \in Schemes : ChooseScheme(tab, scheme)
             \/ \E colours \in Colours : PickColours(tab, colours)
      PROVE  LookInv' /\ ColoursKept
  BY <1>2, RestylesKeepLooks
<1>3. ASSUME NEW tab \in LookTabs, FlipSwitch(tab) \/ SwitchArrives(tab) \/ Listen(tab)
      PROVE  LookInv' /\ ColoursKept
  BY <1>3, SwitchesKeepLooks
<1>4. CASE SystemChanges \/ \E tab \in LookTabs : SystemArrives(tab) \/ InitTheme(tab)
  BY <1>4, SystemKeepsLooks
<1>5. ASSUME NEW tab \in LookTabs, OpenSettings(tab) \/ OpenDashboard(tab) \/ Leave(tab)
      PROVE  LookInv' /\ ColoursKept
  BY <1>5, VisitsKeepLooks
<1> QED
  BY <1>1, <1>2, <1>3, <1>4, <1>5 DEF LooksNext

\* The invariant, for any number of changes: a tab that no other got ahead of paints what is
\* stored unless the system's colours have yet to reach it and its theme follows them; a
\* settings page works on the stored colours unless another tab has stored a look since.
THEOREM LooksInvariant == LooksSpec => []LookInv
<1>1. LooksInit => LookInv
  BY LooksInitial
<1>2. LookInv /\ [LooksNext]_lookVars => LookInv'
  BY LooksStep
<1> QED
  BY <1>1, <1>2, PTL DEF LooksSpec

\* Tabs show the looks and the switch that are stored, in one tone, and trying schemes loses
\* no colours, however their changes, visits and events interleave.
THEOREM LooksStayStored == LooksSpec => LooksAgree
<1>1. LookInv => LooksAsStored
  BY DEF LookInv, PaintedUnlessCalled, LooksAsStored, Current, Painted
<1>2. LookInv => DashboardFollows
  BY DEF LookInv
<1>3. LookInv /\ [LooksNext]_lookVars => [ColoursKept]_lookVars
  BY LooksStep
<1>4. LooksSpec => []LooksAsStored
  BY <1>1, LooksInvariant, PTL
<1>5. LooksSpec => []DashboardFollows
  BY <1>2, LooksInvariant, PTL
<1>6. LooksSpec => [][ColoursKept]_lookVars
  BY <1>3, LooksInvariant, PTL DEF LooksSpec
<1> QED
  BY <1>4, <1>5, <1>6 DEF LooksAgree, ColoursSurvive, ColoursKept

-----------------------------------------------------------------------------
(* SettingsLists: the list that is shown and the one the server has. *)

ListsSpec == ListsInit /\ [][ListsNext]_listVars

RowOf == [id : Nat, val : Int]

\* A list whose rows have ids of their own, its rows with an id, and the order of two ids in it.
Whole(l) == l \in Seq(RowOf) /\ \A i, j \in DOMAIN l : l[i].id = l[j].id => i = j
Of(l, id) == {x \in RowSet(l) : x.id = id}
ListAfter(l, a, b) == \E i, j \in DOMAIN l : i < j /\ l[i].id = a /\ l[j].id = b

LEMMA WholeIs ==
  ASSUME NEW l, Whole(l)
  PROVE  /\ Len(l) \in Nat /\ DOMAIN l = 1..Len(l) /\ l \in [1..Len(l) -> RowOf]
         /\ \A i \in 1..Len(l) : l[i] \in RowOf /\ l[i].id \in Nat /\ l[i] \in RowSet(l)
         /\ \A x \in RowSet(l) : x \in RowOf /\ \E i \in 1..Len(l) : l[i] = x
         /\ \A x, y \in RowSet(l) : x.id = y.id => x = y
         /\ Ids(l) = {x.id : x \in RowSet(l)} /\ Ids(l) \subseteq Nat
<1>1. l \in Seq(RowOf) /\ Len(l) \in Nat /\ DOMAIN l = 1..Len(l)
  BY LenProperties DEF Whole
<1>2. \A i \in 1..Len(l) : l[i] \in RowOf /\ l[i].id \in Nat /\ l[i] \in RowSet(l)
  <2>1. \A i \in 1..Len(l) : l[i] \in RowOf
    BY <1>1
  <2>2. \A x \in RowOf : x.id \in Nat
    BY DEF RowOf
  <2> QED
    BY <1>1, <2>1, <2>2 DEF RowSet
<1>3. \A x \in RowSet(l) : x \in RowOf /\ \E i \in 1..Len(l) : l[i] = x
  BY <1>1, <1>2 DEF RowSet
<1>4. \A x, y \in RowSet(l) : x.id = y.id => x = y
  BY <1>1, <1>3 DEF Whole
<1>5. Ids(l) = {x.id : x \in RowSet(l)} /\ Ids(l) \subseteq Nat
  BY <1>1, <1>2, <1>3 DEF Ids
<1>6. l \in [1..Len(l) -> RowOf]
  BY <1>1, LenProperties
<1> QED
  BY <1>1, <1>2, <1>3, <1>4, <1>5, <1>6

\* A row is the only one with its id.
LEMMA OfIs ==
  ASSUME NEW l, Whole(l)
  PROVE  /\ \A x \in RowSet(l) : Of(l, x.id) = {x}
         /\ \A id : id \in Ids(l) <=> Of(l, id) # {}
         /\ \A id \in Ids(l) : Row(l, id) \in RowOf /\ Row(l, id).id = id /\ Of(l, id) = {Row(l, id)}
<1>1. \A x \in RowSet(l) : Of(l, x.id) = {x}
  BY WholeIs DEF Of
<1>2. \A id : id \in Ids(l) <=> Of(l, id) # {}
  BY WholeIs DEF Of
<1>3. ASSUME NEW id \in Ids(l) PROVE Row(l, id) \in RowOf /\ Row(l, id).id = id /\ Of(l, id) = {Row(l, id)}
  <2>1. PICK x \in RowSet(l) : x.id = id
    BY <1>3, WholeIs
  <2>2. Row(l, id) \in RowSet(l) /\ Row(l, id).id = id
    BY <2>1 DEF Row
  <2> QED
    BY <1>1, <2>2, WholeIs
<1> QED
  BY <1>1, <1>2, <1>3

\* A row is taken out of a list.
LEMMA CutIs ==
  ASSUME NEW l, Whole(l), NEW h \in DOMAIN l, NEW t \in Seq(RowOf), Len(t) = Len(l) - 1,
         \A k \in 1..(Len(l) - 1) : t[k] = IF k < h THEN l[k] ELSE l[k + 1]
  PROVE  /\ Whole(t) /\ RowSet(t) = RowSet(l) \ {l[h]}
         /\ \A a, b : ListAfter(t, a, b) <=> ListAfter(l, a, b) /\ a # l[h].id /\ b # l[h].id
<1>1. PICK n \in Nat : n = Len(l)
  BY WholeIs
<1>2. DOMAIN l = 1..n /\ h \in 1..n /\ DOMAIN t = 1..(n - 1)
  BY <1>1, WholeIs, LenProperties
<1> DEFINE was(k) == IF k < h THEN k ELSE k + 1
           is(i) == IF i < h THEN i ELSE i - 1
<1>3. \A k \in 1..(n - 1) : was(k) \in 1..n /\ was(k) # h /\ is(was(k)) = k
  BY <1>2
<1>4. \A i \in 1..n : i # h => is(i) \in 1..(n - 1) /\ was(is(i)) = i
  BY <1>2
<1>5. \A k, m \in 1..(n - 1) : k < m <=> was(k) < was(m)
  BY <1>2
<1>6. \A k \in 1..(n - 1) : t[k] = l[was(k)]
  BY <1>1
<1> HIDE DEF was, is
<1>7. \A i, j \in 1..n : l[i].id = l[j].id => i = j
  BY <1>2 DEF Whole
<1>8. Whole(t)
  BY <1>2, <1>3, <1>6, <1>7 DEF Whole
<1>9. RowSet(t) = RowSet(l) \ {l[h]}
  <2>1. ASSUME NEW x \in RowSet(t) PROVE x \in RowSet(l) /\ x # l[h]
    <3>1. PICK k \in 1..(n - 1) : x = l[was(k)]
      BY <1>2, <1>6 DEF RowSet
    <3> QED
      BY <1>2, <1>3, <1>7, <3>1 DEF RowSet
  <2>2. ASSUME NEW x \in RowSet(l), x # l[h] PROVE x \in RowSet(t)
    <3>1. PICK i \in 1..n : x = l[i] /\ i # h
      BY <1>2, <2>2 DEF RowSet
    <3>2. is(i) \in 1..(n - 1) /\ t[is(i)] = x
      BY <1>4, <1>6, <3>1
    <3> QED
      BY <1>2, <3>2 DEF RowSet
  <2> QED
    BY <2>1, <2>2
<1>10. ASSUME NEW a, NEW b PROVE ListAfter(t, a, b) <=> ListAfter(l, a, b) /\ a # l[h].id /\ b # l[h].id
  <2>1. ASSUME ListAfter(t, a, b) PROVE ListAfter(l, a, b) /\ a # l[h].id /\ b # l[h].id
    <3>1. PICK k \in 1..(n - 1), m \in 1..(n - 1) : k < m /\ t[k].id = a /\ t[m].id = b
      BY <1>2, <2>1 DEF ListAfter
    <3>2. /\ was(k) \in 1..n /\ was(m) \in 1..n /\ was(k) < was(m) /\ l[was(k)].id = a /\ l[was(m)].id = b
          /\ was(k) # h /\ was(m) # h
      BY <1>3, <1>5, <1>6, <3>1
    <3> QED
      BY <1>2, <1>7, <3>2 DEF ListAfter
  <2>2. ASSUME ListAfter(l, a, b), a # l[h].id, b # l[h].id PROVE ListAfter(t, a, b)
    <3>1. PICK i \in 1..n, j \in 1..n : i < j /\ l[i].id = a /\ l[j].id = b
      BY <1>2, <2>2 DEF ListAfter
    <3>2. is(i) \in 1..(n - 1) /\ is(j) \in 1..(n - 1) /\ was(is(i)) = i /\ was(is(j)) = j
      BY <1>4, <2>2, <3>1
    <3>3. is(i) < is(j) /\ t[is(i)].id = a /\ t[is(j)].id = b
      BY <1>5, <1>6, <3>1, <3>2
    <3> QED
      BY <1>2, <3>2, <3>3 DEF ListAfter
  <2> QED
    BY <2>1, <2>2
<1> QED
  BY <1>8, <1>9, <1>10

\* A row is put into a list, at the end for one.
LEMMA PutIs ==
  ASSUME NEW t, Whole(t), NEW x \in RowOf, x.id \notin Ids(t), NEW h \in 1..(Len(t) + 1),
         NEW u \in Seq(RowOf), Len(u) = Len(t) + 1,
         \A k \in 1..(Len(t) + 1) : u[k] = IF k < h THEN t[k] ELSE IF k = h THEN x ELSE t[k - 1]
  PROVE  /\ Whole(u) /\ RowSet(u) = RowSet(t) \cup {x}
         /\ h = Len(t) + 1 => \A a, b : ListAfter(u, a, b) <=> ListAfter(t, a, b) \/ (a \in Ids(t) /\ b = x.id)
<1>1. PICK n \in Nat : n = Len(t)
  BY WholeIs
<1>2. DOMAIN t = 1..n /\ h \in 1..(n + 1) /\ DOMAIN u = 1..(n + 1)
  BY <1>1, WholeIs, LenProperties
<1> DEFINE was(k) == IF k < h THEN k ELSE k - 1
           is(i) == IF i < h THEN i ELSE i + 1
<1>3. \A k \in 1..(n + 1) : k # h => was(k) \in 1..n /\ is(was(k)) = k /\ u[k] = t[was(k)]
  BY <1>1, <1>2
<1>4. \A i \in 1..n : is(i) \in 1..(n + 1) /\ is(i) # h /\ was(is(i)) = i
  BY <1>2
<1>5. u[h] = x
  BY <1>1, <1>2
<1>6. h = n + 1 => \A i \in 1..n : is(i) = i
  BY <1>2
<1> HIDE DEF was, is
<1>7. \A i, j \in 1..n : t[i].id = t[j].id => i = j
  BY <1>2 DEF Whole
<1>8. \A i \in 1..n : u[is(i)] = t[i] /\ t[i].id # x.id /\ t[i] \in RowSet(t) /\ t[i].id \in Ids(t)
  BY <1>2, <1>3, <1>4 DEF Ids, RowSet
<1>9. Whole(u)
  <2>1. ASSUME NEW i \in 1..(n + 1), NEW j \in 1..(n + 1), u[i].id = u[j].id PROVE i = j
    <3>1. CASE i = h \/ j = h
      BY <1>3, <1>5, <1>8, <2>1, <3>1
    <3>2. CASE i # h /\ j # h
      <4>1. /\ was(i) \in 1..n /\ is(was(i)) = i /\ u[i] = t[was(i)]
            /\ was(j) \in 1..n /\ is(was(j)) = j /\ u[j] = t[was(j)]
        BY <1>3, <3>2
      <4>2. was(i) = was(j)
        BY <1>7, <2>1, <4>1
      <4> QED
        BY <4>1, <4>2
    <3> QED
      BY <3>1, <3>2
  <2> QED
    BY <1>2, <2>1 DEF Whole
<1>10. RowSet(u) = RowSet(t) \cup {x}
  <2>1. ASSUME NEW y \in RowSet(u) PROVE y \in RowSet(t) \cup {x}
    <3>1. PICK k \in 1..(n + 1) : y = u[k]
      BY <1>2 DEF RowSet
    <3> QED
      BY <1>3, <1>5, <1>8, <3>1
  <2>2. x \in RowSet(u)
    BY <1>2, <1>5 DEF RowSet
  <2>3. ASSUME NEW y \in RowSet(t) PROVE y \in RowSet(u)
    <3>1. PICK i \in 1..n : y = t[i]
      BY <1>2 DEF RowSet
    <3> QED
      BY <1>2, <1>4, <1>8, <3>1 DEF RowSet
  <2> QED
    BY <2>1, <2>2, <2>3
<1>11. ASSUME h = n + 1, NEW a, NEW b PROVE ListAfter(u, a, b) <=> ListAfter(t, a, b) \/ (a \in Ids(t) /\ b = x.id)
  <2>1. \A i \in 1..n : u[i] = t[i]
    BY <1>6, <1>8, <1>11
  <2>2. ASSUME ListAfter(u, a, b) PROVE ListAfter(t, a, b) \/ (a \in Ids(t) /\ b = x.id)
    <3>1. PICK i \in 1..(n + 1), j \in 1..(n + 1) : i < j /\ u[i].id = a /\ u[j].id = b
      BY <1>2, <2>2 DEF ListAfter
    <3>2. i \in 1..n /\ (j \in 1..n \/ j = h)
      BY <1>11, <3>1
    <3> QED
      BY <1>2, <1>5, <1>8, <2>1, <3>1, <3>2 DEF ListAfter
  <2>3. ASSUME ListAfter(t, a, b) PROVE ListAfter(u, a, b)
    <3>1. PICK i \in 1..n, j \in 1..n : i < j /\ t[i].id = a /\ t[j].id = b
      BY <1>2, <2>3 DEF ListAfter
    <3>2. i \in DOMAIN u /\ j \in DOMAIN u
      BY <1>2
    <3> QED
      BY <2>1, <3>1, <3>2 DEF ListAfter
  <2>4. ASSUME a \in Ids(t), b = x.id PROVE ListAfter(u, a, b)
    <3>1. PICK i \in 1..n : t[i].id = a
      BY <1>2, <2>4 DEF Ids
    <3>2. i \in DOMAIN u /\ h \in DOMAIN u /\ i < h
      BY <1>2, <1>11
    <3> QED
      BY <1>5, <2>1, <2>4, <3>1, <3>2 DEF ListAfter
  <2> QED
    BY <2>2, <2>3, <2>4
<1> QED
  BY <1>1, <1>9, <1>10, <1>11

LEMMA PartOf ==
  ASSUME NEW l \in Seq(RowOf), NEW n \in Nat, n = Len(l), NEW h \in 1..(n + 1)
  PROVE  /\ SubSeq(l, 1, h - 1) \in Seq(RowOf) /\ Len(SubSeq(l, 1, h - 1)) = h - 1
         /\ \A k \in 1..(h - 1) : SubSeq(l, 1, h - 1)[k] = l[k]
         /\ SubSeq(l, h, Len(l)) \in Seq(RowOf) /\ Len(SubSeq(l, h, Len(l))) = n - h + 1
         /\ \A k \in 1..(n - h + 1) : SubSeq(l, h, Len(l))[k] = l[k + h - 1]
<1>1. PICK g \in Int : g = h - 1
  OBVIOUS
<1>2. \A k \in 1..n : l[k] \in RowOf
  OBVIOUS
<1>3. (\A k \in 1..g : l[k] \in RowOf) /\ \A k \in h..n : l[k] \in RowOf
  BY <1>1, <1>2
<1>4. /\ SubSeq(l, 1, g) \in Seq(RowOf) /\ Len(SubSeq(l, 1, g)) = IF 1 <= g THEN g - 1 + 1 ELSE 0
      /\ \A k \in 1..(g - 1 + 1) : SubSeq(l, 1, g)[k] = l[1 + k - 1]
  BY <1>3, SubSeqProperties
<1>5. /\ SubSeq(l, h, n) \in Seq(RowOf) /\ Len(SubSeq(l, h, n)) = IF h <= n THEN n - h + 1 ELSE 0
      /\ \A k \in 1..(n - h + 1) : SubSeq(l, h, n)[k] = l[h + k - 1]
  BY <1>3, SubSeqProperties
<1>6. PICK p : p = SubSeq(l, 1, g)
  OBVIOUS
<1>7. PICK q : q = SubSeq(l, h, n)
  OBVIOUS
<1>8. p \in Seq(RowOf) /\ Len(p) = g /\ \A k \in 1..g : p[k] = l[k]
  <2>1. g - 1 + 1 = g /\ (\A k \in 1..g : 1 + k - 1 = k) /\ (IF 1 <= g THEN g - 1 + 1 ELSE 0) = g
    BY <1>1
  <2> QED
    BY <1>4, <1>6, <2>1
<1>9. q \in Seq(RowOf) /\ Len(q) = n - h + 1 /\ \A k \in 1..(n - h + 1) : q[k] = l[k + h - 1]
  <2>1. (\A k \in 1..(n - h + 1) : h + k - 1 = k + h - 1) /\ (IF h <= n THEN n - h + 1 ELSE 0) = n - h + 1
    OBVIOUS
  <2> QED
    BY <1>5, <1>7, <2>1
<1> QED
  BY <1>1, <1>6, <1>7, <1>8, <1>9

\* A list without its row at a place, and with a row put there.
CutOut(l, h) == SubSeq(l, 1, h - 1) \o SubSeq(l, h + 1, Len(l))
PutIn(l, h, x) == SubSeq(l, 1, h - 1) \o <<x>> \o SubSeq(l, h, Len(l))

LEMMA CutAt ==
  ASSUME NEW l \in Seq(RowOf), NEW n \in Nat, n = Len(l), NEW h \in 1..n
  PROVE  /\ CutOut(l, h) \in Seq(RowOf) /\ Len(CutOut(l, h)) = n - 1
         /\ \A k \in 1..(n - 1) : CutOut(l, h)[k] = IF k < h THEN l[k] ELSE l[k + 1]
<1>0. n \in Nat /\ h \in 1..n
  OBVIOUS
<1>1. PICK p : p = SubSeq(l, 1, h - 1)
  OBVIOUS
<1>2. PICK q : q = SubSeq(l, h + 1, Len(l))
  OBVIOUS
<1>3. PICK t : t = p \o q
  OBVIOUS
<1>4. \A k \in 1..n : l[k] \in RowOf
  OBVIOUS
<1>5. p \in Seq(RowOf) /\ Len(p) = h - 1 /\ \A k \in 1..(h - 1) : p[k] = l[k]
  BY <1>1, <1>4, PartOf
<1>6. q \in Seq(RowOf) /\ Len(q) = n - h /\ \A k \in 1..(n - h) : q[k] = l[k + h]
  <2>1. PICK m \in 1..(n + 1) : m = h + 1
    OBVIOUS
  <2>2. q \in Seq(RowOf) /\ Len(q) = n - m + 1 /\ \A k \in 1..(n - m + 1) : q[k] = l[k + m - 1]
    BY <1>2, <1>4, <2>1, PartOf
  <2>3. n - m + 1 = n - h /\ \A k \in 1..(n - h) : k + m - 1 = k + h
    BY <2>1
  <2> QED
    BY <2>2, <2>3
<1>7. t \in Seq(RowOf) /\ Len(t) = n - 1 /\ \A k \in 1..(n - 1) : t[k] = IF k <= h - 1 THEN p[k] ELSE q[k - (h - 1)]
  <2>0. p \in Seq(RowOf) /\ q \in Seq(RowOf)
    BY <1>5, <1>6
  <2>1. /\ p \o q \in Seq(RowOf) /\ Len(p \o q) = Len(p) + Len(q)
        /\ \A k \in 1..(Len(p) + Len(q)) : (p \o q)[k] = IF k <= Len(p) THEN p[k] ELSE q[k - Len(p)]
    BY ONLY <2>0, ConcatProperties
  <2>2. Len(p) + Len(q) = n - 1
    BY <1>5, <1>6
  <2> QED
    BY <1>3, <1>5, <2>1, <2>2
<1>8. ASSUME NEW k \in 1..(n - 1) PROVE t[k] = IF k < h THEN l[k] ELSE l[k + 1]
  <2>1. CASE k < h
    BY ONLY <1>0, <1>5, <1>7, <1>8, <2>1
  <2>2. CASE ~(k < h)
    <3>1. PICK m \in 1..(n - h) : m = k - (h - 1) /\ m + h = k + 1
      BY <1>8, <2>2
    <3>2. t[k] = q[m]
      BY ONLY <1>0, <1>7, <1>8, <2>2, <3>1
    <3>3. q[m] = l[k + 1]
      BY <1>6, <3>1
    <3> QED
      BY <2>2, <3>2, <3>3
  <2> QED
    BY <2>1, <2>2
<1> QED
  BY <1>1, <1>2, <1>3, <1>7, <1>8 DEF CutOut

LEMMA PutAt ==
  ASSUME NEW l \in Seq(RowOf), NEW n \in Nat, Len(l) = n - 1, NEW x \in RowOf, NEW h \in 1..n
  PROVE  /\ PutIn(l, h, x) \in Seq(RowOf) /\ Len(PutIn(l, h, x)) = n
         /\ PutIn(l, h, x)[h] = x /\ \A k \in 1..(h - 1) : PutIn(l, h, x)[k] = l[k]
         /\ \A k \in (h + 1)..n : PutIn(l, h, x)[k] = l[k - 1]
<1>a. n \in Nat /\ h \in 1..n
  OBVIOUS
<1>0. PICK m \in Nat : m = n - 1 /\ Len(l) = m
  OBVIOUS
<1>1. PICK p : p = SubSeq(l, 1, h - 1)
  OBVIOUS
<1>2. PICK q : q = SubSeq(l, h, Len(l))
  OBVIOUS
<1>3. PICK s : s = p \o <<x>>
  OBVIOUS
<1>4. PICK t : t = s \o q
  OBVIOUS
<1>5. p \in Seq(RowOf) /\ Len(p) = h - 1 /\ \A k \in 1..(h - 1) : p[k] = l[k]
  BY <1>0, <1>1, PartOf
<1>6. q \in Seq(RowOf) /\ Len(q) = n - h /\ \A k \in 1..(n - h) : q[k] = l[k + h - 1]
  <2>1. h \in 1..(m + 1) /\ m - h + 1 = n - h
    BY <1>0
  <2> QED
    BY <1>0, <1>2, <2>1, PartOf
<1>7. s \in Seq(RowOf) /\ Len(s) = h /\ (\A k \in 1..(h - 1) : s[k] = l[k]) /\ s[h] = x
  <2>1. s = Append(p, x)
    BY <1>3, <1>5, AppendIsConcat
  <2> QED
    BY <1>5, <2>1, AppendProperties
<1>8. t \in Seq(RowOf) /\ Len(t) = n /\ \A k \in 1..n : t[k] = IF k <= h THEN s[k] ELSE q[k - h]
  <2>0. s \in Seq(RowOf) /\ q \in Seq(RowOf)
    BY <1>6, <1>7
  <2>1. /\ s \o q \in Seq(RowOf) /\ Len(s \o q) = Len(s) + Len(q)
        /\ \A k \in 1..(Len(s) + Len(q)) : (s \o q)[k] = IF k <= Len(s) THEN s[k] ELSE q[k - Len(s)]
    BY ONLY <2>0, ConcatProperties
  <2>2. Len(s) + Len(q) = n
    BY <1>6, <1>7
  <2> QED
    BY <1>4, <1>7, <2>1, <2>2
<1>9. t[h] = x /\ \A k \in 1..(h - 1) : t[k] = l[k]
  <2>1. h \in 1..n /\ h <= h /\ \A k \in 1..(h - 1) : k \in 1..n /\ k <= h
    BY <1>a
  <2> QED
    BY ONLY <1>7, <1>8, <2>1
<1>10. ASSUME NEW k \in (h + 1)..n PROVE t[k] = l[k - 1]
  <2>1. PICK i \in 1..(n - h) : i = k - h /\ i + h - 1 = k - 1
    BY <1>10
  <2>2. k \in 1..n /\ ~(k <= h)
    BY <1>a, <1>10
  <2>3. t[k] = q[i]
    BY ONLY <1>8, <2>1, <2>2
  <2>4. q[i] = l[k - 1]
    BY <1>6, <2>1
  <2> QED
    BY <2>3, <2>4
<1> QED
  BY <1>1, <1>2, <1>3, <1>4, <1>8, <1>9, <1>10 DEF PutIn

\* The places up to i among all but h, counted.
LEMMA PlacesCount ==
  ASSUME NEW n \in Nat, NEW h \in Nat, NEW i \in 1..n
  PROVE  Cardinality({j \in 1..n \ {h} : j <= i}) = IF h \in 1..i THEN i - 1 ELSE i
<1>1. {j \in 1..n \ {h} : j <= i} = (1..i) \ {h}
  OBVIOUS
<1>2. IsFiniteSet(1..i) /\ Cardinality(1..i) = i
  BY FS_Interval
<1> QED
  BY <1>1, <1>2, FS_RemoveElement

LEMMA WithoutIs ==
  ASSUME NEW l, Whole(l), NEW id
  PROVE  /\ Whole(Without(l, id))
         /\ \A k : Of(Without(l, id), k) = IF k = id THEN {} ELSE Of(l, k)
         /\ \A a, b : ListAfter(Without(l, id), a, b) <=> ListAfter(l, a, b) /\ a # id /\ b # id
<1>1. PICK n \in Nat : n = Len(l)
  BY WholeIs
<1>2. DOMAIN l = 1..n /\ \A i \in 1..n : l[i] \in RowOf
  BY <1>1, WholeIs
<1>3. PICK h \in 0..n : IF id \in Ids(l) THEN h \in 1..n /\ l[h].id = id ELSE h = 0
  BY <1>2 DEF Ids
<1>4. {i \in DOMAIN l : l[i].id # id} = 1..n \ {h}
  BY <1>2, <1>3 DEF Ids, Whole
<1>5. PICK m \in Nat : m = IF h = 0 THEN n ELSE n - 1
  BY <1>3
<1>6. Cardinality(1..n \ {h}) = m
  <2>1. IsFiniteSet(1..n) /\ Cardinality(1..n) = n
    BY FS_Interval
  <2>2. Cardinality(1..n \ {h}) = IF h \in 1..n THEN Cardinality(1..n) - 1 ELSE Cardinality(1..n)
    BY <2>1, FS_RemoveElement
  <2> QED
    BY <1>3, <1>5, <2>1, <2>2
<1> DEFINE was(k) == IF h = 0 \/ k < h THEN k ELSE k + 1
           nth(k) == CHOOSE i \in 1..n \ {h} : Cardinality({j \in 1..n \ {h} : j <= i}) = k
<1>7. \A k \in 1..m : nth(k) = was(k)
  <2> SUFFICES ASSUME NEW k \in 1..m PROVE nth(k) = was(k)
    OBVIOUS
  <2>1. was(k) \in 1..n \ {h} /\ (IF h \in 1..was(k) THEN was(k) - 1 ELSE was(k)) = k
    BY <1>3, <1>5
  <2>2. \A i \in 1..n \ {h} : (IF h \in 1..i THEN i - 1 ELSE i) = k => i = was(k)
    BY <1>3, <1>5
  <2>3. \A i \in 1..n \ {h} : Cardinality({j \in 1..n \ {h} : j <= i}) = k <=> i = was(k)
    BY <2>1, <2>2, PlacesCount
  <2> HIDE DEF was
  <2> QED
    BY <2>1, <2>3
<1>8. PICK t : t = [k \in 1..m |-> l[was(k)]]
  OBVIOUS
<1>9. Without(l, id) = t
  <2>0. Without(l, id) = RowsAt(l, 1..n \ {h})
    BY <1>4 DEF Without
  <2>1. Without(l, id) = [k \in 1..Cardinality(1..n \ {h}) |-> l[nth(k)]]
    BY <2>0 DEF RowsAt
  <2> HIDE DEF nth, was
  <2> QED
    BY <1>6, <1>7, <1>8, <2>1
<1>10. \A k \in 1..m : was(k) \in 1..n
  BY <1>3, <1>5
<1>11. t \in [1..m -> RowOf]
  BY <1>2, <1>8, <1>10
<1>12. t \in Seq(RowOf) /\ Len(t) = m
  <2>1. t \in Seq(RowOf) /\ DOMAIN t = 1..m
    BY <1>11, SeqDef
  <2> QED
    BY <2>1, LenProperties
<1>13. CASE h = 0
  <2>1. t = l
    <3>1. l \in [1..n -> RowOf]
      BY <1>2 DEF Whole
    <3> QED
      BY <1>5, <1>8, <1>13, <3>1
  <2>2. id \notin Ids(l)
    BY <1>3, <1>13
  <2>3. \A k : Of(l, k) = IF k = id THEN {} ELSE Of(l, k)
    BY <2>2, OfIs
  <2>4. \A a, b : ListAfter(l, a, b) => a # id /\ b # id
    BY <2>2 DEF ListAfter, Ids
  <2> QED
    BY <1>9, <2>1, <2>3, <2>4
<1>14. CASE h # 0
  <2>1. h \in DOMAIN l /\ l[h].id = id
    BY <1>2, <1>3, <1>14
  <2>2. Len(t) = Len(l) - 1 /\ \A k \in 1..(Len(l) - 1) : t[k] = IF k < h THEN l[k] ELSE l[k + 1]
    BY <1>1, <1>5, <1>8, <1>12, <1>14
  <2>3. /\ Whole(t) /\ RowSet(t) = RowSet(l) \ {l[h]}
        /\ \A a, b : ListAfter(t, a, b) <=> ListAfter(l, a, b) /\ a # id /\ b # id
    BY <1>12, <2>1, <2>2, CutIs
  <2>4. \A x \in RowSet(l) : x = l[h] <=> x.id = id
    BY <2>1, WholeIs
  <2>5. \A k : Of(t, k) = IF k = id THEN {} ELSE Of(l, k)
    BY <2>3, <2>4 DEF Of
  <2> QED
    BY <1>9, <2>3, <2>5
<1> QED
  BY <1>13, <1>14

LEMMA ReplacedIs ==
  ASSUME NEW l, Whole(l), NEW x \in RowOf
  PROVE  /\ Whole(Replaced(l, x))
         /\ \A k : Of(Replaced(l, x), k) = IF k = x.id /\ Of(l, k) # {} THEN {x} ELSE Of(l, k)
         /\ \A a, b : ListAfter(Replaced(l, x), a, b) <=> ListAfter(l, a, b)
<1>1. PICK n \in Nat : n = Len(l)
  BY WholeIs
<1>2. DOMAIN l = 1..n /\ \A i \in 1..n : l[i] \in RowOf
  BY <1>1, WholeIs
<1>3. PICK t : t = Replaced(l, x)
  OBVIOUS
<1>4. t \in [1..n -> RowOf] /\ \A i \in 1..n : t[i] = (IF l[i].id = x.id THEN x ELSE l[i]) /\ t[i].id = l[i].id
  BY <1>2, <1>3 DEF Replaced
<1>5. t \in Seq(RowOf) /\ DOMAIN t = 1..n
  BY <1>4, SeqDef
<1>6. Whole(t)
  BY <1>2, <1>4, <1>5 DEF Whole
<1>7. \A a, b : ListAfter(t, a, b) <=> ListAfter(l, a, b)
  BY <1>2, <1>4, <1>5 DEF ListAfter
<1>8. ASSUME NEW k PROVE Of(t, k) = IF k = x.id /\ Of(l, k) # {} THEN {x} ELSE Of(l, k)
  <2>1. RowSet(t) = {t[i] : i \in 1..n} /\ RowSet(l) = {l[i] : i \in 1..n}
    BY <1>2, <1>5 DEF RowSet
  <2>2. CASE k # x.id
    BY <1>4, <2>1, <2>2 DEF Of
  <2>3. CASE k = x.id
    <3>1. CASE Of(l, k) = {}
      BY <1>4, <2>1, <2>3, <3>1 DEF Of
    <3>2. CASE Of(l, k) # {}
      BY <1>4, <2>1, <2>3, <3>2 DEF Of
    <3> QED
      BY <2>3, <3>1, <3>2
  <2> QED
    BY <2>2, <2>3
<1> QED
  BY <1>3, <1>6, <1>7, <1>8

\* A new row comes last, or first.
LEMMA AppendedRow ==
  ASSUME NEW l, Whole(l), NEW x \in RowOf, x.id \notin Ids(l), NEW t \in {Append(l, x), <<x>> \o l}
  PROVE  /\ Whole(t)
         /\ \A k : Of(t, k) = IF k = x.id THEN {x} ELSE Of(l, k)
         /\ t = Append(l, x) => \A a, b : ListAfter(t, a, b) <=> ListAfter(l, a, b) \/ (a \in Ids(l) /\ b = x.id)
<1>1. PICK n \in Nat : n = Len(l)
  BY WholeIs
<1>2. l \in Seq(RowOf)
  BY DEF Whole
<1>3. \A y \in RowSet(l) : y.id # x.id
  BY WholeIs
<1>4. ASSUME NEW h \in 1..(n + 1), t \in Seq(RowOf), Len(t) = n + 1,
             \A k \in 1..(n + 1) : t[k] = IF k < h THEN l[k] ELSE IF k = h THEN x ELSE l[k - 1]
      PROVE  /\ Whole(t) /\ RowSet(t) = RowSet(l) \cup {x}
             /\ h = n + 1 => \A a, b : ListAfter(t, a, b) <=> ListAfter(l, a, b) \/ (a \in Ids(l) /\ b = x.id)
  <2>1. /\ h \in 1..(Len(l) + 1) /\ Len(t) = Len(l) + 1
        /\ \A k \in 1..(Len(l) + 1) : t[k] = IF k < h THEN l[k] ELSE IF k = h THEN x ELSE l[k - 1]
    BY <1>1, <1>4
  <2>2. /\ Whole(t) /\ RowSet(t) = RowSet(l) \cup {x}
        /\ h = Len(l) + 1 => \A a, b : ListAfter(t, a, b) <=> ListAfter(l, a, b) \/ (a \in Ids(l) /\ b = x.id)
    BY <1>4, <2>1, PutIs
  <2> QED
    BY <1>1, <2>2
<1>5. RowSet(t) = RowSet(l) \cup {x} => \A k : Of(t, k) = IF k = x.id THEN {x} ELSE Of(l, k)
  BY <1>3 DEF Of
<1>6. CASE t = Append(l, x)
  <2>1. t \in Seq(RowOf) /\ Len(t) = n + 1 /\ (\A k \in 1..n : t[k] = l[k]) /\ t[n + 1] = x
    BY <1>1, <1>2, <1>6, AppendProperties
  <2>2. \A k \in 1..(n + 1) : t[k] = IF k < n + 1 THEN l[k] ELSE IF k = n + 1 THEN x ELSE l[k - 1]
    BY <2>1
  <2>3. n + 1 \in 1..(n + 1)
    OBVIOUS
  <2>4. /\ Whole(t) /\ RowSet(t) = RowSet(l) \cup {x}
        /\ \A a, b : ListAfter(t, a, b) <=> ListAfter(l, a, b) \/ (a \in Ids(l) /\ b = x.id)
    BY <1>4, <2>1, <2>2, <2>3
  <2> QED
    BY <1>5, <2>4
<1>7. CASE t = <<x>> \o l /\ t # Append(l, x)
  <2>1. <<x>> \in Seq(RowOf) /\ Len(<<x>>) = 1 /\ <<x>>[1] = x
    OBVIOUS
  <2>2. PICK s : s = <<x>>
    OBVIOUS
  <2>3. s \in Seq(RowOf) /\ Len(s) = 1 /\ s[1] = x
    BY <2>1, <2>2
  <2>4. /\ t \in Seq(RowOf) /\ Len(t) = 1 + n
        /\ \A k \in 1..(1 + n) : t[k] = IF k <= 1 THEN s[k] ELSE l[k - 1]
    BY <1>1, <1>2, <1>7, <2>2, <2>3, ConcatProperties
  <2>5. \A k \in 1..(n + 1) : t[k] = IF k < 1 THEN l[k] ELSE IF k = 1 THEN x ELSE l[k - 1]
    BY <2>3, <2>4
  <2>6. 1 \in 1..(n + 1) /\ Len(t) = n + 1
    BY <2>4
  <2>7. Whole(t) /\ RowSet(t) = RowSet(l) \cup {x}
    BY <1>4, <2>4, <2>5, <2>6
  <2> QED
    BY <1>5, <1>7, <2>7
<1> QED
  BY <1>6, <1>7

\* A row that is dragged to another place.
LEMMA DroppedRow ==
  ASSUME NEW l, Whole(l), NEW i \in DOMAIN l, NEW j \in DOMAIN l, NEW rest, NEW u,
         rest = CutOut(l, i), u = PutIn(rest, j, l[i])
  PROVE  Whole(u) /\ \A k : Of(u, k) = Of(l, k)
<1>0. Whole(l) /\ l \in Seq(RowOf) /\ i \in DOMAIN l
  BY DEF Whole
<1>1. PICK n \in Nat : n = Len(l)
  BY WholeIs
<1>2. i \in 1..n /\ j \in 1..n /\ DOMAIN l = 1..n
  BY <1>1, WholeIs
<1>3. /\ rest \in Seq(RowOf) /\ Len(rest) = n - 1
      /\ \A k \in 1..(n - 1) : rest[k] = IF k < i THEN l[k] ELSE l[k + 1]
  <2>1. rest = CutOut(l, i)
    OBVIOUS
  <2> QED
    BY ONLY <1>0, <1>1, <1>2, <2>1, CutAt
<1>4. Whole(rest) /\ RowSet(rest) = RowSet(l) \ {l[i]}
  <2>1. /\ rest \in Seq(RowOf) /\ Len(rest) = Len(l) - 1
        /\ \A k \in 1..(Len(l) - 1) : rest[k] = IF k < i THEN l[k] ELSE l[k + 1]
    BY <1>1, <1>3
  <2> QED
    BY ONLY <1>0, <2>1, CutIs
<1>5. PICK x : x = l[i]
  OBVIOUS
<1>6. x \in RowOf /\ x \in RowSet(l) /\ x.id \notin Ids(rest)
  <2>1. x \in RowSet(l)
    BY <1>2, <1>5 DEF RowSet
  <2>2. x \in RowOf /\ \A y \in RowSet(l) : y.id = x.id => y = x
    BY ONLY <1>0, <2>1, WholeIs
  <2>3. Ids(rest) = {y.id : y \in RowSet(rest)}
    BY ONLY <1>4, WholeIs
  <2> QED
    BY <1>4, <1>5, <2>1, <2>2, <2>3
<1>7. PICK h \in 1..n : h = j
  BY <1>2
<1>8. Whole(u) /\ RowSet(u) = RowSet(rest) \cup {x}
  <2>1. u = PutIn(rest, h, x)
    BY <1>5, <1>7
  <2>2. Len(rest) = n - 1 /\ rest \in Seq(RowOf) /\ n \in Nat /\ h \in 1..n /\ x \in RowOf
    BY <1>1, <1>3, <1>6, <1>7
  <2>3. u \in Seq(RowOf) /\ Len(u) = n
    BY ONLY <2>1, <2>2, PutAt
  <2>a. PutIn(rest, h, x)[h] = x
    BY ONLY <2>2, PutAt
  <2>b. \A k \in 1..(h - 1) : PutIn(rest, h, x)[k] = rest[k]
    BY ONLY <2>2, PutAt
  <2>c. \A k \in (h + 1)..n : PutIn(rest, h, x)[k] = rest[k - 1]
    BY ONLY <2>2, PutAt
  <2>4. u[h] = x /\ (\A k \in 1..(h - 1) : u[k] = rest[k]) /\ \A k \in (h + 1)..n : u[k] = rest[k - 1]
    BY ONLY <2>1, <2>a, <2>b, <2>c
  <2>5. \A k \in 1..n : u[k] = IF k < h THEN rest[k] ELSE IF k = h THEN x ELSE rest[k - 1]
    BY ONLY <2>2, <2>4
  <2>6. n = Len(rest) + 1
    BY <2>2
  <2>7. /\ u \in Seq(RowOf) /\ Len(u) = Len(rest) + 1 /\ h \in 1..(Len(rest) + 1)
        /\ \A k \in 1..(Len(rest) + 1) : u[k] = IF k < h THEN rest[k] ELSE IF k = h THEN x ELSE rest[k - 1]
    BY ONLY <2>2, <2>3, <2>5, <2>6
  <2> QED
    BY ONLY <1>4, <1>6, <2>7, PutIs, SMTT(60)
<1>9. RowSet(u) = RowSet(l)
  BY <1>4, <1>5, <1>6, <1>8
<1> QED
  BY <1>8, <1>9 DEF Of

\* What the server answers to a load has its rows, in its order.
IsListing(l) ==
    /\ Whole(l) /\ \A id \in Nat : Of(l, id) = Of(rows, id)
    /\ \A a, b \in Ids(rows) : ListAfter(l, a, b) => Precedes(a, b)

SortsFit == sortOf \in [DOMAIN sortOf -> Nat] /\ Ids(rows) \subseteq DOMAIN sortOf

LEMMA ListingIs ==
  ASSUME Whole(rows), SortsFit, NEW l \in Listings
  PROVE  IsListing(l)
<1>1. PICK n \in Nat : n = Len(rows)
  BY WholeIs
<1>2. /\ DOMAIN rows = 1..n /\ l \in [1..n -> RowSet(rows)] /\ RowSet(l) = RowSet(rows)
      /\ \A i, j \in 1..n : i < j => Precedes(l[i].id, l[j].id)
  BY <1>1, WholeIs DEF Listings
<1>3. \A i \in 1..n : l[i] \in RowSet(rows) /\ l[i] \in RowOf /\ l[i].id \in Ids(rows) /\ l[i].id \in Nat
  BY <1>2, WholeIs
<1>4. l \in [1..n -> RowOf]
  BY <1>2, <1>3
<1>5. l \in Seq(RowOf) /\ DOMAIN l = 1..n
  BY <1>4, SeqDef
<1>6. \A id \in Ids(rows) : sortOf[id] \in Nat
  BY DEF SortsFit
<1>7. \A id \in Ids(rows) : ~Precedes(id, id)
  <2> SUFFICES ASSUME NEW id \in Ids(rows) PROVE ~Precedes(id, id)
    OBVIOUS
  <2>1. sortOf[id] \in Nat /\ id \in Nat
    BY <1>6, WholeIs
  <2> QED
    BY <2>1 DEF Precedes
<1>8. Whole(l)
  <2> SUFFICES ASSUME NEW i \in 1..n, NEW j \in 1..n, l[i].id = l[j].id PROVE i = j
    BY <1>5 DEF Whole
  <2>1. ~Precedes(l[i].id, l[j].id) /\ ~Precedes(l[j].id, l[i].id)
    BY <1>3, <1>7
  <2>2. ~(i < j) /\ ~(j < i)
    BY <1>2, <2>1
  <2> QED
    BY <2>2
<1>9. \A a, b : ListAfter(l, a, b) => Precedes(a, b)
  BY <1>2, <1>5 DEF ListAfter
<1> QED
  BY <1>2, <1>8, <1>9 DEF IsListing, Of

Shaped(r) == r = [n |-> r.n, op |-> r.op, id |-> r.id, val |-> r.val, at |-> r.at, before |-> r.before,
                  answer |-> r.answer]

ListsTypeOK ==
    /\ sends \in Nat /\ kind \in Kinds \cup {None}
    /\ \A r \in reqs : Shaped(r) /\ r.n \in 1..sends
    /\ \A q, r \in reqs : q.n = r.n => q = r
    /\ kind = None => list = <<>> /\ reqs = {}

\* The requests about one row, and the row.
ListRowOps == {"add", "delete", "update", "toggle"}
Target(r) == IF r.op = "add" THEN 10 + r.n ELSE r.id

\* A load or a save of the order is alone, and of the others each is about another row.
Apart == \A q, r \in reqs : q # r =>
    q.op \in ListRowOps /\ r.op \in ListRowOps /\ Target(q) # Target(r) /\ {q.op, r.op} # {"add"}

\* The rows of both stand in the server's order, but for those that were added elsewhere.
InOrder == \A a, b \in (Ids(list) \cap Ids(rows)) \ misplaced : ListAfter(list, a, b) => Precedes(a, b)

\* What is in the list, and at the server, of a row while a request about it is under way.
Fits(r) ==
    /\ r.op \in ListRowOps \cup {"load", "order"} /\ r.at \in {"sent", "served", "refused"}
    /\ r.op = "load" /\ r.at = "served" => IsListing(r.answer)
    /\ r.op = "order" => kind \in Ordered /\ orderChanged /\ list = r.before /\ (r.at = "served" => InOrder)
    /\ r.op \in ListRowOps => Target(r) \in 1..(10 + sends)
    /\ r.op = "add" =>
          /\ r.id = None /\ Len(r.before) \in Nat /\ Of(list, Target(r)) = {}
          /\ r.at = "sent" => Of(rows, Target(r)) = {}
          /\ r.at = "refused" /\ Target(r) \notin unsure => Of(rows, Target(r)) = {}
          /\ r.at = "served" =>
                /\ Of(rows, Target(r)) = {Added(r)}
                /\ \A a \in Ids(rows) \ {Target(r)} : Precedes(a, Target(r)) \/ Target(r) \in misplaced
    /\ r.op = "delete" =>
          /\ r.at = "served" => Of(rows, r.id) = {}
          /\ kind # "channels" /\ r.at # "served" /\ r.id \notin unsure => Of(rows, r.id) = Of(list, r.id)
          /\ kind = "channels" => Of(list, r.id) = {}
    /\ r.op \in {"update", "toggle"} =>
          r.val \in Int /\ Of(list, r.id) # {} /\ (r.at = "served" => Of(rows, r.id) = {RowSaved(r)})
    /\ r.op = "update" /\ r.at # "served" /\ r.id \notin unsure => Of(rows, r.id) = Of(list, r.id)
    /\ r.op = "toggle" => kind = "channels" /\ Of(list, r.id) = {RowSaved(r)} /\ r.id \in Ids(r.before)
    /\ r.op = "toggle" \/ (r.op = "delete" /\ kind = "channels") =>
          Whole(r.before) /\ (r.at # "served" /\ r.id \notin unsure => Of(rows, r.id) = Of(r.before, r.id))

\* The rows that nothing is under way for, and of which no answer was lost, are the server's.
Loading == \E r \in reqs : r.op = "load"
Idle(id) == \A r \in reqs : r.op \in ListRowOps => Target(r) # id
RestAgrees == kind # None /\ ~Loading => \A id \in Nat \ unsure : Idle(id) => Of(list, id) = Of(rows, id)
OrderAgrees == kind \in Ordered /\ ~orderChanged /\ ~Loading => InOrder

ListFits ==
    /\ Whole(list) /\ Whole(rows) /\ Ids(list) \cup Ids(rows) \subseteq 1..(10 + sends) /\ SortsFit
    /\ Apart /\ (\A r \in reqs : Fits(r)) /\ RestAgrees /\ OrderAgrees

\* One row changes, in the list or at the server, with the request about it.
LEMMA ListRowChanges ==
  ASSUME ListsTypeOK, ListFits, NEW T \in 1..(10 + sends'), NEW S \in SUBSET reqs, NEW N,
         reqs' = S \cup N, kind' = kind, kind # None, orderChanged' = orderChanged, sends' \in Nat, sends <= sends',
         \A q \in S : q.op \in ListRowOps /\ Target(q) # T,
         \A q \in reqs \ S : q.op \in ListRowOps /\ Target(q) = T,
         \A p \in N : p.op \in ListRowOps /\ Target(p) = T /\ (Fits(p))' /\ (p.op = "add" => \A q \in S : q.op # "add"),
         \A p, q \in N : p = q,
         Whole(list'), Whole(rows'),
         \A k \in Nat \ {T} : Of(list', k) = Of(list, k) /\ Of(rows', k) = Of(rows, k),
         \A k \in Nat \ {T} : k \in unsure' <=> k \in unsure,
         N = {} => T \in unsure' \/ Of(list', T) = Of(rows', T),
         (\E q \in S : q.op = "add") => Ids(rows') \subseteq Ids(rows) /\ UNCHANGED <<sortOf, misplaced>>,
         SortsFit', OrderAgrees'
  PROVE  ListFits'
<1>1. Whole(list) /\ Whole(rows) /\ sends \in Nat
  BY DEF ListFits, ListsTypeOK
<1>2. \A id : /\ id \in Ids(list) <=> Of(list, id) # {}
              /\ id \in Ids(rows) <=> Of(rows, id) # {}
              /\ id \in Ids(list') <=> Of(list', id) # {}
              /\ id \in Ids(rows') <=> Of(rows', id) # {}
  BY <1>1, OfIs
<1>3. Ids(list') \subseteq Nat /\ Ids(rows') \subseteq Nat
  BY WholeIs
<1>4. Ids(list)' \cup Ids(rows)' \subseteq 1..(10 + sends')
  <2>1. \A id \in Ids(list') \cup Ids(rows') : id = T \/ id \in Ids(list) \cup Ids(rows)
    BY <1>2, <1>3
  <2>2. \A id \in Ids(list) \cup Ids(rows) : id \in 1..(10 + sends')
    BY <1>1 DEF ListFits
  <2> QED
    BY <2>1, <2>2
<1>5. Apart'
  <2>1. \A q, r \in S : q # r => Target(q) # Target(r) /\ {q.op, r.op} # {"add"}
    BY DEF ListFits, Apart
  <2>2. \A q \in S, p \in N : Target(q) # Target(p) /\ {q.op, p.op} # {"add"}
    OBVIOUS
  <2>3. \A r \in reqs' : r.op \in ListRowOps /\ (r \in S \/ r \in N)
    OBVIOUS
  <2>4. ASSUME NEW q \in reqs', NEW r \in reqs', q # r
        PROVE  Target(q) # Target(r) /\ {q.op, r.op} # {"add"}
    <3>1. CASE q \in S /\ r \in S
      BY <2>1, <2>4, <3>1
    <3>2. CASE q \in S /\ r \in N
      BY <2>2, <3>2
    <3>3. CASE q \in N /\ r \in S
      <4>1. Target(r) # Target(q) /\ {r.op, q.op} # {"add"}
        BY <2>2, <3>3
      <4> QED
        BY <4>1
    <3>4. CASE q \in N /\ r \in N
      BY <2>4, <3>4
    <3> QED
      BY <2>3, <2>4, <3>1, <3>2, <3>3, <3>4
  <2> QED
    BY ONLY <2>3, <2>4 DEF Apart
<1>6. ASSUME NEW q \in S PROVE (Fits(q))'
  <2>1. q.op \in ListRowOps /\ Target(q) # T /\ Fits(q) /\ Target(q) \in 1..(10 + sends)
    BY <1>6 DEF ListFits, Fits
  <2>2. Target(q) \in Nat /\ Target(q) \in 1..(10 + sends')
    BY <1>1, <2>1
  <2>3. Of(list', Target(q)) = Of(list, Target(q)) /\ Of(rows', Target(q)) = Of(rows, Target(q))
    BY <2>1, <2>2
  <2>4. CASE q.op = "add"
    <3>1. Ids(rows') \subseteq Ids(rows) /\ UNCHANGED <<sortOf, misplaced>>
      BY <1>6, <2>4
    <3>2. \A a, b : Precedes(a, b)' <=> Precedes(a, b)
      BY <3>1 DEF Precedes
    <3>3. q.at = "served" =>
             \A a \in Ids(rows') \ {Target(q)} : Precedes(a, Target(q))' \/ Target(q) \in misplaced'
      BY <2>1, <2>4, <3>1, <3>2 DEF Fits
    <3>4. Target(q) \in unsure' <=> Target(q) \in unsure
      BY <2>1, <2>2
    <3> QED
      BY <2>1, <2>2, <2>3, <2>4, <3>3, <3>4 DEF Fits
  <2>5. CASE q.op \in {"delete", "update", "toggle"}
    <3>1. q.id = Target(q) /\ (q.id \in unsure' <=> q.id \in unsure)
      BY <2>1, <2>2, <2>5 DEF Target
    <3> QED
      BY <2>1, <2>2, <2>3, <2>5, <3>1 DEF Fits
  <2> QED
    BY <2>1, <2>4, <2>5 DEF ListRowOps
<1>7. \A r \in reqs' : (Fits(r))'
  BY <1>6
<1>8. RestAgrees'
  <2> SUFFICES ASSUME NEW id \in Nat \ unsure', Idle(id)' PROVE Of(list', id) = Of(rows', id)
    BY DEF RestAgrees
  <2>1. CASE id = T
    BY <2>1 DEF Idle
  <2>2. CASE id # T
    <3>1. Idle(id)
      BY <2>2 DEF Idle
    <3>2. ~Loading
      BY DEF Loading, ListRowOps
    <3> QED
      BY <2>2, <3>1, <3>2 DEF ListFits, RestAgrees
  <2> QED
    BY <2>1, <2>2
<1> QED
  BY <1>4, <1>5, <1>7, <1>8 DEF ListFits

\* What a request becomes.
Served(r, w) == [r EXCEPT !.at = "served", !.answer = w]
Refused(r) == [r EXCEPT !.at = "refused"]
Reload(r) == [r EXCEPT !.op = "load", !.at = "sent"]

LEMMA Remade ==
  ASSUME NEW r, Shaped(r)
  PROVE  /\ \A w : /\ Served(r, w).n = r.n /\ Served(r, w).op = r.op /\ Served(r, w).id = r.id
                   /\ Served(r, w).val = r.val /\ Served(r, w).at = "served" /\ Served(r, w).before = r.before
                   /\ Served(r, w).answer = w /\ Shaped(Served(r, w))
         /\ Refused(r).n = r.n /\ Refused(r).op = r.op /\ Refused(r).id = r.id /\ Refused(r).val = r.val
         /\ Refused(r).at = "refused" /\ Refused(r).before = r.before /\ Shaped(Refused(r))
         /\ Reload(r).n = r.n /\ Reload(r).op = "load" /\ Reload(r).at = "sent" /\ Shaped(Reload(r))
<1>1. PICK n, o, i, v, t, b, w :
         r = [n |-> n, op |-> o, id |-> i, val |-> v, at |-> t, before |-> b, answer |-> w]
  BY DEF Shaped
<1>2. ASSUME NEW x
      PROVE  Served(r, x) = [n |-> n, op |-> o, id |-> i, val |-> v, at |-> "served", before |-> b, answer |-> x]
  <2>1. PICK m : m = [r EXCEPT !.at = "served"]
    OBVIOUS
  <2>2. m = [n |-> n, op |-> o, id |-> i, val |-> v, at |-> "served", before |-> b, answer |-> w]
    BY <1>1, <2>1
  <2>3. Served(r, x) = [m EXCEPT !.answer = x]
    BY <1>1, <2>1 DEF Served
  <2> QED
    BY <2>2, <2>3
<1>3. Refused(r) = [n |-> n, op |-> o, id |-> i, val |-> v, at |-> "refused", before |-> b, answer |-> w]
  BY <1>1 DEF Refused
<1>4. Reload(r) = [n |-> n, op |-> "load", id |-> i, val |-> v, at |-> "sent", before |-> b, answer |-> w]
  <2>1. PICK m : m = [r EXCEPT !.op = "load"]
    OBVIOUS
  <2>2. m = [n |-> n, op |-> "load", id |-> i, val |-> v, at |-> t, before |-> b, answer |-> w]
    BY <1>1, <2>1
  <2>3. Reload(r) = [m EXCEPT !.at = "sent"]
    BY <1>1, <2>1 DEF Reload
  <2> QED
    BY <2>2, <2>3
<1>5. ASSUME NEW x
      PROVE  /\ Served(r, x).n = r.n /\ Served(r, x).op = r.op /\ Served(r, x).id = r.id
             /\ Served(r, x).val = r.val /\ Served(r, x).at = "served" /\ Served(r, x).before = r.before
             /\ Served(r, x).answer = x /\ Shaped(Served(r, x))
  <2>1. PICK z : z = Served(r, x)
    OBVIOUS
  <2>2. z = [n |-> n, op |-> o, id |-> i, val |-> v, at |-> "served", before |-> b, answer |-> x]
    BY <1>2, <2>1
  <2>3. /\ z.n = r.n /\ z.op = r.op /\ z.id = r.id /\ z.val = r.val /\ z.at = "served" /\ z.before = r.before
        /\ z.answer = x /\ Shaped(z)
    BY <1>1, <2>2 DEF Shaped
  <2> QED
    BY <2>1, <2>3
<1>6. /\ Refused(r).n = r.n /\ Refused(r).op = r.op /\ Refused(r).id = r.id /\ Refused(r).val = r.val
      /\ Refused(r).at = "refused" /\ Refused(r).before = r.before /\ Shaped(Refused(r))
  BY <1>1, <1>3 DEF Shaped
<1>7. Reload(r).n = r.n /\ Reload(r).op = "load" /\ Reload(r).at = "sent" /\ Shaped(Reload(r))
  BY <1>1, <1>4 DEF Shaped
<1> QED
  BY <1>5, <1>6, <1>7

\* A load and a save of the order are alone; the others are about other rows.
LEMMA Company ==
  ASSUME ListFits, NEW r \in reqs
  PROVE  /\ r.op \in {"load", "order"} => reqs = {r}
         /\ r.op \in ListRowOps => \A q \in reqs \ {r} :
                q.op \in ListRowOps /\ Target(q) # Target(r) /\ (r.op = "add" => q.op # "add")
         /\ r.op \in ListRowOps \/ r.op = "load" \/ r.op = "order"
         /\ r.op \in ListRowOps => Target(r) \in 1..(10 + sends)
<1>1. Apart /\ Fits(r)
  BY DEF ListFits
<1>2. \A q \in reqs : q # r => q.op \in ListRowOps /\ r.op \in ListRowOps /\ Target(q) # Target(r) /\ {q.op, r.op} # {"add"}
  BY <1>1 DEF Apart
<1>3. r.op \in {"load", "order"} => r.op \notin ListRowOps
  BY DEF ListRowOps
<1> QED
  BY <1>1, <1>2, <1>3 DEF Fits

\* A change of a row that overtakes nothing.
LEMMA SentAmong ==
  ASSUME ListsTypeOK, ListFits, NEW op, op \in ListRowOps, NEW id, \A q \in reqs : ~Clash(op, id, q)
  PROVE  /\ \A q \in reqs : q.op \in ListRowOps /\ q.id # id
         /\ id \in Ids(list) => \A q \in reqs : Target(q) # id
         /\ ~Loading
         /\ kind # None /\ id \in Ids(list) /\ id \notin unsure => Of(list, id) = Of(rows, id)
<1>1. \A q \in reqs : q.op \in ListRowOps /\ q.id # id
  BY Company DEF Clash
<1>2. ASSUME id \in Ids(list), NEW q \in reqs PROVE Target(q) # id
  <2>1. CASE q.op = "add"
    <3>1. Of(list, Target(q)) = {}
      BY <2>1 DEF ListFits, Fits
    <3> QED
      BY <1>2, <3>1, OfIs DEF ListFits
  <2> QED
    BY <1>1, <2>1 DEF Target
<1>3. ~Loading
  BY <1>1 DEF Loading, ListRowOps
<1>4. ASSUME kind # None, id \in Ids(list), id \notin unsure PROVE Of(list, id) = Of(rows, id)
  <2>1. Idle(id)
    BY <1>2, <1>4 DEF Idle
  <2>2. id \in Nat
    BY <1>4, WholeIs DEF ListFits
  <2> QED
    BY <1>3, <1>4, <2>1, <2>2 DEF ListFits, RestAgrees
<1> QED
  BY <1>1, <1>2, <1>3, <1>4

\* Nothing but a load is under way.
LEMMA LoadAlone ==
  ASSUME NEW r, reqs' = {r}, r.op = "load", r.at \in {"sent", "served", "refused"},
         r.at = "served" => (IsListing(r.answer))', Whole(list'), Whole(rows'), SortsFit',
         Ids(list') \cup Ids(rows') \subseteq 1..(10 + sends')
  PROVE  ListFits'
<1>1. (Fits(r))'
  BY DEF Fits, ListRowOps
<1>2. Apart' /\ RestAgrees' /\ OrderAgrees'
  BY DEF Apart, RestAgrees, OrderAgrees, Loading
<1> QED
  BY <1>1, <1>2 DEF ListFits

\* Nothing but a save of the order is under way, or nothing at all, and the rows are the same.
LEMMA OrderAlone ==
  ASSUME NEW S, reqs' = S, \A q, r \in S : q = r,
         \A r \in S : r.op = "order" /\ r.at \in {"sent", "served", "refused"} /\ kind' \in Ordered /\ orderChanged'
                         /\ list' = r.before /\ (r.at = "served" => InOrder'),
         orderChanged' \/ InOrder', SortsFit',
         Whole(list'), Whole(rows'), \A id \in Nat \ unsure' : Of(list', id) = Of(rows', id),
         Ids(list') \cup Ids(rows') \subseteq 1..(10 + sends')
  PROVE  ListFits'
<1>1. ASSUME NEW r \in S PROVE (Fits(r))'
  BY <1>1 DEF Fits, ListRowOps
<1>2. Apart' /\ RestAgrees' /\ OrderAgrees'
  BY DEF Apart, RestAgrees, OrderAgrees
<1> QED
  BY <1>1, <1>2 DEF ListFits

\* A request that is sent.
LEMMA Sent ==
  ASSUME ListsTypeOK, NEW op, NEW id, NEW val, NEW before, Send(op, id, val, before)
  PROVE  /\ sends \in Nat /\ sends' = sends + 1 /\ sends' \in Nat /\ 1..(10 + sends) \subseteq 1..(10 + sends')
         /\ unsure' = unsure
         /\ ~overtaken' => ~overtaken /\ \A q \in reqs : ~Clash(op, id, q)
         /\ \E s : /\ reqs' = reqs \cup {s} /\ Shaped(s) /\ s.n = sends + 1 /\ s.op = op /\ s.id = id
                   /\ s.val = val /\ s.at = "sent" /\ s.before = before
<1>1. /\ sends \in Nat /\ sends' = sends + 1 /\ sends' \in Nat /\ 1..(10 + sends) \subseteq 1..(10 + sends')
      /\ unsure' = unsure
  BY DEF ListsTypeOK, Send
<1>2. ~overtaken' => ~overtaken /\ \A q \in reqs : ~Clash(op, id, q)
  BY ZenonT(30) DEF Send
<1>3. PICK s : s = [n |-> sends + 1, op |-> op, id |-> id, val |-> val, at |-> "sent", before |-> before,
                    answer |-> None]
  OBVIOUS
<1>4. reqs' = reqs \cup {s}
  BY <1>3 DEF Send
<1>5. Shaped(s) /\ s.n = sends + 1 /\ s.op = op /\ s.id = id /\ s.val = val /\ s.at = "sent" /\ s.before = before
  BY <1>3 DEF Shaped
<1> QED
  BY <1>1, <1>2, <1>4, <1>5

LEMMA LoadFits ==
  ASSUME ListsTypeOK, ~overtaken => ListFits, Whole(list), Whole(rows), ~overtaken', SortsFit,
         Ids(list) \cup Ids(rows) \subseteq 1..(10 + sends), Send("load", 0, 0, list), UNCHANGED <<server, list>>
  PROVE  ListFits'
<1>1. reqs = {}
  BY Sent DEF Clash
<1>2. PICK s : reqs' = reqs \cup {s} /\ s.op = "load" /\ s.at = "sent"
  BY Sent
<1>3. UNCHANGED <<rows, sortOf>> /\ SortsFit'
  BY DEF SortsFit, server
<1>4. Ids(list') \cup Ids(rows') \subseteq 1..(10 + sends')
  BY <1>3, Sent
<1> QED
  BY <1>1, <1>2, <1>3, <1>4, LoadAlone

\* The order is what it was when the list and the server are.
LEMMA OrderStays ==
  ASSUME OrderAgrees, ~Loading, UNCHANGED <<kind, orderChanged, list, server>>
  PROVE  OrderAgrees'
<1>1. UNCHANGED <<rows, sortOf, misplaced>>
  BY DEF server
<1>2. kind \in Ordered /\ ~orderChanged => InOrder
  BY DEF OrderAgrees
<1>3. InOrder => InOrder'
  BY <1>1 DEF InOrder, Precedes
<1> QED
  BY <1>2, <1>3 DEF OrderAgrees

LEMMA AddFits ==
  ASSUME ListsTypeOK, ~overtaken => ListFits, ~overtaken', AddRow
  PROVE  ListFits'
<1>1. /\ Send("add", None, 1, list) /\ kind # None /\ UNCHANGED <<kind, rows, list, orderChanged>>
      /\ UNCHANGED <<server, sortOf, misplaced>>
  BY DEF AddRow, server
<1>2. sends \in Nat /\ sends' = sends + 1 /\ unsure' = unsure /\ ~overtaken /\ \A q \in reqs : ~Clash("add", None, q)
  BY <1>1, Sent
<1>3. ListFits
  BY <1>2
<1>4. PICK s : reqs' = reqs \cup {s} /\ s.n = sends + 1 /\ s.op = "add" /\ s.id = None /\ s.at = "sent" /\ s.before = list
  BY <1>1, Sent
<1>5. PICK T \in 1..(10 + sends') : T = 10 + (sends + 1)
  BY <1>2
<1>6. Target(s) = T
  BY <1>4, <1>5 DEF Target
<1>7. \A q \in reqs : q.op \in ListRowOps /\ q.id # None /\ Target(q) \in 1..(10 + sends)
  BY <1>2, <1>3, SentAmong, Company DEF ListRowOps
<1>8. \A q \in reqs : q.op # "add" /\ Target(q) # T
  <2>1. \A q \in reqs : q.op # "add"
    BY <1>3, <1>7 DEF ListFits, Fits
  <2> QED
    BY <1>2, <1>5, <1>7, <2>1
<1>9. T \notin Ids(list) /\ T \notin Ids(rows) /\ Of(list, T) = {} /\ Of(rows, T) = {}
  <2>1. T \notin Ids(list) /\ T \notin Ids(rows)
    BY <1>2, <1>3, <1>5 DEF ListFits
  <2> QED
    BY <1>3, <2>1, OfIs DEF ListFits
<1>10. (Fits(s))'
  <2>1. Len(s.before) \in Nat
    BY <1>3, <1>4, WholeIs DEF ListFits
  <2> QED
    BY <1>1, <1>4, <1>6, <1>9, <2>1 DEF Fits, ListRowOps
<1>11. OrderAgrees'
  <2>1. ~Loading
    BY <1>7 DEF Loading, ListRowOps
  <2> QED
    BY <1>1, <1>3, <2>1, OrderStays DEF ListFits
<1> QED
  <2>1. /\ Whole(list') /\ Whole(rows') /\ (\A k \in Nat \ {T} : Of(list', k) = Of(list, k) /\ Of(rows', k) = Of(rows, k))
        /\ SortsFit' /\ (\A k \in Nat \ {T} : k \in unsure' <=> k \in unsure)
        /\ Ids(rows') \subseteq Ids(rows) /\ UNCHANGED <<sortOf, misplaced>>
    BY <1>1, <1>2, <1>3 DEF ListFits, SortsFit
  <2>2. \A q \in reqs : q.op \in ListRowOps /\ Target(q) # T /\ q.op # "add"
    BY <1>7, <1>8
  <2>3. s.op \in ListRowOps
    BY <1>4 DEF ListRowOps
  <2>4. PICK N : N = {s}
    OBVIOUS
  <2>5. /\ reqs' = reqs \cup N /\ N # {} /\ \A p, q \in N : p = q
        /\ \A p \in N : p.op \in ListRowOps /\ Target(p) = T /\ (Fits(p))' /\ \A q \in reqs : q.op # "add"
    BY <1>4, <1>6, <1>10, <2>2, <2>3, <2>4
  <2>6. sends' \in Nat /\ sends <= sends' /\ kind' = kind /\ kind # None /\ orderChanged' = orderChanged
    BY <1>1, <1>2
  <2> QED
    BY <1>3, <1>11, <2>1, <2>2, <2>5, <2>6, ListRowChanges

\* A change of a row of the list.
LEMMA ChangeSent ==
  ASSUME ListsTypeOK, ~overtaken => ListFits, ~overtaken', NEW op \in {"delete", "update", "toggle"},
         NEW id \in Ids(list), NEW val, Send(op, id, val, list), UNCHANGED <<kind, server, orderChanged>>,
         Whole(list) => /\ Whole(list') /\ \A k \in Nat \ {id} : Of(list', k) = Of(list, k)
                        /\ kind # "channels" => list' = list,
         op = "delete" => (Whole(list) /\ kind = "channels" => Of(list', id) = {}),
         op \in {"update", "toggle"} => (Whole(list) => val \in Int /\ Of(list', id) # {}),
         op = "update" => list' = list,
         op = "toggle" => kind = "channels" /\ (Whole(list) => Of(list', id) = {[id |-> id, val |-> val]})
  PROVE  ListFits'
<1>1. kind # None
  BY DEF ListsTypeOK, Ids
<1>2. op \in ListRowOps /\ op # "add" /\ op \notin {"load", "order"}
  BY DEF ListRowOps
<1>3. sends \in Nat /\ sends' = sends + 1 /\ unsure' = unsure /\ ~overtaken /\ \A q \in reqs : ~Clash(op, id, q)
  BY Sent
<1>4. ListFits /\ Whole(list) /\ Whole(rows) /\ UNCHANGED <<rows, sortOf, misplaced>>
  BY <1>3 DEF ListFits, server
<1>5. PICK s : /\ reqs' = reqs \cup {s} /\ s.n = sends + 1 /\ s.op = op /\ s.id = id /\ s.val = val
               /\ s.at = "sent" /\ s.before = list
  BY Sent
<1>6. /\ \A q \in reqs : q.op \in ListRowOps /\ Target(q) # id
      /\ ~Loading /\ (id \notin unsure => Of(list, id) = Of(rows, id)) /\ Of(list, id) # {}
  <2>1. Of(list, id) # {}
    BY <1>4, OfIs
  <2> QED
    BY <1>1, <1>2, <1>3, <1>4, <2>1, SentAmong
<1>7. id \in 1..(10 + sends') /\ Target(s) = id
  <2>1. id \in 1..(10 + sends)
    BY <1>4 DEF ListFits
  <2> QED
    BY <1>2, <1>3, <1>5, <2>1 DEF Target
<1>8. (Fits(s))'
  <2>1. RowSaved(s) = [id |-> id, val |-> val]
    BY <1>5 DEF RowSaved
  <2>2. CASE op = "delete"
    BY <1>3, <1>4, <1>5, <1>6, <1>7, <2>2 DEF Fits, ListRowOps
  <2>3. CASE op = "update"
    BY <1>3, <1>4, <1>5, <1>6, <1>7, <2>3 DEF Fits, ListRowOps
  <2>4. CASE op = "toggle"
    BY <1>3, <1>4, <1>5, <1>6, <1>7, <2>1, <2>4 DEF Fits, ListRowOps
  <2> QED
    BY <2>2, <2>3, <2>4
<1>9. OrderAgrees'
  <2>1. CASE kind = "channels"
    BY <2>1 DEF OrderAgrees, Ordered
  <2>2. CASE kind # "channels"
    BY <1>4, <1>6, <2>2, OrderStays DEF ListFits
  <2> QED
    BY <2>1, <2>2
<1> QED
  <2>1. /\ Whole(list') /\ Whole(rows')
        /\ \A k \in Nat \ {id} : Of(list', k) = Of(list, k) /\ Of(rows', k) = Of(rows, k)
        /\ SortsFit' /\ \A k \in Nat \ {id} : k \in unsure' <=> k \in unsure
    BY <1>3, <1>4 DEF ListFits, SortsFit
  <2>2. PICK N : N = {s}
    OBVIOUS
  <2>3. /\ reqs' = reqs \cup N /\ N # {} /\ \A p, q \in N : p = q
        /\ \A p \in N : p.op \in ListRowOps /\ Target(p) = id /\ (Fits(p))' /\ p.op # "add"
    BY <1>2, <1>5, <1>7, <1>8, <2>2
  <2>4. sends' \in Nat /\ sends <= sends' /\ kind' = kind /\ kind # None /\ orderChanged' = orderChanged
    BY <1>1, <1>3
  <2>5. Ids(rows') \subseteq Ids(rows) /\ UNCHANGED <<sortOf, misplaced>>
    BY <1>4
  <2> QED
    BY <1>4, <1>6, <1>7, <1>9, <2>1, <2>3, <2>4, <2>5, ListRowChanges

LEMMA DeleteFits ==
  ASSUME ListsTypeOK, ~overtaken => ListFits, ~overtaken', NEW id \in Ids(list), DeleteRow(id)
  PROVE  ListFits'
<1>1. /\ Send("delete", id, 0, list) /\ UNCHANGED <<kind, server, orderChanged>>
      /\ kind = "channels" => list' = Without(list, id)
      /\ kind # "channels" => list' = list
  BY DEF DeleteRow
<1>2. Whole(list) => /\ Whole(list') /\ \A k \in Nat \ {id} : Of(list', k) = Of(list, k)
                     /\ kind # "channels" => list' = list
  BY <1>1, WithoutIs
<1>3. Whole(list) /\ kind = "channels" => Of(list', id) = {}
  BY <1>1, WithoutIs
<1> QED
  BY <1>1, <1>2, <1>3, ChangeSent

LEMMA ToggleFits ==
  ASSUME ListsTypeOK, ~overtaken => ListFits, ~overtaken', NEW id \in Ids(list), ToggleChannel(id)
  PROVE  ListFits'
<1>1. PICK x : x = Row(list, id)
  OBVIOUS
<1>2. PICK y : y = [x EXCEPT !.val = 3 - x.val]
  OBVIOUS
<1>3. /\ Send("toggle", id, 3 - x.val, list) /\ UNCHANGED <<kind, server, orderChanged>>
      /\ kind = "channels" /\ list' = Replaced(list, y)
  BY <1>1, <1>2 DEF ToggleChannel
<1>4. ASSUME Whole(list)
      PROVE  /\ Whole(list') /\ \A k \in Nat \ {id} : Of(list', k) = Of(list, k)
             /\ 3 - x.val \in Int /\ Of(list', id) = {[id |-> id, val |-> 3 - x.val]}
  <2>1. x \in RowOf /\ x.id = id
    BY <1>1, <1>4, OfIs
  <2>2. PICK i \in Nat, v \in Int : x = [id |-> i, val |-> v]
    BY <2>1 DEF RowOf
  <2>3. y = [id |-> id, val |-> 3 - x.val] /\ y \in RowOf /\ y.id = id /\ 3 - x.val \in Int
    BY <1>2, <2>1, <2>2 DEF RowOf
  <2>4. Of(list, id) # {}
    BY <1>4, OfIs
  <2> QED
    BY <1>3, <1>4, <2>3, <2>4, ReplacedIs
<1> QED
  BY <1>3, <1>4, ChangeSent

LEMMA UpdateFits ==
  ASSUME ListsTypeOK, ~overtaken => ListFits, ~overtaken', NEW id \in Ids(list), UpdateRow(id)
  PROVE  ListFits'
<1>1. Send("update", id, 3 - Row(list, id).val, list) /\ UNCHANGED <<kind, server, list, orderChanged>>
  BY DEF UpdateRow
<1>2. ASSUME Whole(list) PROVE 3 - Row(list, id).val \in Int /\ Of(list', id) # {}
  <2>1. Row(list, id) \in RowOf /\ Of(list, id) # {}
    BY <1>2, OfIs
  <2> QED
    BY <1>1, <2>1 DEF RowOf
<1> QED
  BY <1>1, <1>2, ChangeSent

LEMMA MovedRow ==
  ASSUME NEW l, Whole(l), NEW i \in DOMAIN l, NEW j \in DOMAIN l
  PROVE  Whole(PutIn(CutOut(l, i), j, l[i])) /\ \A k : Of(PutIn(CutOut(l, i), j, l[i]), k) = Of(l, k)
<1>1. PICK rest : rest = CutOut(l, i)
  OBVIOUS
<1>2. PICK u : u = PutIn(rest, j, l[i])
  OBVIOUS
<1>4. Whole(u) /\ \A k : Of(u, k) = Of(l, k)
  BY <1>1, <1>2, DroppedRow
<1> QED
  BY <1>1, <1>2, <1>4

LEMMA DropFits ==
  ASSUME ListsTypeOK, ~overtaken => ListFits, ~overtaken', NEW i \in DOMAIN list, NEW j \in DOMAIN list, DropRow(i, j)
  PROVE  ListFits'
<1>1. PICK rest : rest = SubSeq(list, 1, i - 1) \o SubSeq(list, i + 1, Len(list))
  OBVIOUS
<1>2. list' = SubSeq(rest, 1, j - 1) \o <<list[i]>> \o SubSeq(rest, j, Len(rest))
  BY <1>1 DEF DropRow
<1>3. /\ kind \in Ordered /\ orderChanged' /\ sends' = sends + 1 /\ UNCHANGED <<kind, rows, sortOf, reqs, unsure>>
      /\ ~overtaken /\ reqs = {}
  BY DEF DropRow, server
<1>4. /\ ListFits /\ Whole(list) /\ Whole(rows) /\ Ids(list) \cup Ids(rows) \subseteq 1..(10 + sends)
      /\ SortsFit'
  BY <1>3 DEF ListFits, SortsFit
<1>5. Whole(list') /\ \A k : Of(list', k) = Of(list, k)
  <2>1. list' = PutIn(CutOut(list, i), j, list[i])
    BY ONLY <1>1, <1>2 DEF PutIn, CutOut
  <2>2. Whole(list) /\ i \in DOMAIN list /\ j \in DOMAIN list
    BY <1>4
  <2> QED
    BY ONLY <2>1, <2>2, MovedRow
<1>6. \A k \in Nat \ unsure : Of(list, k) = Of(rows, k)
  <2>1. kind # None
    BY <1>3, ListsAssumption DEF Kinds
  <2> QED
    BY <1>3, <1>4, <2>1 DEF ListFits, RestAgrees, Loading, Idle
<1>7. Ids(list') \cup Ids(rows') \subseteq 1..(10 + sends')
  <2>1. \A k : k \in Ids(list') <=> k \in Ids(list)
    BY ONLY <1>4, <1>5, OfIs
  <2>2. sends \in Nat
    BY DEF ListsTypeOK
  <2> QED
    BY <1>3, <1>4, <2>1, <2>2
<1> QED
  BY <1>3, <1>4, <1>5, <1>6, <1>7, OrderAlone

LEMMA SaveFits ==
  ASSUME ListsTypeOK, ~overtaken => ListFits, ~overtaken', SaveOrder
  PROVE  ListFits'
<1>1. /\ Send("order", 0, 0, list) /\ kind \in Ordered /\ orderChanged
      /\ UNCHANGED <<kind, rows, sortOf, list, orderChanged>>
  BY DEF SaveOrder, server
<1>2. reqs = {} /\ ~overtaken /\ unsure' = unsure
  BY <1>1, Sent DEF Clash
<1>3. /\ ListFits /\ Whole(list) /\ Whole(rows) /\ Ids(list) \cup Ids(rows) \subseteq 1..(10 + sends)
      /\ SortsFit'
  BY <1>1, <1>2 DEF ListFits, SortsFit
<1>4. PICK s : reqs' = {s} /\ s.op = "order" /\ s.at = "sent" /\ s.before = list
  BY <1>1, <1>2, Sent
<1>5. \A k \in Nat \ unsure : Of(list, k) = Of(rows, k)
  <2>1. kind # None
    BY <1>1, ListsAssumption DEF Kinds
  <2> QED
    BY <1>2, <1>3, <2>1 DEF ListFits, RestAgrees, Loading, Idle
<1>6. Ids(list') \cup Ids(rows') \subseteq 1..(10 + sends')
  BY <1>1, <1>3, Sent
<1> QED
  BY <1>1, <1>2, <1>3, <1>4, <1>5, <1>6, OrderAlone

\* The dialogs change no list and no request.
LEMMA DialogFits ==
  ASSUME ListFits, UNCHANGED <<kind, server, list, reqs, orderChanged, sends, unsure>>
  PROVE  ListFits'
<1>0. UNCHANGED <<rows, sortOf, misplaced>>
  BY DEF server
<1>1. Whole(list') /\ Whole(rows') /\ Ids(list') \cup Ids(rows') \subseteq 1..(10 + sends') /\ SortsFit'
  BY <1>0 DEF ListFits, SortsFit
<1>2. Apart'
  BY DEF ListFits, Apart
<1>3. ASSUME NEW r \in reqs PROVE (Fits(r))'
  <2>1. Fits(r)
    BY DEF ListFits
  <2>2. (InOrder' <=> InOrder) /\ (\A l : (IsListing(l))' <=> IsListing(l)) /\ \A a, b : (Precedes(a, b))' <=> Precedes(a, b)
    BY <1>0 DEF InOrder, IsListing, Precedes
  <2> QED
    BY <1>0, <2>1, <2>2 DEF Fits
<1>4. RestAgrees'
  BY <1>0 DEF ListFits, RestAgrees, Loading, Idle
<1>5. OrderAgrees'
  BY <1>0 DEF ListFits, OrderAgrees, InOrder, Precedes, Loading
<1> QED
  BY <1>1, <1>2, <1>3, <1>4, <1>5 DEF ListFits

\* A request becomes another one about the same row.
LEMMA RowGoesOn ==
  ASSUME ListsTypeOK, ListFits, NEW r \in reqs, r.op \in ListRowOps, NEW s, reqs' = (reqs \ {r}) \cup {s},
         s.op = r.op, Target(s) = Target(r), (Fits(s))', UNCHANGED <<kind, list, orderChanged, sends>>,
         Whole(rows'), \A k \in Nat \ {Target(r)} : Of(rows', k) = Of(rows, k),
         \A k \in Nat \ {Target(r)} : k \in unsure' <=> k \in unsure,
         r.op # "add" => Ids(rows') \subseteq Ids(rows) /\ UNCHANGED <<sortOf, misplaced>>,
         SortsFit', OrderAgrees'
  PROVE  ListFits'
<1>1. kind # None /\ sends \in Nat /\ Whole(list)
  BY DEF ListsTypeOK, ListFits
<1>2. PICK S \in SUBSET reqs : S = reqs \ {r}
  OBVIOUS
<1>3. PICK N : N = {s}
  OBVIOUS
<1>4. PICK T \in 1..(10 + sends) : T = Target(r)
  BY Company
<1>5. \A q \in S : q.op \in ListRowOps /\ Target(q) # T /\ (r.op = "add" => q.op # "add")
  BY <1>2, <1>4, Company
<1>6. \A q \in reqs \ S : q.op \in ListRowOps /\ Target(q) = T
  BY <1>2, <1>4
<1>7. \A p \in N : p.op \in ListRowOps /\ Target(p) = T /\ (Fits(p))' /\ (p.op = "add" => \A q \in S : q.op # "add")
  BY <1>3, <1>4, <1>5
<1>8. (\E q \in S : q.op = "add") => Ids(rows') \subseteq Ids(rows) /\ UNCHANGED <<sortOf, misplaced>>
  BY <1>5
<1>9. /\ reqs' = S \cup N /\ (\A p, q \in N : p = q) /\ N # {} /\ kind' = kind /\ orderChanged' = orderChanged
      /\ sends' \in Nat /\ sends <= sends' /\ T \in 1..(10 + sends') /\ Whole(list')
      /\ \A k \in Nat \ {T} : Of(list', k) = Of(list, k) /\ Of(rows', k) = Of(rows, k) /\ (k \in unsure' <=> k \in unsure)
  BY <1>1, <1>2, <1>3, <1>4
<1> QED
  BY <1>1, <1>5, <1>6, <1>7, <1>8, <1>9, ListRowChanges

\* The order after it was saved, and after a row was added.
LEMMA SavedOrder ==
  ASSUME Whole(list), Whole(rows), SortsFit, NEW r, r.before = list, sortOf' = SortSaved(r),
         misplaced' = misplaced \ Ids(list), UNCHANGED <<list, rows>>
  PROVE  SortsFit' /\ InOrder'
<1>1. PICK n \in Nat : n = Len(list)
  BY WholeIs
<1>2. DOMAIN list = 1..n /\ \A i, j \in 1..n : list[i].id = list[j].id => i = j
  BY <1>1, WholeIs DEF Whole
<1>3. \A i \in 1..n : list[i].id \in Ids(list) /\ Place(list, list[i].id) = i
  <2> SUFFICES ASSUME NEW i \in 1..n PROVE list[i].id \in Ids(list) /\ Place(list, list[i].id) = i
    OBVIOUS
  <2>1. \A j \in 1..n : list[j].id = list[i].id <=> j = i
    BY <1>2
  <2> QED
    BY <1>2, <2>1 DEF Place, Ids
<1>4. \A id \in DOMAIN sortOf : sortOf[id] \in Nat
  BY DEF SortsFit
<1>5. PICK new : new = [id \in DOMAIN sortOf |-> IF id \in Ids(list) THEN Place(list, id) - 1 ELSE sortOf[id]]
  OBVIOUS
<1>6. sortOf' = new
  BY <1>5 DEF SortSaved
<1>7. \A id \in Ids(list) : \E i \in 1..n : list[i].id = id
  BY <1>2 DEF Ids
<1>8. \A id \in DOMAIN sortOf : new[id] \in Nat
  <2> SUFFICES ASSUME NEW id \in DOMAIN sortOf PROVE new[id] \in Nat
    OBVIOUS
  <2>1. CASE id \in Ids(list)
    <3>1. PICK i \in 1..n : list[i].id = id /\ Place(list, id) = i
      BY <1>3, <1>7, <2>1
    <3>2. new[id] = i - 1
      BY <1>5, <2>1, <3>1
    <3> QED
      BY <3>2
  <2>2. CASE id \notin Ids(list)
    BY <1>4, <1>5, <2>2
  <2> QED
    BY <2>1, <2>2
<1>9. SortsFit'
  BY <1>5, <1>6, <1>8 DEF SortsFit
<1>10. ASSUME NEW a \in Ids(list) \cap Ids(rows), NEW b \in Ids(list) \cap Ids(rows), ListAfter(list, a, b)
       PROVE  (Precedes(a, b))'
  <2>1. PICK i \in 1..n, j \in 1..n : i < j /\ list[i].id = a /\ list[j].id = b
    BY <1>2, <1>10 DEF ListAfter
  <2>2. new[a] = i - 1 /\ new[b] = j - 1
    BY <1>3, <1>5, <2>1 DEF SortsFit
  <2>3. new[a] < new[b]
    BY <2>1, <2>2
  <2> QED
    BY <1>6, <2>3 DEF Precedes
<1>11. InOrder'
  BY <1>10 DEF InOrder
<1> QED
  BY <1>9, <1>11

LEMMA AddedOrder ==
  ASSUME Whole(rows), Whole(list), SortsFit, NEW r, NEW T \in Nat, Added(r) = [id |-> T, val |-> 1], T \notin Ids(rows),
         T \notin Ids(list), Whole(rows'), \A a : a \in Ids(rows') <=> a \in Ids(rows) \/ a = T,
         Len(r.before) \in Nat, sortOf' = SortAdded(r),
         misplaced' = IF ~ComesLast(T)' THEN misplaced \cup {T} ELSE misplaced, list' = list
  PROVE  /\ SortsFit' /\ (InOrder => InOrder')
         /\ \A a \in Ids(rows') \ {T} : (Precedes(a, T))' \/ T \in misplaced'
<1>1. PICK new : new = [i \in DOMAIN sortOf \cup {T} |-> IF i = T THEN Len(r.before) ELSE sortOf[i]]
  OBVIOUS
<1>2. sortOf' = new
  BY <1>1 DEF SortAdded
<1>3. \A id \in DOMAIN sortOf : sortOf[id] \in Nat
  BY DEF SortsFit
<1>4. SortsFit'
  BY <1>1, <1>2, <1>3 DEF SortsFit
<1>5. \A a, b \in Ids(rows) : (Precedes(a, b))' <=> Precedes(a, b)
  BY <1>1, <1>2 DEF Precedes, SortsFit
<1>6. misplaced \subseteq misplaced'
  OBVIOUS
<1>7. InOrder => InOrder'
  BY <1>5, <1>6 DEF InOrder
<1>8. ASSUME NEW a \in Ids(rows') \ {T}, T \notin misplaced' PROVE (Precedes(a, T))'
  <2>1. (ComesLast(T))'
    BY <1>8
  <2>2. PICK x \in RowSet(rows') : x.id = a
    BY ONLY <1>8 DEF Ids, RowSet
  <2> QED
    BY <1>8, <2>1, <2>2 DEF ComesLast
<1> QED
  BY <1>4, <1>7, <1>8

LEMMA ServeFits ==
  ASSUME ListsTypeOK, ~overtaken => ListFits, ~overtaken', NEW r \in reqs, ServeRequest(r)
  PROVE  ListFits'
<1>1. UNCHANGED <<kind, list, orderChanged, sends, overtaken, unsure>> /\ r.at = "sent" /\ ~Missing(r)
  BY DEF ServeRequest
<1>2. ListFits /\ Whole(list) /\ Whole(rows) /\ SortsFit /\ Fits(r) /\ kind # None /\ Shaped(r)
  BY <1>1 DEF ListFits, ListsTypeOK
<1>3. PICK w \in IF r.op = "load" THEN Listings ELSE {None} :
          reqs' = (reqs \ {r}) \cup {[r EXCEPT !.at = "served", !.answer = w]}
  BY DEF ServeRequest
<1>4. PICK s : s = Served(r, w)
  OBVIOUS
<1>5. reqs' = (reqs \ {r}) \cup {s}
  BY <1>3, <1>4 DEF Served
<1>6. /\ s.n = r.n /\ s.op = r.op /\ s.id = r.id /\ s.val = r.val /\ s.at = "served"
      /\ s.before = r.before /\ s.answer = w
  BY <1>2, <1>4, Remade
<1>7. Target(s) = Target(r) /\ RowSaved(s) = RowSaved(r) /\ Added(s) = Added(r)
  BY <1>6 DEF Target, RowSaved, Added
<1>8. CASE r.op = "load"
  <2>1. UNCHANGED <<rows, sortOf>> /\ reqs = {r} /\ w \in Listings
    BY <1>2, <1>3, <1>8, Company DEF ServeRequest
  <2>2. IsListing(w)
    BY <1>2, <2>1, ListingIs
  <2>3. (IsListing(s.answer))'
    BY <1>6, <2>1, <2>2 DEF IsListing, Precedes
  <2>4. reqs' = {s}
    BY <1>5, <2>1
  <2>5. Ids(list') \cup Ids(rows') \subseteq 1..(10 + sends') /\ SortsFit'
    BY <1>1, <1>2, <2>1 DEF ListFits, SortsFit
  <2> QED
    BY <1>1, <1>2, <1>6, <1>8, <2>1, <2>3, <2>4, <2>5, LoadAlone
<1>9. CASE r.op = "order"
  <2>1. /\ UNCHANGED rows /\ sortOf' = SortSaved(r) /\ misplaced' = misplaced \ Ids(r.before)
        /\ reqs = {r} /\ r.before = list /\ kind \in Ordered /\ orderChanged
    BY <1>2, <1>9, Company DEF ServeRequest, Fits
  <2>2. SortsFit' /\ InOrder'
    BY <1>1, <1>2, <2>1, SavedOrder
  <2>3. \A k \in Nat \ unsure' : Of(list', k) = Of(rows', k)
    BY <1>1, <1>2, <1>9, <2>1 DEF ListFits, RestAgrees, Loading, Idle, ListRowOps
  <2>4. Ids(list') \cup Ids(rows') \subseteq 1..(10 + sends') /\ Whole(list') /\ Whole(rows')
    BY <1>1, <1>2, <2>1 DEF ListFits
  <2>5. PICK S : S = {s}
    OBVIOUS
  <2>6. /\ reqs' = S /\ \A q, p \in S : q = p
        /\ \A p \in S : /\ p.op = "order" /\ p.at \in {"sent", "served", "refused"} /\ kind' \in Ordered
                        /\ orderChanged' /\ list' = p.before /\ (p.at = "served" => InOrder')
    BY <1>1, <1>5, <1>6, <1>9, <2>1, <2>2, <2>5
  <2> QED
    BY <2>2, <2>3, <2>4, <2>6, OrderAlone
<1>10. CASE r.op \in ListRowOps
  <2>0. r.op \notin {"load", "order"} /\ ~Loading
    <3>1. r.op # "load" /\ r.op # "order"
      BY <1>10 DEF ListRowOps
    <3>2. ~Loading
      BY <1>2, <1>10, Company DEF Loading, ListRowOps
    <3> QED
      BY <3>1, <3>2
  <2>1. PICK T \in 1..(10 + sends) : T = Target(r) /\ T \in Nat
    BY <1>2, <1>10, Company DEF ListsTypeOK
  <2>2. /\ Whole(rows') /\ (\A k \in Nat \ {T} : Of(rows', k) = Of(rows, k))
        /\ r.op # "add" => Ids(rows') \subseteq Ids(rows) /\ UNCHANGED <<sortOf, misplaced>>
        /\ (Fits(s))' /\ SortsFit'
        /\ OrderAgrees => OrderAgrees'
    <3>1. CASE r.op = "add"
      <4>1. T = 10 + r.n /\ Of(rows, T) = {} /\ Of(list, T) = {} /\ r.id = None
        BY <1>1, <1>2, <2>1, <3>1 DEF Fits, Target
      <4>2. PICK x : x = [id |-> T, val |-> 1]
        OBVIOUS
      <4>a. x \in RowOf
        BY <2>1, <4>2 DEF RowOf
      <4>3. x.id = T /\ x = Added(r) /\ rows' = Append(rows, x)
        BY <3>1, <4>1, <4>2 DEF ServeRequest, Added
      <4>4. T \notin Ids(rows) /\ T \notin Ids(list)
        BY <1>2, <4>1, OfIs
      <4>5. Whole(rows') /\ \A k : Of(rows', k) = IF k = T THEN {x} ELSE Of(rows, k)
        <5>1. PICK t : t = rows'
          OBVIOUS
        <5>2. Whole(rows) /\ x.id \notin Ids(rows) /\ t \in {Append(rows, x), <<x>> \o rows}
          BY <1>2, <4>3, <4>4, <5>1
        <5>3. Whole(t) /\ (\A k : Of(t, k) = IF k = x.id THEN {x} ELSE Of(rows, k))
          BY ONLY <4>a, <5>2, AppendedRow
        <5> QED
          BY ONLY <4>3, <5>1, <5>3
      <4>6. \A a : a \in Ids(rows') <=> a \in Ids(rows) \/ a = T
        <5>2. \A a : a \in Ids(rows') <=> Of(rows', a) # {}
          BY <4>5, OfIs
        <5>3. \A a : a \in Ids(rows) <=> Of(rows, a) # {}
          BY <1>2, OfIs
        <5>4. {x} # {}
          OBVIOUS
        <5> QED
          BY ONLY <4>5, <5>2, <5>3, <5>4
      <4>8. /\ SortsFit' /\ (InOrder => InOrder')
            /\ \A a \in Ids(rows') \ {T} : (Precedes(a, T))' \/ T \in misplaced'
        <5>1. /\ sortOf' = SortAdded(r)
              /\ misplaced' = IF ~ComesLast(T)' THEN misplaced \cup {T} ELSE misplaced
          BY <3>1, <4>3 DEF ServeRequest
        <5>2. Len(r.before) \in Nat
          BY <1>2, <3>1, WholeIs DEF Fits
        <5> QED
          BY <1>1, <1>2, <2>1, <4>2, <4>3, <4>4, <4>5, <4>6, <5>1, <5>2, AddedOrder
      <4>7. (Fits(s))'
        <5>1. Of(rows', T) = {Added(s)}
          BY <1>7, <4>3, <4>5
        <5>2. Of(list', T) = {} /\ T \in 1..(10 + sends')
          BY <1>1, <4>1
        <5> QED
          BY <1>6, <1>7, <2>1, <3>1, <4>1, <4>8, <5>1, <5>2 DEF Fits, ListRowOps
      <4>9. OrderAgrees => OrderAgrees'
        BY <1>1, <2>0, <4>8 DEF OrderAgrees
      <4> QED
        BY <3>1, <4>5, <4>7, <4>8, <4>9
    <3>2. CASE r.op \in {"delete", "update", "toggle"}
      <4>1. T = r.id /\ UNCHANGED <<sortOf, misplaced>> /\ T \in Ids(rows)
        BY <1>1, <2>1, <3>2 DEF Target, ServeRequest, Missing
      <4>2. /\ Whole(rows') /\ Ids(rows') \subseteq Ids(rows) /\ (\A k \in Nat \ {T} : Of(rows', k) = Of(rows, k))
            /\ Of(rows', T) = IF r.op = "delete" THEN {} ELSE {RowSaved(r)}
        <5>1. CASE r.op = "delete"
          <6>1. rows' = Without(rows, T)
            BY <4>1, <5>1 DEF ServeRequest
          <6>2. Whole(rows') /\ (\A k : Of(rows', k) = IF k = T THEN {} ELSE Of(rows, k))
            BY <1>2, <6>1, WithoutIs
          <6>3. \A a : a \in Ids(rows') => a \in Ids(rows)
            BY <1>2, <6>2, OfIs
          <6> QED
            BY <5>1, <6>2, <6>3
        <5>2. CASE r.op \in {"update", "toggle"}
          <6>1. rows' = Replaced(rows, RowSaved(r)) /\ r.val \in Int
            BY <1>2, <5>2 DEF ServeRequest, Fits
          <6>2. PICK x \in RowOf : x = RowSaved(r) /\ x.id = T
            BY <2>1, <4>1, <6>1 DEF RowSaved, RowOf
          <6>3. Of(rows, T) # {}
            BY <1>2, <4>1, OfIs
          <6>4. Whole(rows') /\ (\A k : Of(rows', k) = IF k = T THEN {x} ELSE Of(rows, k))
            BY <1>2, <6>1, <6>2, <6>3, ReplacedIs
          <6>5. \A a : a \in Ids(rows') => a \in Ids(rows)
            BY <1>2, <6>3, <6>4, OfIs
          <6> QED
            BY <5>2, <6>2, <6>4, <6>5
        <5> QED
          BY <3>2, <5>1, <5>2
      <4>3. SortsFit'
        BY <1>2, <4>1, <4>2 DEF SortsFit
      <4>4. OrderAgrees => OrderAgrees'
        <5>1. InOrder => InOrder'
          BY <1>1, <4>1, <4>2 DEF InOrder, Precedes
        <5> QED
          BY <1>1, <2>0, <5>1 DEF OrderAgrees
      <4>5. (Fits(s))'
        <5>1. /\ kind = "channels" => (r.op = "delete" => Of(list', T) = {}) /\ (r.op # "update" => Whole(s.before))
              /\ r.op # "delete" => s.val \in Int /\ Of(list', T) # {}
              /\ r.op = "toggle" => /\ kind' = "channels" /\ Of(list', T) = {RowSaved(s)} /\ T \in Ids(s.before)
              /\ T \in 1..(10 + sends')
          BY <1>1, <1>2, <1>6, <1>7, <3>2, <4>1 DEF Fits
        <5> QED
          BY <1>1, <1>6, <1>7, <2>1, <3>2, <4>1, <4>2, <5>1 DEF Fits, ListRowOps
      <4> QED
        BY <4>1, <4>2, <4>3, <4>4, <4>5
    <3> QED
      BY <1>10, <3>1, <3>2 DEF ListRowOps
  <2>3. OrderAgrees
    BY <1>2 DEF ListFits
  <2>4. \A k \in Nat \ {Target(r)} : k \in unsure' <=> k \in unsure
    BY <1>1
  <2> QED
    BY <1>1, <1>2, <1>5, <1>6, <1>7, <1>10, <2>1, <2>2, <2>3, <2>4, RowGoesOn
<1> QED
  BY <1>2, <1>8, <1>9, <1>10, Company

\* A request is refused, or served and its answer lost.
LEMMA RefuseFits ==
  ASSUME ListsTypeOK, ~overtaken => ListFits, ~overtaken', NEW r \in reqs, RefuseRequest(r) \/ LoseAnswer(r)
  PROVE  ListFits'
<1>1. UNCHANGED <<kind, server, list, orderChanged, sends, overtaken>> /\ UNCHANGED <<rows, sortOf, misplaced>>
  BY DEF RefuseRequest, LoseAnswer, server
<1>2. ListFits /\ Whole(list) /\ Whole(rows) /\ SortsFit /\ Fits(r) /\ kind # None /\ Shaped(r)
  BY <1>1 DEF ListFits, ListsTypeOK
<1>3. PICK s : s = Refused(r)
  OBVIOUS
<1>4. reqs' = (reqs \ {r}) \cup {s}
  BY <1>3 DEF RefuseRequest, LoseAnswer, Refused
<1>5. /\ s.n = r.n /\ s.op = r.op /\ s.id = r.id /\ s.val = r.val /\ s.at = "refused" /\ s.before = r.before
  BY <1>2, <1>3, Remade
<1>6. Target(s) = Target(r) /\ RowSaved(s) = RowSaved(r)
  BY <1>5 DEF Target, RowSaved
<1>7. Ids(list') \cup Ids(rows') \subseteq 1..(10 + sends') /\ Whole(list') /\ Whole(rows') /\ SortsFit'
  BY <1>1, <1>2 DEF ListFits, SortsFit
<1>a. \/ unsure' = unsure /\ r.at = "sent"
      \/ unsure' = unsure \cup Changes(r) /\ r.at = "served"
  BY DEF RefuseRequest, LoseAnswer
<1>b. /\ r.op \in {"load", "order"} => Changes(r) = {}
      /\ r.op \in ListRowOps => Changes(r) = {Target(r)}
  BY DEF Changes, Target, Added, ListRowOps
<1>8. CASE r.op = "load"
  <2>1. reqs' = {s}
    BY <1>2, <1>4, <1>8, Company
  <2> QED
    BY <1>5, <1>7, <1>8, <2>1, LoadAlone
<1>9. CASE r.op = "order"
  <2>1. reqs = {r} /\ reqs' = {s} /\ r.before = list /\ kind \in Ordered /\ orderChanged /\ unsure' = unsure
    BY <1>2, <1>4, <1>9, <1>a, <1>b, Company DEF Fits
  <2>2. \A k \in Nat \ unsure' : Of(list', k) = Of(rows', k)
    BY <1>1, <1>2, <1>9, <2>1 DEF ListFits, RestAgrees, Loading, Idle, ListRowOps
  <2>3. kind' \in Ordered /\ orderChanged' /\ list' = s.before /\ s.op = "order"
    BY <1>1, <1>5, <1>9, <2>1
  <2> QED
    <3>1. PICK S : S = {s}
      OBVIOUS
    <3>2. /\ reqs' = S /\ \A q, p \in S : q = p
          /\ \A p \in S : /\ p.op = "order" /\ p.at \in {"sent", "served", "refused"} /\ kind' \in Ordered
                          /\ orderChanged' /\ list' = p.before /\ (p.at = "served" => InOrder')
      BY <1>5, <2>1, <2>3, <3>1
    <3> QED
      BY <1>7, <2>2, <2>3, <3>2, OrderAlone
<1>10. CASE r.op \in ListRowOps
  <2>0. /\ Target(r) \in unsure' \/ (r.at = "sent" /\ (Target(r) \notin unsure))
        /\ \A k \in Nat \ {Target(r)} : k \in unsure' <=> k \in unsure
    BY <1>10, <1>a, <1>b
  <2>1. (Fits(s))'
    <3>1. CASE r.op = "add"
      BY <1>1, <1>2, <1>5, <1>6, <2>0, <3>1 DEF Fits, ListRowOps
    <3>2. CASE r.op \in {"delete", "update", "toggle"}
      <4>1. Target(r) = r.id
        BY <3>2 DEF Target
      <4> QED
        BY <1>1, <1>2, <1>5, <1>6, <2>0, <3>2, <4>1 DEF Fits, ListRowOps
    <3> QED
      BY <1>10, <3>1, <3>2 DEF ListRowOps
  <2>2. OrderAgrees'
    <3>1. OrderAgrees /\ ~Loading
      BY <1>2, <1>10, Company DEF ListFits, Loading, ListRowOps
    <3> QED
      BY <1>1, <3>1, OrderStays
  <2>4. \A k \in Nat \ {Target(r)} : Of(rows', k) = Of(rows, k)
    BY <1>1
  <2> QED
    BY <1>1, <1>2, <1>4, <1>5, <1>6, <1>7, <1>10, <2>0, <2>1, <2>2, <2>4, RowGoesOn
<1> QED
  BY <1>2, <1>8, <1>9, <1>10, Company

\* A request about a row ends, and the row is in the list what it is at the server.
LEMMA RowSettles ==
  ASSUME ListsTypeOK, ListFits, NEW r \in reqs, r.op \in ListRowOps, reqs' = reqs \ {r},
         UNCHANGED <<kind, server, orderChanged, sends>>, Whole(list'),
         \A k \in Nat \ {Target(r)} : Of(list', k) = Of(list, k) /\ (k \in unsure' <=> k \in unsure),
         Target(r) \in unsure' \/ Of(list', Target(r)) = Of(rows, Target(r)),
         kind \in Ordered => \A a, b \in (Ids(list') \cap Ids(rows)) \ misplaced :
            ListAfter(list', a, b) => Precedes(a, b) \/ (ListAfter(list, a, b) /\ a \in Ids(list) /\ b \in Ids(list))
  PROVE  ListFits'
<1>1. kind # None /\ sends \in Nat /\ Whole(rows) /\ SortsFit' /\ UNCHANGED <<rows, sortOf, misplaced>>
  BY DEF ListsTypeOK, ListFits, SortsFit, server
<1>2. PICK S \in SUBSET reqs : S = reqs \ {r}
  OBVIOUS
<1>3. PICK N : N = {}
  OBVIOUS
<1>4. PICK T \in 1..(10 + sends) : T = Target(r)
  BY Company
<1>5. \A q \in S : q.op \in ListRowOps /\ Target(q) # T
  BY <1>2, <1>4, Company
<1>6. \A q \in reqs \ S : q.op \in ListRowOps /\ Target(q) = T
  BY <1>2, <1>4
<1>7. OrderAgrees'
  <2>1. ~Loading
    BY Company DEF Loading, ListRowOps
  <2>2. \A a, b : (Precedes(a, b))' <=> Precedes(a, b)
    BY <1>1 DEF Precedes
  <2> SUFFICES ASSUME kind \in Ordered, ~orderChanged, NEW a \in (Ids(list') \cap Ids(rows)) \ misplaced,
                      NEW b \in (Ids(list') \cap Ids(rows)) \ misplaced, ListAfter(list', a, b)
               PROVE  Precedes(a, b)
    BY <1>1, <2>2 DEF OrderAgrees, InOrder
  <2> QED
    BY <2>1 DEF ListFits, OrderAgrees, InOrder
<1>8. Ids(rows') \subseteq Ids(rows) /\ UNCHANGED <<sortOf, misplaced>>
  BY <1>1
<1>9. /\ reqs' = S \cup N /\ (\A p, q \in N : p = q) /\ kind' = kind /\ orderChanged' = orderChanged
      /\ (\A p \in N : p.op \in ListRowOps /\ Target(p) = T /\ (Fits(p))' /\ (p.op = "add" => \A q \in S : q.op # "add"))
      /\ sends' \in Nat /\ sends <= sends' /\ T \in 1..(10 + sends') /\ Whole(rows')
      /\ (\A k \in Nat \ {T} : Of(list', k) = Of(list, k) /\ Of(rows', k) = Of(rows, k) /\ (k \in unsure' <=> k \in unsure))
      /\ T \in unsure' \/ Of(list', T) = Of(rows', T)
  BY <1>1, <1>2, <1>3, <1>4
<1> QED
  BY <1>1, <1>4, <1>5, <1>6, <1>7, <1>8, <1>9, ListRowChanges

LEMMA AddedFits ==
  ASSUME ListsTypeOK, ~overtaken => ListFits, ~overtaken', NEW r \in reqs, AddAnswered(r)
  PROVE  ListFits'
<1>1. /\ UNCHANGED <<kind, server, orderChanged, sends, unsure>> /\ r.op = "add" /\ r.at = "served" /\ reqs' = reqs \ {r}
      /\ ~overtaken /\ ~Forgets(r)
  BY ZenonT(30) DEF AddAnswered
<1>2. ListFits /\ Whole(list) /\ Whole(rows) /\ Fits(r) /\ r.op \in ListRowOps
  BY <1>1 DEF ListFits, ListRowOps
<1>3. PICK T \in 1..(10 + sends) : T = Target(r) /\ T = 10 + r.n
  BY <1>1, <1>2, Company DEF Target
<1>4. PICK x : x = Added(r)
  OBVIOUS
<1>5. x \in RowOf /\ x.id = T
  <2>1. T \in Nat
    BY <1>3 DEF ListsTypeOK
  <2> QED
    BY <1>3, <1>4, <2>1 DEF Added, RowOf
<1>6. /\ Of(list, T) = {} /\ T \notin Ids(list) /\ Of(rows, T) = {x}
      /\ \A a \in Ids(rows) \ {T} : Precedes(a, T) \/ T \in misplaced
  BY <1>1, <1>2, <1>3, <1>4, OfIs DEF Fits
<1>7. PICK t : t = list'
  OBVIOUS
<1>8. t \in {Append(list, x), <<x>> \o list} /\ (kind \in Ordered => t = Append(list, x))
  <2>1. From(r) = list
    BY <1>1 DEF From, Forgets
  <2> QED
    BY <1>1, <1>4, <1>7, <2>1 DEF AddAnswered, Ordered
<1>9. /\ Whole(t) /\ (\A k : Of(t, k) = IF k = T THEN {x} ELSE Of(list, k))
      /\ kind \in Ordered => \A a, b : ListAfter(t, a, b) <=> ListAfter(list, a, b) \/ (a \in Ids(list) /\ b = T)
  <2>1. Whole(list) /\ x.id \notin Ids(list)
    BY <1>2, <1>5, <1>6
  <2>2. /\ Whole(t) /\ (\A k : Of(t, k) = IF k = x.id THEN {x} ELSE Of(list, k))
        /\ t = Append(list, x) => \A a, b : ListAfter(t, a, b) <=> ListAfter(list, a, b) \/ (a \in Ids(list) /\ b = x.id)
    BY ONLY <1>5, <1>8, <2>1, AppendedRow
  <2> QED
    BY ONLY <1>5, <1>8, <2>2
<1>10. \A a : a \in Ids(t) <=> a \in Ids(list) \/ a = T
  <2>1. \A a : a \in Ids(t) <=> Of(t, a) # {}
    BY <1>9, OfIs
  <2>2. \A a : a \in Ids(list) <=> Of(list, a) # {}
    BY <1>2, OfIs
  <2>3. {x} # {}
    OBVIOUS
  <2> QED
    BY ONLY <1>9, <2>1, <2>2, <2>3
<1>11. ASSUME kind \in Ordered, NEW a \in (Ids(t) \cap Ids(rows)) \ misplaced,
              NEW b \in (Ids(t) \cap Ids(rows)) \ misplaced, ListAfter(t, a, b)
       PROVE  Precedes(a, b) \/ (ListAfter(list, a, b) /\ a \in Ids(list) /\ b \in Ids(list))
  <2>1. CASE ListAfter(list, a, b)
    <3>1. a \in Ids(list) /\ b \in Ids(list)
      BY <2>1 DEF ListAfter, Ids
    <3> QED
      BY <2>1, <3>1
  <2>2. CASE a \in Ids(list) /\ b = T
    BY <1>6, <1>11, <2>2
  <2> QED
    BY <1>9, <1>11, <2>1, <2>2
<1> QED
  BY <1>1, <1>2, <1>3, <1>6, <1>7, <1>9, <1>11, RowSettles

LEMMA DeletedFits ==
  ASSUME ListsTypeOK, ~overtaken => ListFits, ~overtaken', NEW r \in reqs, DeleteAnswered(r)
  PROVE  ListFits'
<1>1. /\ UNCHANGED <<kind, server, orderChanged, sends>> /\ unsure' = unsure \ {r.id} /\ r.op = "delete" /\ r.at = "served"
      /\ ~overtaken /\ ~Forgets(r) /\ (kind = "connections" => reqs = {r})
  BY ZenonT(30) DEF DeleteAnswered
<1>2. ListFits /\ Whole(list) /\ Whole(rows) /\ Fits(r) /\ r.op \in ListRowOps /\ Shaped(r)
  BY <1>1 DEF ListFits, ListsTypeOK, ListRowOps
<1>3. Target(r) = r.id /\ r.id \in Nat
  <2>1. Target(r) = r.id /\ Target(r) \in 1..(10 + sends)
    BY <1>1, <1>2, Company DEF Target
  <2> QED
    BY <2>1 DEF ListsTypeOK
<1>4. CASE kind = "connections"
  <2>1. list' = list /\ reqs' = (reqs \ {r}) \cup {Reload(r)}
    BY <1>4 DEF DeleteAnswered, Reload
  <2>2. PICK s : s = Reload(r)
    OBVIOUS
  <2>3. reqs' = {s} /\ s.op = "load" /\ s.at = "sent"
    BY <1>1, <1>2, <1>4, <2>1, <2>2, Remade
  <2>4. Ids(list') \cup Ids(rows') \subseteq 1..(10 + sends') /\ Whole(list') /\ Whole(rows') /\ SortsFit'
    BY <1>1, <1>2, <2>1 DEF ListFits, SortsFit, server
  <2> QED
    BY <2>3, <2>4, LoadAlone
<1>5. CASE kind = "channels"
  <2>1. list' = list /\ reqs' = reqs \ {r}
    BY <1>5 DEF DeleteAnswered
  <2>2. Of(list', Target(r)) = Of(rows, Target(r))
    BY <1>1, <1>2, <1>3, <1>5, <2>1 DEF Fits
  <2> QED
    BY <1>1, <1>2, <1>3, <1>5, <2>1, <2>2, RowSettles DEF Ordered
<1>6. CASE kind \notin {"channels", "connections"}
  <2>1. list' = Without(list, r.id) /\ reqs' = reqs \ {r}
    BY <1>1, <1>6 DEF DeleteAnswered, From, Forgets
  <2>2. /\ Whole(list') /\ (\A k : Of(list', k) = IF k = r.id THEN {} ELSE Of(list, k))
        /\ \A a, b : ListAfter(list', a, b) <=> ListAfter(list, a, b) /\ a # r.id /\ b # r.id
    BY <1>2, <2>1, WithoutIs
  <2>3. Of(list', Target(r)) = Of(rows, Target(r))
    BY <1>1, <1>2, <1>3, <2>2 DEF Fits
  <2>4. \A a, b : ListAfter(list', a, b) => ListAfter(list, a, b) /\ a \in Ids(list) /\ b \in Ids(list)
    <3>1. \A a, b : ListAfter(list, a, b) => a \in Ids(list) /\ b \in Ids(list)
      BY DEF ListAfter, Ids
    <3> QED
      BY <2>2, <3>1
  <2> QED
    BY <1>1, <1>2, <1>3, <2>1, <2>2, <2>3, <2>4, RowSettles
<1> QED
  BY <1>4, <1>5, <1>6

LEMMA UpdatedFits ==
  ASSUME ListsTypeOK, ~overtaken => ListFits, ~overtaken', NEW r \in reqs, UpdateAnswered(r)
  PROVE  ListFits'
<1>1. /\ UNCHANGED <<kind, server, orderChanged, sends>> /\ unsure' = unsure \ {r.id} /\ r.op \in {"update", "toggle"} /\ r.at = "served"
      /\ reqs' = reqs \ {r} /\ ~overtaken /\ ~Forgets(r)
  BY ZenonT(30) DEF UpdateAnswered
<1>2. ListFits /\ Whole(list) /\ Whole(rows) /\ Fits(r) /\ r.op \in ListRowOps
  BY <1>1 DEF ListFits, ListRowOps
<1>3. Target(r) = r.id /\ r.id \in Nat
  <2>1. Target(r) = r.id /\ Target(r) \in 1..(10 + sends)
    BY <1>1, <1>2, Company DEF Target
  <2> QED
    BY <2>1 DEF ListsTypeOK
<1>4. PICK x \in RowOf : x = RowSaved(r) /\ x.id = r.id
  <2>1. r.val \in Int
    BY <1>1, <1>2 DEF Fits
  <2>2. PICK x : x = RowSaved(r)
    OBVIOUS
  <2>3. x \in RowOf /\ x.id = r.id
    BY <1>3, <2>1, <2>2 DEF RowSaved, RowOf
  <2> QED
    BY <2>2, <2>3
<1>5. list' = Replaced(list, x)
  BY <1>1, <1>4 DEF UpdateAnswered, From, Forgets
<1>6. Of(list, r.id) # {} /\ Of(rows, r.id) = {x}
  BY <1>1, <1>2, <1>4 DEF Fits
<1>7. /\ Whole(list') /\ (\A k : Of(list', k) = IF k = r.id THEN {x} ELSE Of(list, k))
      /\ \A a, b : ListAfter(list', a, b) <=> ListAfter(list, a, b)
  BY <1>2, <1>4, <1>5, <1>6, ReplacedIs
<1>8. \A a, b : ListAfter(list', a, b) => ListAfter(list, a, b) /\ a \in Ids(list) /\ b \in Ids(list)
  <2>1. \A a, b : ListAfter(list, a, b) => a \in Ids(list) /\ b \in Ids(list)
    BY DEF ListAfter, Ids
  <2> QED
    BY <1>7, <2>1
<1> QED
  BY <1>1, <1>2, <1>3, <1>6, <1>7, <1>8, RowSettles

LEMMA OrderedFits ==
  ASSUME ListsTypeOK, ~overtaken => ListFits, ~overtaken', NEW r \in reqs, OrderAnswered(r)
  PROVE  ListFits'
<1>1. /\ UNCHANGED <<kind, rows, sortOf, misplaced, list, sends, overtaken, unsure>>
      /\ r.op = "order" /\ r.at = "served" /\ reqs' = reqs \ {r}
  BY DEF OrderAnswered, server
<1>2. ListFits /\ Fits(r)
  BY <1>1 DEF ListFits
<1>3. reqs = {r} /\ reqs' = {} /\ kind \in Ordered /\ InOrder
  BY <1>1, <1>2, Company DEF Fits
<1>4. InOrder' /\ SortsFit'
  BY <1>1, <1>2, <1>3 DEF ListFits, InOrder, Precedes, SortsFit
<1>5. Ids(list') \cup Ids(rows') \subseteq 1..(10 + sends') /\ Whole(list') /\ Whole(rows')
  BY <1>1, <1>2 DEF ListFits
<1>6. \A k \in Nat \ unsure' : Of(list', k) = Of(rows', k)
  <2>1. kind # None
    BY <1>3, ListsAssumption DEF Kinds
  <2> QED
    BY <1>1, <1>2, <1>3, <2>1 DEF ListFits, RestAgrees, Loading, Idle, ListRowOps
<1>7. PICK S : S = {}
  OBVIOUS
<1>8. /\ reqs' = S /\ (\A q, s \in S : q = s) /\ (orderChanged' \/ InOrder')
      /\ \A s \in S : /\ s.op = "order" /\ s.at \in {"sent", "served", "refused"} /\ kind' \in Ordered
                       /\ orderChanged' /\ list' = s.before /\ (s.at = "served" => InOrder')
  BY <1>3, <1>4, <1>7
<1> QED
  BY <1>4, <1>5, <1>6, <1>8, OrderAlone

LEMMA ArrivedFits ==
  ASSUME ListsTypeOK, ~overtaken => ListFits, ~overtaken', NEW r \in reqs, ListArrives(r)
  PROVE  ListFits'
<1>1. /\ UNCHANGED <<kind, rows, sortOf, misplaced, sends, overtaken>> /\ unsure' = {}
      /\ r.op = "load" /\ r.at = "served" /\ reqs' = reqs \ {r} /\ list' = r.answer
  BY DEF ListArrives, server
<1>2. ListFits /\ Fits(r) /\ Whole(rows)
  BY <1>1 DEF ListFits
<1>3. reqs' = {} /\ IsListing(r.answer)
  BY <1>1, <1>2, Company DEF Fits
<1>4. Whole(list') /\ (\A k \in Nat : Of(list', k) = Of(rows', k)) /\ \A a, b \in Ids(rows) : ListAfter(list', a, b) => Precedes(a, b)
  BY <1>1, <1>3 DEF IsListing
<1>5. InOrder' /\ SortsFit' /\ Whole(rows')
  BY <1>1, <1>2, <1>4 DEF ListFits, InOrder, Precedes, SortsFit
<1>6. Ids(list') \cup Ids(rows') \subseteq 1..(10 + sends')
  <2>1. \A a \in Ids(list') : a \in Ids(rows)
    BY <1>1, <1>2, <1>4, OfIs, WholeIs
  <2> QED
    BY <1>1, <1>2, <2>1 DEF ListFits
<1>7. PICK S : S = {}
  OBVIOUS
<1> QED
  BY <1>3, <1>4, <1>5, <1>6, <1>7, OrderAlone

LEMMA FailedFits ==
  ASSUME ListsTypeOK, ~overtaken => ListFits, ~overtaken', NEW r \in reqs, RequestFails(r)
  PROVE  ListFits'
<1>1. /\ UNCHANGED <<kind, server, orderChanged, sends, unsure>> /\ r.at = "refused" /\ reqs' = reqs \ {r}
      /\ ~overtaken /\ r.op # "load" /\ (kind = "channels" /\ r.op = "delete" => list = Without(r.before, r.id))
  BY ZenonT(30) DEF RequestFails
<1>2. /\ ListFits /\ Whole(list) /\ Whole(rows) /\ Fits(r) /\ kind # None
      /\ UNCHANGED <<rows, sortOf, misplaced>> /\ SortsFit'
  BY <1>1 DEF ListFits, ListsTypeOK, SortsFit, server
<1>3. r.op \in ListRowOps => Target(r) \in Nat
  <2>1. r.op \in ListRowOps => Target(r) \in 1..(10 + sends)
    BY <1>2, Company
  <2> QED
    BY <2>1 DEF ListsTypeOK
<1>4. \A a, b : ListAfter(list, a, b) => a \in Ids(list) /\ b \in Ids(list)
  BY DEF ListAfter, Ids
<1>5. CASE r.op = "order"
  <2>1. reqs' = {} /\ list' = list /\ orderChanged
    BY <1>1, <1>2, <1>5, Company DEF RequestFails, Fits
  <2>2. \A k \in Nat \ unsure' : Of(list', k) = Of(rows', k)
    <3>1. reqs = {r}
      BY <1>2, <1>5, Company
    <3> QED
      BY <1>1, <1>2, <1>5, <2>1, <3>1 DEF ListFits, RestAgrees, Loading, Idle, ListRowOps
  <2>3. Ids(list') \cup Ids(rows') \subseteq 1..(10 + sends') /\ Whole(list') /\ Whole(rows')
    BY <1>1, <1>2, <2>1 DEF ListFits
  <2>4. PICK S : S = {}
    OBVIOUS
  <2> QED
    BY <1>1, <1>2, <2>1, <2>2, <2>3, <2>4, OrderAlone
<1>6. CASE r.op \in {"add", "update"} \/ (r.op = "delete" /\ kind # "channels")
  <2>1. list' = list /\ r.op \in ListRowOps
    BY <1>6 DEF RequestFails, ListRowOps
  <2>2. Target(r) \in unsure' \/ Of(list', Target(r)) = Of(rows, Target(r))
    <3>1. CASE r.op = "add"
      BY <1>1, <1>2, <2>1, <3>1 DEF Fits
    <3>2. CASE r.op \in {"delete", "update"}
      <4>1. Target(r) = r.id
        BY <3>2 DEF Target
      <4> QED
        BY <1>1, <1>2, <1>6, <2>1, <3>2, <4>1 DEF Fits
    <3> QED
      BY <1>6, <3>1, <3>2
  <2> QED
    BY <1>1, <1>2, <1>4, <2>1, <2>2, RowSettles
<1>7. CASE r.op = "delete" /\ kind = "channels"
  <2>1. list' = r.before /\ Whole(r.before) /\ (r.id \notin unsure => Of(rows, r.id) = Of(r.before, r.id)) /\ Target(r) = r.id /\ r.op \in ListRowOps
    BY <1>1, <1>2, <1>7 DEF RequestFails, Fits, Target, ListRowOps
  <2>2. \A k : Of(list, k) = IF k = r.id THEN {} ELSE Of(r.before, k)
    BY <1>1, <1>7, <2>1, WithoutIs
  <2>3. kind \notin Ordered
    BY <1>7 DEF Ordered
  <2> QED
    BY <1>1, <1>2, <1>3, <2>1, <2>2, <2>3, RowSettles
<1>8. CASE r.op = "toggle"
  <2>1. /\ r.id \in Ids(r.before) /\ Whole(r.before) /\ (r.id \notin unsure => Of(rows, r.id) = Of(r.before, r.id)) /\ Target(r) = r.id
        /\ kind = "channels" /\ r.op \in ListRowOps /\ Of(list, r.id) # {}
    BY <1>1, <1>2, <1>8 DEF Fits, Target, ListRowOps
  <2>2. PICK x \in RowOf : x = Row(r.before, r.id) /\ x.id = r.id /\ Of(r.before, r.id) = {x}
    BY <2>1, OfIs
  <2>3. list' = Replaced(list, x)
    BY <1>8, <2>1, <2>2 DEF RequestFails
  <2>4. Whole(list') /\ \A k : Of(list', k) = IF k = r.id THEN {x} ELSE Of(list, k)
    <3>1. x \in RowOf
      BY <2>2
    <3>2. /\ Whole(Replaced(list, x))
          /\ \A k : Of(Replaced(list, x), k) = IF k = x.id /\ Of(list, k) # {} THEN {x} ELSE Of(list, k)
      BY <1>2, <3>1, ReplacedIs
    <3> QED
      BY ONLY <2>1, <2>2, <2>3, <3>2
  <2>5. kind \notin Ordered
    BY <2>1 DEF Ordered
  <2> QED
    BY <1>1, <1>2, <1>3, <2>1, <2>2, <2>4, <2>5, RowSettles
<1> QED
  BY <1>1, <1>2, <1>5, <1>6, <1>7, <1>8, Company DEF ListRowOps

\* A key that is shown or was seen is that of an answer, and it is seen in the opening it is shown in.
KeysOnce ==
    /\ newKey # None => newKey \in 1..sends /\ kind \in Secret /\ \A r \in reqs : r.n # newKey
    /\ \A x \in keySeen : x[1] \in 1..sends /\ \A r \in reqs : r.n # x[1]
    /\ formFor # 0 => \A x \in keySeen : x[1] # newKey
    /\ KeySeenOnce

ListsInv == ListsTypeOK /\ KeysOnce /\ (~overtaken => ListFits)

\* How a step changes the requests.
OneMore == \E s : reqs' = reqs \cup {s} /\ Shaped(s) /\ s.n = sends + 1 /\ sends' = sends + 1
GoesOn == \E r \in reqs : \E s : reqs' = (reqs \ {r}) \cup {s} /\ Shaped(s) /\ s.n = r.n
NoMore == reqs' \subseteq reqs

LEMMA RequestsStay ==
  ASSUME ListsTypeOK, OneMore \/ GoesOn \/ NoMore, sends' \in Nat, sends <= sends',
         kind' \in Kinds \cup {None}, kind' = None => list' = <<>> /\ reqs' = {}
  PROVE  ListsTypeOK' /\ \A s \in reqs' : s.n \notin 1..sends \/ \E r \in reqs : r.n = s.n
<1>0. sends \in Nat /\ sends' \in Nat /\ sends <= sends'
  BY DEF ListsTypeOK
<1>1. /\ \A r \in reqs : Shaped(r) /\ r.n \in 1..sends
      /\ \A q, r \in reqs : q.n = r.n => q = r
  BY DEF ListsTypeOK
<1>2. /\ \A s \in reqs' : Shaped(s) /\ s.n \in 1..sends' /\ (s.n \notin 1..sends \/ \E r \in reqs : r.n = s.n)
      /\ \A q, r \in reqs' : q.n = r.n => q = r
  <2>0. \A r \in reqs : Shaped(r) /\ r.n \in 1..sends' /\ \E q \in reqs : q.n = r.n
    <3>1. \A m \in 1..sends : m \in 1..sends'
      BY ONLY <1>0
    <3> QED
      BY ONLY <1>1, <3>1
  <2>1. CASE OneMore
    <3>1. PICK s : reqs' = reqs \cup {s} /\ Shaped(s) /\ s.n = sends + 1 /\ sends' = sends + 1
      BY <2>1 DEF OneMore
    <3>2. s.n \in 1..sends' /\ s.n \notin 1..sends
      <4>1. sends + 1 \in 1..sends' /\ sends + 1 \notin 1..sends
        BY ONLY <1>0, <3>1
      <4> QED
        BY ONLY <3>1, <4>1
    <3>3. \A q \in reqs' : q \in reqs \/ q = s
      BY <3>1
    <3>4. \A q \in reqs' : Shaped(q) /\ q.n \in 1..sends' /\ (q.n \notin 1..sends \/ \E r \in reqs : r.n = q.n)
      BY ONLY <2>0, <3>1, <3>2, <3>3
    <3>5. \A r \in reqs : r.n # s.n
      BY ONLY <1>1, <3>2
    <3>6. \A q, r \in reqs' : q.n = r.n => q = r
      BY ONLY <1>1, <3>3, <3>5
    <3> QED
      BY <3>4, <3>6
  <2>2. CASE GoesOn
    <3>1. PICK r \in reqs : \E s : reqs' = (reqs \ {r}) \cup {s} /\ Shaped(s) /\ s.n = r.n
      BY <2>2 DEF GoesOn
    <3>2. PICK s : reqs' = (reqs \ {r}) \cup {s} /\ Shaped(s) /\ s.n = r.n
      BY <3>1
    <3>3. \A q \in reqs' : (q \in reqs /\ q # r) \/ q = s
      BY <3>2
    <3>4. r \in reqs
      BY <3>1
    <3>5. \A q \in reqs' : Shaped(q) /\ q.n \in 1..sends' /\ (q.n \notin 1..sends \/ \E p \in reqs : p.n = q.n)
      BY ONLY <2>0, <3>2, <3>3, <3>4
    <3>6. \A q \in reqs : q # r => q.n # s.n
      BY ONLY <1>1, <3>2, <3>4
    <3>7. \A q, p \in reqs' : q.n = p.n => q = p
      BY ONLY <1>1, <3>3, <3>6
    <3> QED
      BY <3>5, <3>7
  <2>3. CASE NoMore
    <3>1. \A q \in reqs' : q \in reqs
      BY <2>3 DEF NoMore
    <3> QED
      BY ONLY <1>1, <2>0, <3>1
  <2> QED
    BY <2>1, <2>2, <2>3
<1> QED
  BY <1>0, <1>2 DEF ListsTypeOK

\* The steps that touch neither the key nor its dialog.
LEMMA KeysStay ==
  ASSUME ListsTypeOK, KeysOnce, UNCHANGED <<newKey, keySeen>>, formFor' = formFor \/ kind \notin Secret,
         kind' = kind \/ kind \notin Secret, sends' \in Nat, sends <= sends',
         \A s \in reqs' : s.n \notin 1..sends \/ \E r \in reqs : r.n = s.n
  PROVE  KeysOnce'
<1>1. sends \in Nat
  BY DEF ListsTypeOK
<1>2. \A m \in 1..sends : m \in 1..sends' /\ ((\A r \in reqs : r.n # m) => \A s \in reqs' : s.n # m)
  BY <1>1
<1>3. newKey' # None => newKey' \in 1..sends' /\ kind' \in Secret /\ \A r \in reqs' : r.n # newKey'
  BY <1>2 DEF KeysOnce
<1>4. \A x \in keySeen' : x[1] \in 1..sends' /\ \A r \in reqs' : r.n # x[1]
  BY <1>2 DEF KeysOnce
<1>5. formFor' # 0 => \A x \in keySeen' : x[1] # newKey'
  <2>1. newKey = None => \A x \in keySeen : x[1] # newKey
    BY <1>1, ListsAssumption DEF KeysOnce
  <2> QED
    BY <2>1 DEF KeysOnce
<1>6. KeySeenOnce'
  BY DEF KeysOnce, KeySeenOnce
<1> QED
  BY <1>3, <1>4, <1>5, <1>6 DEF KeysOnce

\* Without a list nothing is shown and nothing is under way.
LEMMA NoList ==
  ASSUME ListsTypeOK, kind = None, ListsNext
  PROVE  (\E k \in Kinds : OpenList(k)) \/ CloseEdit \/ (\E id \in Ids(list) \cup {0} : EditForm(id))
<1>1. list = <<>> /\ reqs = {} /\ Ids(list) = {} /\ DOMAIN list = {}
  BY DEF ListsTypeOK, Ids
<1>2. kind \notin Kinds
  BY ListsAssumption
<1>3. ~FetchList /\ ~AddRow /\ ~SaveOrder /\ ~OpenCreate /\ ~CloseCreate
  BY <1>2 DEF FetchList, AddRow, SaveOrder, OpenCreate, CloseCreate, Kinds, Secret, Ordered
<1> QED
  BY <1>1, <1>3 DEF ListsNext

\* What each step does to the requests, and whether it leaves the key alone.
RestStays ==
    /\ sends' \in Nat /\ sends <= sends' /\ kind' = kind
    /\ UNCHANGED <<newKey, keySeen>> /\ (formFor' = formFor \/ kind \notin Secret)

LEMMA SendGoes ==
  ASSUME ListsTypeOK, NEW op, NEW id, NEW val, NEW before, Send(op, id, val, before)
  PROVE  OneMore /\ sends' \in Nat /\ sends <= sends'
  BY Sent DEF OneMore

LEMMA ListsGo ==
  ASSUME ListsTypeOK, ListsNext, kind # None
  PROVE  /\ OneMore \/ GoesOn \/ NoMore
         /\ sends' \in Nat /\ sends <= sends' /\ kind' = kind
         /\ RestStays \/ OpenCreate \/ CloseCreate \/ (\E r \in reqs : AddAnswered(r) /\ kind \in Secret)
<1>0. sends \in Nat /\ sends <= sends
  BY DEF ListsTypeOK
<1>1. CASE \E k \in Kinds : OpenList(k)
  BY <1>1 DEF OpenList
<1>2. CASE FetchList
  <2>1. OneMore /\ sends' \in Nat /\ sends <= sends'
    BY <1>2, SendGoes DEF FetchList
  <2> QED
    BY <1>2, <2>1 DEF FetchList, QuietForm, RestStays
<1>3. CASE AddRow
  <2>1. OneMore /\ sends' \in Nat /\ sends <= sends'
    BY <1>3, SendGoes DEF AddRow
  <2> QED
    BY <1>3, <2>1 DEF AddRow, QuietForm, RestStays
<1>4. CASE SaveOrder
  <2>1. OneMore /\ sends' \in Nat /\ sends <= sends'
    BY <1>4, SendGoes DEF SaveOrder
  <2> QED
    BY <1>4, <2>1 DEF SaveOrder, QuietForm, RestStays
<1>5. CASE OpenCreate
  BY <1>0, <1>5 DEF OpenCreate, NoMore
<1>6. CASE CloseCreate
  BY <1>0, <1>6 DEF CloseCreate, NoMore
<1>7. CASE CloseEdit
  BY <1>0, <1>7 DEF CloseEdit, NoMore, RestStays
<1>8. ASSUME NEW id \in Ids(list), DeleteRow(id) \/ ToggleChannel(id) \/ UpdateRow(id)
      PROVE  OneMore /\ RestStays
  <2>1. OneMore /\ sends' \in Nat /\ sends <= sends'
    BY <1>8, SendGoes DEF DeleteRow, ToggleChannel, UpdateRow
  <2> QED
    BY <1>8, <2>1 DEF DeleteRow, ToggleChannel, UpdateRow, QuietForm, RestStays
<1>9. ASSUME NEW id \in Ids(list) \cup {0}, EditForm(id) PROVE NoMore /\ RestStays
  <2>1. kind \notin Secret
    BY <1>9 DEF EditForm, WithForm, Secret
  <2> QED
    BY <1>0, <1>9, <2>1 DEF EditForm, NoMore, RestStays
<1>10. ASSUME NEW i \in DOMAIN list, NEW j \in DOMAIN list, DropRow(i, j) PROVE NoMore /\ RestStays
  <2>1. sends' = sends + 1 /\ reqs' = reqs /\ kind' = kind /\ UNCHANGED <<newKey, keySeen, formFor>>
    BY <1>10 DEF DropRow, QuietForm
  <2> QED
    BY <1>0, <2>1 DEF NoMore, RestStays
<1>11. ASSUME NEW r \in reqs, ServeRequest(r) \/ RefuseRequest(r) \/ LoseAnswer(r) PROVE GoesOn /\ RestStays
  <2>1. Shaped(r)
    BY DEF ListsTypeOK
  <2>2. RestStays
    BY <1>0, <1>11 DEF ServeRequest, RefuseRequest, LoseAnswer, RestStays
  <2>3. CASE ServeRequest(r)
    <3>1. PICK w : reqs' = (reqs \ {r}) \cup {[r EXCEPT !.at = "served", !.answer = w]}
      BY <2>3 DEF ServeRequest
    <3>2. PICK s : s = Served(r, w)
      OBVIOUS
    <3>3. reqs' = (reqs \ {r}) \cup {s}
      BY <3>1, <3>2 DEF Served
    <3>4. Shaped(s) /\ s.n = r.n
      BY <2>1, <3>2, Remade
    <3> QED
      BY <2>2, <3>3, <3>4 DEF GoesOn
  <2>4. CASE RefuseRequest(r) \/ LoseAnswer(r)
    <3>1. PICK s : s = Refused(r)
      OBVIOUS
    <3>2. reqs' = (reqs \ {r}) \cup {s}
      BY <2>4, <3>1 DEF RefuseRequest, LoseAnswer, Refused
    <3>3. Shaped(s) /\ s.n = r.n
      BY <2>1, <3>1, Remade
    <3> QED
      BY <2>2, <3>2, <3>3 DEF GoesOn
  <2> QED
    BY <1>11, <2>3, <2>4
<1>12. ASSUME NEW r \in reqs, AnswerStep(r)
       PROVE  (GoesOn \/ NoMore) /\ sends' = sends /\ kind' = kind /\ (RestStays \/ (AddAnswered(r) /\ kind \in Secret))
  <2>1. CASE AddAnswered(r)
    <3>1. reqs' \subseteq reqs /\ sends' = sends /\ kind' = kind
      BY <2>1 DEF AddAnswered
    <3>2. kind \notin Secret => UNCHANGED <<newKey, keySeen>>
      BY <2>1 DEF AddAnswered
    <3> QED
      BY <1>0, <2>1, <3>1, <3>2 DEF NoMore, RestStays
  <2>2. CASE DeleteAnswered(r)
    <3>1. RestStays /\ sends' = sends
      BY <1>0, <2>2 DEF DeleteAnswered, RestStays
    <3>2. CASE kind = "connections"
      <4>1. PICK s : s = Reload(r)
        OBVIOUS
      <4>2. reqs' = (reqs \ {r}) \cup {s}
        BY <2>2, <3>2, <4>1 DEF DeleteAnswered, Reload
      <4>3. Shaped(s) /\ s.n = r.n
        BY <4>1, Remade DEF ListsTypeOK
      <4> QED
        BY <3>1, <4>2, <4>3 DEF GoesOn, RestStays
    <3>3. CASE kind # "connections"
      BY <2>2, <3>1, <3>3 DEF DeleteAnswered, NoMore, RestStays
    <3> QED
      BY <3>2, <3>3
  <2>3. CASE UpdateAnswered(r)
    <3>1. reqs' \subseteq reqs /\ sends' = sends /\ kind' = kind /\ UNCHANGED <<newKey, keySeen>>
      BY <2>3 DEF UpdateAnswered
    <3>2. formFor' = formFor \/ kind \notin Secret
      BY <2>3 DEF UpdateAnswered, WithForm, Secret
    <3> QED
      BY <1>0, <3>1, <3>2 DEF NoMore, RestStays
  <2>4. CASE OrderAnswered(r)
    BY <1>0, <2>4 DEF OrderAnswered, NoMore, RestStays
  <2>5. CASE ListArrives(r)
    BY <1>0, <2>5 DEF ListArrives, QuietForm, NoMore, RestStays
  <2>6. CASE RequestFails(r)
    BY <1>0, <2>6 DEF RequestFails, QuietForm, NoMore, RestStays
  <2> QED
    BY <1>12, <2>1, <2>2, <2>3, <2>4, <2>5, <2>6 DEF AnswerStep
<1> QED
  <2>1. /\ sends' \in Nat /\ sends <= sends' /\ kind' = kind
        /\ OneMore \/ GoesOn \/ NoMore
        /\ RestStays \/ OpenCreate \/ CloseCreate \/ (\E r \in reqs : AddAnswered(r) /\ kind \in Secret)
    <3>1. CASE \E r \in reqs : ServeRequest(r) \/ RefuseRequest(r) \/ LoseAnswer(r) \/ AnswerStep(r)
      BY <1>0, <1>11, <1>12, <3>1 DEF RestStays
    <3>2. CASE \E id \in Ids(list) : DeleteRow(id) \/ ToggleChannel(id) \/ UpdateRow(id)
      BY <1>8, <3>2 DEF RestStays
    <3>3. CASE (\E id \in Ids(list) \cup {0} : EditForm(id)) \/ \E i, j \in DOMAIN list : DropRow(i, j)
      BY <1>9, <1>10, <3>3 DEF RestStays
    <3>4. CASE FetchList \/ AddRow \/ SaveOrder \/ OpenCreate \/ CloseCreate \/ CloseEdit
      BY <1>2, <1>3, <1>4, <1>5, <1>6, <1>7, <3>4 DEF RestStays
    <3> QED
      BY <1>1, <3>1, <3>2, <3>3, <3>4 DEF ListsNext
  <2> QED
    BY <2>1

LEMMA ListsInvInit == ListsInit => ListsInv
<1> SUFFICES ASSUME ListsInit PROVE ListsInv
  OBVIOUS
<1>1. ListsTypeOK
  BY DEF ListsInit, ListsTypeOK
<1>2. KeysOnce
  BY DEF ListsInit, KeysOnce, KeySeenOnce
<1>3. PICK l : l = <<[id |-> 1, val |-> 1], [id |-> 2, val |-> 1]>>
  OBVIOUS
<1>4. /\ l \in Seq(RowOf) /\ Len(l) = 2 /\ l[1] = [id |-> 1, val |-> 1] /\ l[2] = [id |-> 2, val |-> 1]
      /\ rows = l /\ list = <<>>
  <2>1. [id |-> 1, val |-> 1] \in RowOf /\ [id |-> 2, val |-> 1] \in RowOf
    BY DEF RowOf
  <2> QED
    BY <1>3, <2>1 DEF ListsInit
<1>5. DOMAIN l = 1..2 /\ l[1].id = 1 /\ l[2].id = 2
  BY <1>4
<1>6. Whole(rows) /\ Ids(rows) = {1, 2}
  <2>1. \A i \in DOMAIN l : i = 1 \/ i = 2
    BY <1>5
  <2>2. Whole(rows)
    BY <1>4, <1>5, <2>1 DEF Whole
  <2>3. Ids(rows) = {1, 2}
    BY <1>4, <1>5, <2>1 DEF Ids
  <2> QED
    BY <2>2, <2>3
<1>7. Whole(list) /\ Ids(list) = {}
  BY <1>4 DEF Whole, Ids
<1>10. SortsFit
  <2>1. PICK gap \in {1, 3} : sortOf = <<0, gap>>
    BY DEF ListsInit
  <2>2. DOMAIN sortOf = {1, 2} /\ sortOf[1] \in Nat /\ sortOf[2] \in Nat /\ sortOf = [i \in 1..2 |-> sortOf[i]]
    BY <2>1
  <2> QED
    BY <1>6, <2>2 DEF SortsFit
<1>8. Apart /\ (\A r \in reqs : Fits(r)) /\ RestAgrees /\ OrderAgrees
  <2>1. reqs = {} /\ kind = None /\ kind \notin Ordered
    BY ListsAssumption DEF ListsInit, Kinds
  <2> QED
    BY <2>1 DEF Apart, RestAgrees, OrderAgrees
<1>9. Ids(list) \cup Ids(rows) \subseteq 1..(10 + sends)
  BY <1>6, <1>7 DEF ListsInit
<1> QED
  BY <1>1, <1>2, <1>6, <1>7, <1>8, <1>9, <1>10 DEF ListsInv, ListFits

\* Before the list is opened the server has the rows it began with.
LEMMA ListsTypeStep ==
  ASSUME ListsTypeOK, ListsNext
  PROVE  ListsTypeOK' /\ sends' \in Nat /\ sends <= sends' /\ \A s \in reqs' : s.n \notin 1..sends \/ \E r \in reqs : r.n = s.n
<1>1. CASE kind # None
  BY <1>1, ListsGo, RequestsStay DEF ListsTypeOK
<1>2. CASE kind = None
  <2>1. CASE \E k \in Kinds : OpenList(k)
    <3>1. PICK k \in Kinds : OpenList(k)
      BY <2>1
    <3>2. kind' \in Kinds /\ kind' # None /\ OneMore /\ sends' \in Nat /\ sends <= sends'
      BY <3>1, SendGoes, ListsAssumption DEF OpenList
    <3> QED
      BY <3>2, RequestsStay
  <2>2. CASE CloseEdit \/ \E id \in Ids(list) \cup {0} : EditForm(id)
    <3>1. UNCHANGED <<kind, list, reqs, sends>>
      BY <2>2 DEF CloseEdit, EditForm
    <3> QED
      BY <3>1 DEF ListsTypeOK
  <2> QED
    BY <1>2, <2>1, <2>2, NoList
<1> QED
  BY <1>1, <1>2

LEMMA KeysStep ==
  ASSUME ListsTypeOK, KeysOnce, ListsNext
  PROVE  KeysOnce'
<1>1. sends \in Nat /\ sends' \in Nat /\ sends <= sends' /\ \A s \in reqs' : s.n \notin 1..sends \/ \E r \in reqs : r.n = s.n
  BY ListsTypeStep DEF ListsTypeOK
<1>2. CASE kind = None
  <2>1. UNCHANGED <<newKey, keySeen>> /\ kind \notin Secret
    <3>1. kind \notin Secret
      BY <1>2, ListsAssumption DEF Kinds
    <3> QED
      BY <1>2, <3>1, NoList DEF OpenList, QuietForm, CloseEdit, EditForm
  <2> QED
    BY <1>1, <2>1, KeysStay
<1>3. CASE RestStays
  BY <1>1, <1>3, KeysStay DEF RestStays
<1>4. CASE OpenCreate
  <2>1. /\ kind \in Secret /\ formFor = None /\ formFor' = 0 /\ keySeen' = Seen(newKey, openings + 1)
        /\ UNCHANGED <<kind, reqs, newKey, sends>>
    BY <1>4 DEF OpenCreate
  <2>2. formFor # 0
    BY <2>1, ListsAssumption
  <2>3. CASE newKey = None
    BY <2>1, <2>3 DEF Seen, KeysOnce, KeySeenOnce
  <2>4. CASE newKey # None
    <3>1. PICK y : y = <<newKey, openings + 1>>
      OBVIOUS
    <3>2. keySeen' = keySeen \cup {y} /\ y[1] = newKey
      BY <2>1, <2>4, <3>1 DEF Seen
    <3>3. y[1] \in 1..sends /\ (\A r \in reqs : r.n # y[1]) /\ \A x \in keySeen : x[1] # y[1]
      BY <2>2, <2>4, <3>2 DEF KeysOnce
    <3>4. \A x \in keySeen' : x \in keySeen \/ x = y
      BY <3>2
    <3>5. KeySeenOnce'
      BY <3>3, <3>4 DEF KeysOnce, KeySeenOnce
    <3> QED
      BY <2>1, <3>3, <3>4, <3>5 DEF KeysOnce
  <2> QED
    BY <2>3, <2>4
<1>5. CASE CloseCreate
  <2>1. newKey' = None /\ UNCHANGED <<kind, reqs, sends, keySeen>>
    BY <1>5 DEF CloseCreate
  <2>2. \A x \in keySeen : x[1] # None
    <3>1. None \notin 1..sends
      BY <1>1, ListsAssumption
    <3> QED
      BY <3>1 DEF KeysOnce
  <2> QED
    BY <2>1, <2>2 DEF KeysOnce, KeySeenOnce
<1>6. ASSUME NEW r \in reqs, AddAnswered(r), kind \in Secret PROVE KeysOnce'
  <2>1. /\ newKey' = r.n /\ keySeen' = (IF formFor = 0 THEN Seen(r.n, openings) ELSE keySeen)
        /\ formFor' = formFor /\ reqs' = reqs \ {r} /\ UNCHANGED <<kind, sends>>
    <3>1. kind \notin WithForm
      BY <1>6 DEF Secret, WithForm
    <3> QED
      BY <1>6, <3>1 DEF AddAnswered
  <2>2. r.n \in 1..sends /\ r.n # None
    BY ListsAssumption DEF ListsTypeOK
  <2>3. PICK y : y = <<r.n, openings>>
    OBVIOUS
  <2>4. keySeen' = (IF formFor = 0 THEN keySeen \cup {y} ELSE keySeen) /\ y[1] = r.n
    BY <2>1, <2>2, <2>3 DEF Seen
  <2>5. \A x \in keySeen' : x \in keySeen \/ (x = y /\ formFor = 0)
    BY <2>4
  <2>6. \A x \in keySeen : x[1] # r.n /\ x[1] \in 1..sends /\ \A q \in reqs : q.n # x[1]
    BY DEF KeysOnce
  <2>7. \A q \in reqs' : q.n # r.n
    BY <2>1 DEF ListsTypeOK
  <2>8. KeySeenOnce'
    BY <2>4, <2>5, <2>6 DEF KeysOnce, KeySeenOnce
  <2>9. \A x \in keySeen' : x[1] \in 1..sends /\ \A q \in reqs' : q.n # x[1]
    BY <2>1, <2>2, <2>4, <2>5, <2>6, <2>7
  <2>10. formFor' # 0 => \A x \in keySeen' : x[1] # newKey'
    BY <2>1, <2>5, <2>6
  <2> QED
    BY <1>6, <2>1, <2>2, <2>7, <2>8, <2>9, <2>10 DEF KeysOnce
<1> QED
  BY <1>2, <1>3, <1>4, <1>5, <1>6, ListsGo

LEMMA ListFitsStep ==
  ASSUME ListsTypeOK, ~overtaken => ListFits, ~overtaken', ListsNext, kind # None
  PROVE  ListFits'
<1>0. \A k \in Kinds : ~OpenList(k)
  BY DEF OpenList
<1>1. CASE FetchList
  <2>1. Send("load", 0, 0, list) /\ UNCHANGED <<server, list>>
    BY <1>1 DEF FetchList
  <2>2. ListFits
    BY <2>1, Sent
  <2> QED
    BY <2>1, <2>2, LoadFits DEF ListFits
<1>2. CASE AddRow \/ SaveOrder
  BY <1>2, AddFits, SaveFits
<1>3. CASE OpenCreate \/ CloseCreate \/ CloseEdit \/ \E id \in Ids(list) \cup {0} : EditForm(id)
  <2>1. UNCHANGED <<kind, server, list, reqs, orderChanged, sends, overtaken, unsure>>
    BY <1>3 DEF OpenCreate, CloseCreate, CloseEdit, EditForm
  <2> QED
    BY <2>1, DialogFits
<1>4. CASE \E id \in Ids(list) : DeleteRow(id) \/ ToggleChannel(id) \/ UpdateRow(id)
  BY <1>4, DeleteFits, ToggleFits, UpdateFits
<1>5. CASE \E i, j \in DOMAIN list : DropRow(i, j)
  BY <1>5, DropFits
<1>6. CASE \E r \in reqs : ServeRequest(r) \/ RefuseRequest(r) \/ LoseAnswer(r) \/ AnswerStep(r)
  BY <1>6, ServeFits, RefuseFits, AddedFits, DeletedFits, UpdatedFits, OrderedFits, ArrivedFits, FailedFits DEF AnswerStep
<1> QED
  BY <1>0, <1>1, <1>2, <1>3, <1>4, <1>5, <1>6 DEF ListsNext

LEMMA ListsInvStep == ListsInv /\ [ListsNext]_listVars => ListsInv'
<1> SUFFICES ASSUME ListsInv, [ListsNext]_listVars PROVE ListsInv'
  OBVIOUS
<1>1. ListsTypeOK /\ KeysOnce /\ (~overtaken => ListFits)
  BY DEF ListsInv
<1>2. CASE UNCHANGED listVars
  <2>1. UNCHANGED <<kind, server, list, reqs, waits, orderChanged, formFor, newKey, sends, openings, keySeen, overtaken, unsure>>
    BY <1>2 DEF listVars, server
  <2>2. ListsTypeOK' /\ KeysOnce'
    BY <1>1, <2>1 DEF ListsTypeOK, KeysOnce, KeySeenOnce
  <2>3. ~overtaken' => ListFits'
    BY <1>1, <2>1, DialogFits
  <2> QED
    BY <2>2, <2>3 DEF ListsInv
<1>3. CASE ListsNext
  <2>1. ListsTypeOK' /\ KeysOnce'
    BY <1>1, <1>3, ListsTypeStep, KeysStep
  <2>2. ASSUME ~overtaken' PROVE ListFits'
    <3>1. CASE kind # None
      BY <1>1, <1>3, <2>2, <3>1, ListFitsStep
    <3>2. CASE kind = None
      <4>1. ASSUME NEW k \in Kinds, OpenList(k) PROVE ListFits'
        <5>1. Send("load", 0, 0, list) /\ UNCHANGED <<server, list>>
          BY <4>1 DEF OpenList
        <5>2. ListFits
          BY <1>1, <2>2, <5>1, Sent
        <5> QED
          BY <1>1, <2>2, <5>1, <5>2, LoadFits DEF ListFits
      <4>2. CASE CloseEdit \/ \E id \in Ids(list) \cup {0} : EditForm(id)
        <5>1. UNCHANGED <<kind, server, list, reqs, orderChanged, sends, overtaken, unsure>>
          BY <4>2 DEF CloseEdit, EditForm
        <5> QED
          BY <1>1, <2>2, <5>1, DialogFits
      <4> QED
        BY <1>1, <1>3, <3>2, <4>1, <4>2, NoList
    <3> QED
      BY <3>1, <3>2
  <2> QED
    BY <2>1, <2>2 DEF ListsInv
<1> QED
  BY <1>2, <1>3

\* Where nothing is under way the list is the server's.
LEMMA ListsInvAgrees == ListsInv => ListsAgree
<1> SUFFICES ASSUME ListsInv PROVE ListsAgree
  OBVIOUS
<1>1. ASSUME kind # None, reqs = {}, ~overtaken
      PROVE  /\ Whole(list) /\ Whole(rows) /\ \A id \in Nat \ unsure : Of(list, id) = Of(rows, id)
             /\ kind \in Ordered /\ ~orderChanged => InOrder
  BY <1>1 DEF ListsInv, ListFits, RestAgrees, OrderAgrees, Loading, Idle
<1>2. RowsAgree
  <2> SUFFICES ASSUME kind # None, reqs = {}, ~overtaken PROVE Sure(list) = Sure(rows)
    BY DEF RowsAgree
  <2>1. \A x \in RowSet(list) \cup RowSet(rows) : x.id \in Nat
    BY <1>1, WholeIs DEF RowOf
  <2>2. ASSUME NEW x \in RowSet(list) \cup RowSet(rows), x.id \notin unsure
        PROVE  x \in RowSet(list) <=> x \in RowSet(rows)
    <3>1. x \in RowSet(list) <=> x \in Of(list, x.id)
      BY DEF Of
    <3>2. x \in RowSet(rows) <=> x \in Of(rows, x.id)
      BY DEF Of
    <3> QED
      BY <1>1, <2>1, <2>2, <3>1, <3>2
  <2> QED
    BY <2>2 DEF Sure
<1>3. OrderOffered
  <2> SUFFICES ASSUME kind \in Ordered, reqs = {}, ~overtaken, ~orderChanged,
                      NEW i \in DOMAIN list, NEW j \in DOMAIN list, i < j,
                      {list[i].id, list[j].id} \subseteq Ids(rows) \ misplaced
               PROVE  Precedes(list[i].id, list[j].id)
    BY DEF OrderOffered
  <2>1. kind # None
    BY ListsAssumption DEF Kinds
  <2>2. InOrder
    BY <1>1, <2>1
  <2>3. ListAfter(list, list[i].id, list[j].id) /\ list[i].id \in Ids(list) /\ list[j].id \in Ids(list)
    BY DEF ListAfter, Ids
  <2> QED
    BY <2>2, <2>3 DEF InOrder
<1> QED
  BY <1>2, <1>3 DEF ListsAgree, ListsInv, KeysOnce

\* The lists of the settings and the server agree, for any number of requests under way, and a key is seen once.
THEOREM ListsStayTrue == ListsSpec => []ListsAgree
<1>1. ListsInit => ListsInv
  BY ListsInvInit
<1>2. ListsInv /\ [ListsNext]_listVars => ListsInv'
  BY ListsInvStep
<1>3. ListsInv => ListsAgree
  BY ListsInvAgrees
<1> QED
  BY <1>1, <1>2, <1>3, PTL DEF ListsSpec
=============================================================================

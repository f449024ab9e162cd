-------------------------- MODULE AssociatesProofs ---------------------------
(****************************************************************************)
(* Proofs about BoletoSync, LocationShares and TagSightings for any number of *)
(* bills, syncs, links, requests and sightings, and about the specification *)
(* that is checked of them together.                                        *)
(*                                                                          *)
(* Bills.  A sync knows of the others only what the rows say, so the        *)
(* invariant is about what a sync holds: ToldInv, that a bill told of, with *)
(* no cause to be told of again, says so in its row or is about to, and that *)
(* nobody else holds it as one not told of; HandInv, that the line in hand is *)
(* of a row that is there; AloneInv, SweptInv and ListInv, what a sync that *)
(* ran alone has seen of its list.                                          *)
(*                                                                          *)
(* Links.  The bound on the active links is inductive as it stands: a request *)
(* that counts adds itself to the counted, one that writes leaves them.  What *)
(* the page answers needs one more fact, of the pages that wait for Traccar: *)
(* what they found still holds unless it is noted as turned.                *)
(*                                                                          *)
(* Sightings.  StoredInv and LoneInv say what a post knows between its reads *)
(* and its writes as long as no two posts meet.                             *)
(****************************************************************************)
EXTENDS MCAssociates, FiniteSetTheorems, TLAPS

-------------------------------------------------------------------------------
(* BoletoSync.                                                               *)

(* The line in hand is of a row that is there unless it is noted as gone.    *)
HandInv ==
  \A s \in Syncs :
    /\ billSync[s].bill = NoBill => ~billSync[s].gone
    /\ billSync[s].bill # NoBill /\ ~billSync[s].gone => row[billSync[s].bill].there

(* A bill told of, with nothing since that excuses another push, says so in  *)
(* its row or is about to, and nobody else holds it as one not told of.      *)
ToldInv ==
  \A b \in delivered \ excused :
    /\ (row[b].there /\ row[b].told) \/ \E s \in Syncs : Has(s, "stamp", b)
    /\ \A q \in Syncs : ~HasUntold(q, b)

(* A sync that is alone is.                                                  *)
AloneInv ==
  \A s \in Syncs : billSync[s].pc # "idle" /\ billSync[s].alone =>
    \A q \in Syncs \ {s} : billSync[q].pc = "idle"

(* What an undisturbed sync has deleted is not stored again under it.        *)
SweptInv ==
  \A s \in Syncs : billSync[s].pc = "delrow" /\ billSync[s].alone =>
    billSync[s].dead \cap pdfs = {}

(* How far a sync that is alone has come with its list.                      *)
Listing == {"next", "pdf", "store", "bytes", "push", "stamp"}
ListInv ==
  \A s \in Syncs : billSync[s].alone =>
    /\ billSync[s].pc \in Listing => billSync[s].list \ billSync[s].todo \subseteq There
    /\ billSync[s].pc \in {"delpdf", "delrow"} =>
         billSync[s].list \subseteq There /\ billSync[s].dead = There \ billSync[s].list
    /\ billSync[s].pc = "visit" => There = billSync[s].list

BillInv == HandInv /\ ToldInv /\ AloneInv /\ SweptInv /\ ListInv /\ PdfIsOffered

BillStepped ==
  \/ \E b \in Bills : CrmChanges(b)
  \/ PhoneRegisters
  \/ \E s \in Syncs, withPdf \in BOOLEAN : SyncBegins(s, withPdf)
  \/ \E s \in Syncs, b \in Bills : SyncUpserts(s, b)
  \/ \E s \in Syncs : SyncLooksForPdf(s)
  \/ \E s \in Syncs : SyncStoresPdf(s)
  \/ \E s \in Syncs : SyncNotesBytes(s)
  \/ \E s \in Syncs : SyncSkipsPush(s)
  \/ \E s \in Syncs : SyncDelivers(s)
  \/ \E s \in Syncs : SyncMissesAnswer(s)
  \/ \E s \in Syncs : SyncFailsToDeliver(s)
  \/ \E s \in Syncs : SyncStamps(s)
  \/ \E s \in Syncs : SyncReadsDead(s)
  \/ \E s \in Syncs : SyncDeletesPdfs(s)
  \/ \E s \in Syncs : SyncDeletesRows(s)
  \/ \E s \in Syncs : SyncVisits(s)
  \/ \E s \in Syncs : SyncTrips(s)
  \/ \E s \in Syncs : BillSyncFails(s)
  \/ BillRestart
  \/ UNCHANGED billVars

LEMMA BillNextIsAStep ==
  ASSUME [BillNext]_billVars
  PROVE  BillStepped
BY Zenon DEF BillNext, BillStep, BillStepped

-------------------------------------------------------------------------------
(* Typing.                                                                   *)

Line == [there : BOOLEAN, told : BOOLEAN, bytes : BOOLEAN]
BillSyncRow ==
  [pc : {"idle", "next", "pdf", "store", "bytes", "push", "stamp", "delpdf", "delrow", "visit"},
   pdf : BOOLEAN, list : SUBSET Bills, todo : SUBSET Bills,
   bill : Bills \cup {NoBill}, told : BOOLEAN, gone : BOOLEAN,
   dead : SUBSET Bills, alone : BOOLEAN]
InHand == {"pdf", "store", "bytes", "push", "stamp"}

(* A sync that is itself consistent.                                         *)
Sound(x) ==
  /\ x \in BillSyncRow
  /\ x.bill # NoBill <=> x.pc \in InHand
  /\ x.todo \subseteq x.list
  /\ x.dead \cap x.list = {}

BillTyped ==
    /\ crm \subseteq Bills /\ pdfs \subseteq Bills /\ row \in [Bills -> Line]
    /\ device \in BOOLEAN /\ visited \in BOOLEAN
    /\ billSync \in [Syncs -> BillSyncRow] /\ \A s \in Syncs : Sound(billSync[s])
    /\ delivered \subseteq Bills /\ excused \subseteq Bills
    /\ torn \subseteq Bills
    /\ crmChanges \in 0..MaxCrmChanges /\ billFaults \in 0..MaxBillFaults

LEMMA BillTypeMeans == (BillTypeOK <=> BillTyped) /\ (BillTypeOK' <=> BillTyped')
BY DEF BillTypeOK, BillTyped, Line, BillSyncRow, Sound, InHand

(* What the steps of a sync leave of its record.                             *)
LEMMA StepSound ==
  ASSUME NEW s \in Syncs, Sound(billSync[s]), NEW pc,
         \/ pc \in InHand /\ billSync[s].pc \in InHand
         \/ pc \in {"delrow", "visit"} /\ billSync[s].pc \in {"delpdf", "delrow"}
  PROVE  /\ Sound(Step(s, pc)) /\ Step(s, pc).pc = pc
         /\ Step(s, pc).list = billSync[s].list /\ Step(s, pc).todo = billSync[s].todo
         /\ Step(s, pc).bill = billSync[s].bill /\ Step(s, pc).told = billSync[s].told
         /\ Step(s, pc).gone = billSync[s].gone /\ Step(s, pc).dead = billSync[s].dead
         /\ Step(s, pc).alone = billSync[s].alone
BY DEF Sound, BillSyncRow, InHand, Step

LEMMA NextBillSound ==
  ASSUME NEW s \in Syncs, Sound(billSync[s]), billSync[s].pc \in InHand
  PROVE  /\ Sound(NextBill(s)) /\ NextBill(s).pc = "next"
         /\ NextBill(s).list = billSync[s].list /\ NextBill(s).todo = billSync[s].todo
         /\ NextBill(s).bill = NoBill /\ NextBill(s).told = FALSE /\ NextBill(s).gone = FALSE
         /\ NextBill(s).alone = billSync[s].alone
BY DEF Sound, BillSyncRow, InHand, NextBill

LEMMA IdleSound ==
  /\ Sound(IdleSyncOfBills) /\ IdleSyncOfBills.pc = "idle" /\ IdleSyncOfBills.bill = NoBill
  /\ IdleSyncOfBills.gone = FALSE
BY DEF Sound, BillSyncRow, InHand, IdleSyncOfBills

Begun(withPdf, alone) ==
  [IdleSyncOfBills EXCEPT !.pc = "next", !.pdf = withPdf, !.list = crm, !.todo = crm,
                          !.alone = alone]
LEMMA BegunSound ==
  ASSUME crm \subseteq Bills, NEW withPdf \in BOOLEAN, NEW alone \in BOOLEAN
  PROVE  /\ Sound(Begun(withPdf, alone)) /\ Begun(withPdf, alone).pc = "next"
         /\ Begun(withPdf, alone).list = crm /\ Begun(withPdf, alone).todo = crm
         /\ Begun(withPdf, alone).bill = NoBill /\ Begun(withPdf, alone).gone = FALSE
         /\ Begun(withPdf, alone).alone = alone
BY DEF Sound, BillSyncRow, InHand, IdleSyncOfBills, Begun

TakesUp(s, b, told) ==
  [billSync[s] EXCEPT !.pc = IF billSync[s].pdf THEN "pdf" ELSE "push",
                      !.bill = b, !.todo = @ \ {b}, !.told = told]
LEMMA TakesUpSound ==
  ASSUME NEW s \in Syncs, Sound(billSync[s]), NEW b \in Bills, NEW told \in BOOLEAN
  PROVE  /\ Sound(TakesUp(s, b, told)) /\ TakesUp(s, b, told).pc \in {"pdf", "push"}
         /\ TakesUp(s, b, told).list = billSync[s].list
         /\ TakesUp(s, b, told).todo = billSync[s].todo \ {b}
         /\ TakesUp(s, b, told).bill = b /\ TakesUp(s, b, told).told = told
         /\ TakesUp(s, b, told).gone = billSync[s].gone
         /\ TakesUp(s, b, told).alone = billSync[s].alone
BY NoBillAssumption DEF Sound, BillSyncRow, InHand, TakesUp

Swept(s, dead) ==
  [billSync[s] EXCEPT !.pc = IF dead = {} THEN "visit" ELSE "delpdf", !.dead = dead]
LEMMA SweptSound ==
  ASSUME NEW s \in Syncs, Sound(billSync[s]), billSync[s].pc = "next",
         NEW dead \in SUBSET Bills, dead \cap billSync[s].list = {}
  PROVE  /\ Sound(Swept(s, dead))
         /\ Swept(s, dead).pc = IF dead = {} THEN "visit" ELSE "delpdf"
         /\ Swept(s, dead).list = billSync[s].list
         /\ Swept(s, dead).bill = NoBill /\ Swept(s, dead).gone = billSync[s].gone
         /\ Swept(s, dead).dead = dead /\ Swept(s, dead).alone = billSync[s].alone
<1>1. CASE dead = {}
  BY <1>1 DEF Sound, BillSyncRow, InHand, Swept
<1>2. CASE dead # {}
  BY <1>2 DEF Sound, BillSyncRow, InHand, Swept
<1> QED BY <1>1, <1>2

(* Losing its row, or its being alone, leaves a sync sound.                  *)
Gone(s) == [billSync[s] EXCEPT !.gone = TRUE]
Joined(s) == [billSync[s] EXCEPT !.alone = FALSE]
LEMMA MarkedSound ==
  ASSUME NEW s \in Syncs, Sound(billSync[s])
  PROVE  /\ Sound(Gone(s)) /\ Sound(Joined(s))
         /\ Gone(s).pc = billSync[s].pc /\ Joined(s).pc = billSync[s].pc
         /\ Gone(s).list = billSync[s].list /\ Gone(s).todo = billSync[s].todo
         /\ Gone(s).bill = billSync[s].bill /\ Joined(s).bill = billSync[s].bill
         /\ Gone(s).told = billSync[s].told /\ Joined(s).told = billSync[s].told
         /\ Gone(s).gone /\ Joined(s).gone = billSync[s].gone
         /\ Gone(s).dead = billSync[s].dead
         /\ Gone(s).alone = billSync[s].alone /\ ~Joined(s).alone
BY DEF Sound, BillSyncRow, InHand, Gone, Joined

LEMMA UpsertedLine ==
  ASSUME BillTypeOK, NEW b \in Bills
  PROVE  /\ Upserted(b) \in Line /\ Upserted(b).there
         /\ row[b].there => Upserted(b) = row[b]
         /\ ~row[b].there => ~Upserted(b).told /\ ~Upserted(b).bytes
BY BillTypeMeans DEF BillTyped, Upserted, NewLine, Line

LEMMA MarkedLine ==
  ASSUME row \in [Bills -> Line], NEW b \in Bills
  PROVE  /\ [row EXCEPT ![b].told = TRUE] \in [Bills -> Line]
         /\ \A c \in Bills :
              /\ [row EXCEPT ![b].told = TRUE][c].there = row[c].there
              /\ [row EXCEPT ![b].told = TRUE][c].told = (row[c].told \/ c = b)
              /\ [row EXCEPT ![b].told = TRUE][c].bytes = row[c].bytes
         /\ [row EXCEPT ![b].bytes = TRUE] \in [Bills -> Line]
         /\ \A c \in Bills :
              /\ [row EXCEPT ![b].bytes = TRUE][c].there = row[c].there
              /\ [row EXCEPT ![b].bytes = TRUE][c].told = row[c].told
              /\ [row EXCEPT ![b].bytes = TRUE][c].bytes = (row[c].bytes \/ c = b)
<1>1. /\ [row[b] EXCEPT !.told = TRUE] \in Line
      /\ [row[b] EXCEPT !.told = TRUE].there = row[b].there
      /\ [row[b] EXCEPT !.told = TRUE].bytes = row[b].bytes
      /\ [row[b] EXCEPT !.told = TRUE].told = TRUE
  BY DEF Line
<1>2. /\ [row[b] EXCEPT !.bytes = TRUE] \in Line
      /\ [row[b] EXCEPT !.bytes = TRUE].there = row[b].there
      /\ [row[b] EXCEPT !.bytes = TRUE].told = row[b].told
      /\ [row[b] EXCEPT !.bytes = TRUE].bytes = TRUE
  BY DEF Line
<1>3. \A c \in Bills : row[c].told \in BOOLEAN /\ row[c].bytes \in BOOLEAN
  BY DEF Line
<1> QED BY <1>1, <1>2, <1>3

LEMMA OneSyncTyped ==
  ASSUME billSync \in [Syncs -> BillSyncRow], \A q \in Syncs : Sound(billSync[q]),
         NEW s \in Syncs, NEW x \in BillSyncRow, Sound(x), Put(s, x)
  PROVE  billSync' \in [Syncs -> BillSyncRow] /\ \A q \in Syncs : Sound(billSync'[q])
BY DEF Put, Sound

LEMMA BillTypeInit == BillInit => BillTypeOK
<1> SUFFICES ASSUME BillInit PROVE BillTypeOK
  OBVIOUS
<1>1. crmChanges \in 0..MaxCrmChanges /\ billFaults \in 0..MaxBillFaults
  BY BillBounds DEF BillInit
<1>2. row \in [Bills -> Line]
  BY DEF BillInit, NoLine, Line
<1>3. billSync \in [Syncs -> BillSyncRow] /\ \A s \in Syncs : Sound(billSync[s])
  BY IdleSound DEF BillInit, Sound
<1> QED BY <1>1, <1>2, <1>3, BillTypeMeans DEF BillTyped, BillInit

LEMMA BillTypeStep ==
  ASSUME BillTypeOK, BillStepped
  PROVE  BillTypeOK'
<1>0. /\ billSync \in [Syncs -> BillSyncRow] /\ \A s \in Syncs : Sound(billSync[s])
      /\ \A s \in Syncs : Sound(billSync[s]) => billSync[s] \in BillSyncRow
  BY BillTypeMeans DEF BillTyped
<1>1. CASE \E b \in Bills : CrmChanges(b)
  BY <1>1, BillBounds DEF BillTypeOK, CrmChanges, billHistory
<1>2. CASE PhoneRegisters
  BY <1>2 DEF BillTypeOK, PhoneRegisters, billHistory, billCounts
<1>3. CASE \E s \in Syncs, withPdf \in BOOLEAN : SyncBegins(s, withPdf)
  <2> PICK s \in Syncs, withPdf \in BOOLEAN : SyncBegins(s, withPdf)
    BY <1>3
  <2> DEFINE others == {q \in Syncs : billSync[q].pc # "idle"}
             x == Begun(withPdf, others = {})
  <2>1. billSync' = [q \in Syncs |-> IF q = s THEN x
          ELSE IF q \in others THEN Joined(q) ELSE billSync[q]]
    BY DEF SyncBegins, Begun, Joined
  <2>2. Sound(x)
    <3>1. crm \subseteq Bills /\ (others = {}) \in BOOLEAN
      BY BillTypeMeans DEF BillTyped
    <3> HIDE DEF others
    <3> QED BY <3>1, BegunSound
  <2> HIDE DEF x, others
  <2>3. billSync' \in [Syncs -> BillSyncRow] /\ \A q \in Syncs : Sound(billSync'[q])
    BY <1>0, <2>1, <2>2, MarkedSound DEF Sound
  <2>4. UNCHANGED <<crm, row, pdfs, device, visited, delivered, excused, torn, crmChanges, billFaults>>
    BY DEF SyncBegins, billHistory, billCounts
  <2> QED BY <2>3, <2>4, BillTypeMeans DEF BillTyped
<1>4. CASE \E s \in Syncs, b \in Bills : SyncUpserts(s, b)
  <2> PICK s \in Syncs, b \in Bills : SyncUpserts(s, b)
    BY <1>4
  <2>1. Upserted(b) \in Line /\ Upserted(b).told \in BOOLEAN
    BY UpsertedLine DEF Line
  <2>2. Sound(TakesUp(s, b, Upserted(b).told)) /\ Put(s, TakesUp(s, b, Upserted(b).told))
    BY <1>0, <2>1, TakesUpSound DEF SyncUpserts, TakesUp
  <2>3. billSync' \in [Syncs -> BillSyncRow] /\ \A q \in Syncs : Sound(billSync'[q])
    BY <1>0, <2>2, OneSyncTyped DEF Sound
  <2>4. row' \in [Bills -> Line] /\ excused' \subseteq Bills
    BY <2>1, BillTypeMeans DEF BillTyped, SyncUpserts
  <2> QED BY <2>3, <2>4, BillTypeMeans DEF BillTyped, SyncUpserts, billHistory, billCounts
<1>5. CASE \E s \in Syncs : SyncLooksForPdf(s) \/ SyncStoresPdf(s) \/ SyncNotesBytes(s) \/ SyncDelivers(s)
  <2> PICK s \in Syncs : SyncLooksForPdf(s) \/ SyncStoresPdf(s) \/ SyncNotesBytes(s) \/ SyncDelivers(s)
    BY <1>5
  <2>1. PICK pc \in {"store", "push", "bytes", "stamp"} :
          Put(s, Step(s, pc)) /\ billSync[s].pc \in InHand /\ billSync[s].bill \in Bills
    BY <1>0 DEF SyncLooksForPdf, SyncStoresPdf, SyncNotesBytes, SyncDelivers, InHand, Sound, BillSyncRow
  <2>2. Sound(Step(s, pc))
    BY <1>0, <2>1, StepSound DEF InHand
  <2>3. billSync' \in [Syncs -> BillSyncRow] /\ \A q \in Syncs : Sound(billSync'[q])
    BY <1>0, <2>1, <2>2, OneSyncTyped DEF Sound
  <2>4. row' \in [Bills -> Line]
    <3> PICK b \in Bills : b = billSync[s].bill
      BY <2>1
    <3>1. row' = row \/ row' = [row EXCEPT ![b].bytes = TRUE]
      BY DEF SyncLooksForPdf, SyncStoresPdf, SyncNotesBytes, SyncDelivers
    <3>2. row \in [Bills -> Line]
      BY BillTypeMeans DEF BillTyped
    <3>3. [row EXCEPT ![b].bytes = TRUE] \in [Bills -> Line]
      BY <3>2, MarkedLine
    <3> QED BY <3>1, <3>2, <3>3
  <2>5. delivered' \subseteq Bills
    BY <2>1, BillTypeMeans
       DEF BillTyped, SyncLooksForPdf, SyncStoresPdf, SyncNotesBytes, SyncDelivers, billHistory
  <2>6. crmChanges' \in 0..MaxCrmChanges /\ billFaults' \in 0..MaxBillFaults
    BY BillBounds, BillTypeMeans
       DEF BillTyped, SyncLooksForPdf, SyncStoresPdf, SyncNotesBytes, SyncDelivers, billCounts, BillFault
  <2>7. /\ crm' \subseteq Bills /\ pdfs' \subseteq Bills /\ device' \in BOOLEAN /\ visited' \in BOOLEAN
        /\ excused' \subseteq Bills /\ torn' \subseteq Bills
    BY <2>1, BillTypeMeans
       DEF BillTyped, SyncLooksForPdf, SyncStoresPdf, SyncNotesBytes, SyncDelivers, billHistory
  <2> QED BY <2>3, <2>4, <2>5, <2>6, <2>7, BillTypeMeans DEF BillTyped
<1>6. CASE \E s \in Syncs : \/ SyncSkipsPush(s) \/ SyncFailsToDeliver(s)
                            \/ SyncMissesAnswer(s) \/ SyncStamps(s)
  <2> PICK s \in Syncs : \/ SyncSkipsPush(s) \/ SyncFailsToDeliver(s)
                            \/ SyncMissesAnswer(s) \/ SyncStamps(s)
    BY <1>6
  <2>1. Put(s, NextBill(s)) /\ billSync[s].pc \in InHand
    BY DEF SyncSkipsPush, SyncFailsToDeliver, SyncMissesAnswer, SyncStamps, InHand
  <2>2. Sound(NextBill(s))
    BY <1>0, <2>1, NextBillSound
  <2>3. billSync' \in [Syncs -> BillSyncRow] /\ \A q \in Syncs : Sound(billSync'[q])
    BY <1>0, <2>1, <2>2, OneSyncTyped DEF Sound
  <2>4. row' \in [Bills -> Line]
    <3> PICK b \in Bills : b = billSync[s].bill
      BY <1>0, <2>1 DEF Sound, BillSyncRow
    <3>1. row' = row \/ row' = [row EXCEPT ![b].told = TRUE]
      BY DEF SyncSkipsPush, SyncFailsToDeliver, SyncMissesAnswer, SyncStamps
    <3>2. row \in [Bills -> Line]
      BY BillTypeMeans DEF BillTyped
    <3>3. [row EXCEPT ![b].told = TRUE] \in [Bills -> Line]
      BY <3>2, MarkedLine
    <3> QED BY <3>1, <3>2, <3>3
  <2>5. crmChanges' \in 0..MaxCrmChanges /\ billFaults' \in 0..MaxBillFaults
    BY BillBounds, BillTypeMeans
       DEF BillTyped, SyncSkipsPush, SyncFailsToDeliver, SyncMissesAnswer, SyncStamps, billCounts, BillFault
  <2>6. /\ crm' \subseteq Bills /\ pdfs' \subseteq Bills /\ device' \in BOOLEAN
        /\ visited' \in BOOLEAN /\ torn' \subseteq Bills
        /\ delivered' \subseteq Bills /\ excused' \subseteq Bills
    <3> PICK b \in Bills : b = billSync[s].bill
      BY <1>0, <2>1 DEF Sound, BillSyncRow, InHand
    <3> QED BY BillTypeMeans
            DEF BillTyped, SyncSkipsPush, SyncFailsToDeliver, SyncMissesAnswer, SyncStamps, billHistory
  <2> QED BY <2>3, <2>4, <2>5, <2>6, BillTypeMeans DEF BillTyped
<1>7. CASE \E s \in Syncs : SyncReadsDead(s)
  <2> PICK s \in Syncs : SyncReadsDead(s)
    BY <1>7
  <2>1. Dead(s) \in SUBSET Bills /\ Dead(s) \cap billSync[s].list = {} /\ Put(s, Swept(s, Dead(s)))
    BY DEF SyncReadsDead, Dead, There, Swept
  <2>2. Sound(Swept(s, Dead(s)))
    BY <1>0, <2>1, SweptSound DEF SyncReadsDead
  <2>3. billSync' \in [Syncs -> BillSyncRow] /\ \A q \in Syncs : Sound(billSync'[q])
    BY <1>0, <2>1, <2>2, OneSyncTyped DEF Sound
  <2> QED BY <2>3, BillTypeMeans DEF BillTyped, SyncReadsDead, billHistory, billCounts
<1>8. CASE \E s \in Syncs : SyncDeletesPdfs(s)
  <2> PICK s \in Syncs : SyncDeletesPdfs(s)
    BY <1>8
  <2>1. Sound(Step(s, "delrow")) /\ Put(s, Step(s, "delrow"))
    BY <1>0, StepSound DEF SyncDeletesPdfs
  <2>2. billSync' \in [Syncs -> BillSyncRow] /\ \A q \in Syncs : Sound(billSync'[q])
    BY <1>0, <2>1, OneSyncTyped DEF Sound
  <2> QED BY <2>2, BillTypeMeans DEF BillTyped, SyncDeletesPdfs, billHistory, billCounts
<1>9. CASE \E s \in Syncs : SyncDeletesRows(s)
  <2> PICK s \in Syncs : SyncDeletesRows(s)
    BY <1>9
  <2>1. Sound(Step(s, "visit")) /\ billSync[s].dead \subseteq Bills
    BY <1>0, StepSound DEF SyncDeletesRows, Sound, BillSyncRow
  <2>2. billSync' \in [Syncs -> BillSyncRow] /\ \A q \in Syncs : Sound(billSync'[q])
    <3>1. \A q \in Syncs : billSync'[q] \in {Step(s, "visit"), Gone(q), billSync[q]}
      BY DEF SyncDeletesRows, Gone
    <3>2. \A q \in Syncs : Sound(billSync'[q])
      BY <1>0, <2>1, <3>1, MarkedSound
    <3>3. billSync' = [q \in Syncs |-> billSync'[q]]
      BY DEF SyncDeletesRows
    <3>4. \A q \in Syncs : billSync'[q] \in BillSyncRow
      BY <3>2 DEF Sound
    <3> QED BY <3>2, <3>3, <3>4
  <2>3. row' \in [Bills -> Line]
    BY BillTypeMeans DEF BillTyped, SyncDeletesRows, NoLine, Line
  <2> QED BY <2>1, <2>2, <2>3, BillTypeMeans DEF BillTyped, SyncDeletesRows, billCounts
<1>10. CASE \E s \in Syncs : SyncVisits(s)
  <2> PICK s \in Syncs : SyncVisits(s)
    BY <1>10
  <2>1. billSync' \in [Syncs -> BillSyncRow] /\ \A q \in Syncs : Sound(billSync'[q])
    BY <1>0, IdleSound, OneSyncTyped DEF SyncVisits, Sound
  <2> QED BY <2>1, BillTypeMeans DEF BillTyped, SyncVisits, billHistory, billCounts
<1>11. CASE BillRestart \/ \E s \in Syncs : SyncTrips(s) \/ BillSyncFails(s)
  <2>1. PICK syncs \in SUBSET Syncs : Die(syncs)
    BY <1>11 DEF SyncTrips, BillSyncFails, BillRestart
  <2>2. billSync' \in [Syncs -> BillSyncRow] /\ \A q \in Syncs : Sound(billSync'[q])
    BY <1>0, <2>1, IdleSound DEF Die, Sound
  <2>3. UNCHANGED billCounts \/ BillFault
    BY <1>11 DEF SyncTrips, BillSyncFails, BillRestart
  <2>4. crmChanges' \in 0..MaxCrmChanges /\ billFaults' \in 0..MaxBillFaults
    BY <2>3, BillBounds, BillTypeMeans DEF BillTyped, billCounts, BillFault
  <2> QED BY <2>1, <2>2, <2>4, BillTypeMeans DEF BillTyped, Die, Unstamped, Unnoted
<1>12. CASE UNCHANGED billVars
  BY <1>12 DEF BillTypeOK, billVars
<1> QED
  BY <1>1, <1>2, <1>3, <1>4, <1>5, <1>6, <1>7, <1>8, <1>9, <1>10, <1>11, <1>12 DEF BillStepped

(* Every reachable state is well typed: a sync has a bill in hand exactly    *)
(* while it is at work on one, and never means to delete what was listed.    *)
THEOREM BillTypeTheorem == BillSpec => []BillTypeOK
<1>1. BillTypeOK /\ [BillNext]_billVars => BillTypeOK'
  BY BillNextIsAStep, BillTypeStep
<1> QED BY <1>1, BillTypeInit, PTL DEF BillSpec

-------------------------------------------------------------------------------
(* The steps of a sync, told by what they do to the record of each sync.     *)

Only(s, x) == billSync'[s] = x /\ \A q \in Syncs \ {s} : billSync'[q] = billSync[q]

LEMMA PutIsOnly ==
  ASSUME BillTypeOK, NEW s \in Syncs, NEW x, Put(s, x)
  PROVE  Only(s, x)
BY BillTypeMeans DEF BillTyped, Put, Only

LEMMA BillInvInit == BillInit => BillInv
BY DEF BillInit, BillInv, HandInv, ToldInv, AloneInv, SweptInv, ListInv, PdfIsOffered,
       IdleSyncOfBills, Listing

LEMMA BillInvStep ==
  ASSUME BillTypeOK, BillInv, BillStepped
  PROVE  BillInv'
<1>0. /\ row \in [Bills -> Line] /\ pdfs \subseteq Bills /\ crm \subseteq Bills
      /\ delivered \subseteq Bills /\ excused \subseteq Bills
      /\ \A s \in Syncs : Sound(billSync[s])
  BY BillTypeMeans DEF BillTyped
<1> USE DEF BillInv
<1>1. CASE \/ \E b \in Bills : CrmChanges(b)
           \/ PhoneRegisters
           \/ UNCHANGED billVars
  <2> UNCHANGED <<row, pdfs, billSync, delivered, excused, torn>>
    BY <1>1 DEF CrmChanges, PhoneRegisters, billVars, billHistory
  <2> QED BY DEF HandInv, ToldInv, HasUntold, AloneInv, SweptInv, ListInv, PdfIsOffered, There, Has
<1>3. CASE \E s \in Syncs, withPdf \in BOOLEAN : SyncBegins(s, withPdf)
  <2> PICK s \in Syncs, withPdf \in BOOLEAN : SyncBegins(s, withPdf)
    BY <1>3
  <2> DEFINE others == {q \in Syncs : billSync[q].pc # "idle"}
             x == Begun(withPdf, others = {})
  <2>1. /\ billSync'[s] = x
        /\ \A q \in Syncs \ {s} : billSync'[q] =
             IF billSync[q].pc # "idle" THEN Joined(q) ELSE billSync[q]
        /\ billSync[s].pc = "idle"
    BY DEF SyncBegins, Begun, Joined
  <2>2. UNCHANGED <<row, pdfs, delivered, excused, torn>>
    BY DEF SyncBegins, billHistory
  <2>3. /\ x.pc = "next" /\ x.bill = NoBill /\ ~x.gone /\ x.list = x.todo
        /\ x.alone => \A q \in Syncs : billSync[q].pc = "idle"
    <3>1. (others = {}) \in BOOLEAN
      OBVIOUS
    <3>2. others = {} => \A q \in Syncs : billSync[q].pc = "idle"
      OBVIOUS
    <3> HIDE DEF others
    <3> QED BY <1>0, <3>1, <3>2, BegunSound
  <2> HIDE DEF x, others
  <2>4. \A q \in Syncs \ {s} :
          /\ billSync'[q].pc = billSync[q].pc /\ billSync'[q].bill = billSync[q].bill
          /\ billSync'[q].told = billSync[q].told /\ billSync'[q].gone = billSync[q].gone
          /\ billSync'[q].alone => billSync'[q] = billSync[q] /\ billSync[q].pc = "idle"
    BY <1>0, <2>1, MarkedSound
  <2>5. HandInv' /\ ToldInv' /\ PdfIsOffered'
    BY <1>0, <2>1, <2>2, <2>3, <2>4, NoBillAssumption DEF HandInv, ToldInv, HasUntold, PdfIsOffered, Has, Sound, InHand
  <2>6. AloneInv' /\ SweptInv' /\ ListInv'
    BY <2>1, <2>2, <2>3, <2>4 DEF AloneInv, SweptInv, ListInv, Listing, There
  <2> QED BY <2>5, <2>6
<1>4. CASE \E s \in Syncs, b \in Bills : SyncUpserts(s, b)
  <2> PICK s \in Syncs, b \in Bills : SyncUpserts(s, b)
    BY <1>4
  <2> DEFINE x == TakesUp(s, b, Upserted(b).told)
  <2>1. /\ Upserted(b).told \in BOOLEAN /\ Upserted(b).there
        /\ row[b].there => Upserted(b) = row[b]
        /\ ~row[b].there => ~Upserted(b).told /\ ~Upserted(b).bytes
    BY UpsertedLine DEF Line
  <2>2. Only(s, x) /\ billSync[s].pc = "next" /\ b \in billSync[s].todo
    BY PutIsOnly DEF SyncUpserts, TakesUp
  <2>3. /\ x.pc \in {"pdf", "push"} /\ x.list = billSync[s].list
        /\ x.todo = billSync[s].todo \ {b} /\ x.bill = b /\ x.told = Upserted(b).told
        /\ x.gone = billSync[s].gone /\ x.alone = billSync[s].alone
    BY <1>0, <2>1, TakesUpSound
  <2>4. UNCHANGED <<pdfs, delivered, torn>> /\ row' = [row EXCEPT ![b] = Upserted(b)]
    BY DEF SyncUpserts
  <2>5. /\ excused \subseteq excused'
        /\ ~Upserted(b).told /\ (\E q \in Syncs : Has(q, "stamp", b)) => b \in excused'
    BY DEF SyncUpserts
  <2>6. billSync[s].bill = NoBill /\ ~billSync[s].gone
    BY <1>0, <2>2 DEF Sound, InHand, HandInv
  <2> HIDE DEF x
  <2>7. HandInv'
    BY <1>0, <2>1, <2>2, <2>3, <2>4, <2>6, NoBillAssumption DEF HandInv, Only, Sound, BillSyncRow
  <2>8. ToldInv'
    BY <1>0, <2>1, <2>2, <2>3, <2>4, <2>5, <2>6, NoBillAssumption DEF ToldInv, HasUntold, Only, Has
  <2>9. PdfIsOffered'
    BY <1>0, <2>1, <2>2, <2>3, <2>4, <2>6, NoBillAssumption DEF PdfIsOffered, Only, Has
  <2>10. AloneInv' /\ SweptInv'
    BY <1>0, <2>1, <2>2, <2>3, <2>4 DEF AloneInv, SweptInv, Only
  <2>11. ListInv'
    BY <1>0, <2>1, <2>2, <2>3, <2>4 DEF AloneInv, ListInv, Listing, Only, There
  <2> QED BY <2>7, <2>8, <2>9, <2>10, <2>11
<1>5. CASE \E s \in Syncs : SyncLooksForPdf(s) \/ SyncStoresPdf(s) \/ SyncNotesBytes(s)
  <2> PICK s \in Syncs : SyncLooksForPdf(s) \/ SyncStoresPdf(s) \/ SyncNotesBytes(s)
    BY <1>5
  <2>1. PICK pc \in {"store", "bytes", "push"} :
          /\ Put(s, Step(s, pc)) /\ billSync[s].pc \in {"pdf", "store", "bytes"}
          /\ pc = "bytes" <=> billSync[s].pc = "store"
          /\ pc = "store" => billSync[s].pc = "pdf"
    BY DEF SyncLooksForPdf, SyncStoresPdf, SyncNotesBytes
  <2> DEFINE x == Step(s, pc)
  <2>2. Only(s, x)
    BY <2>1, PutIsOnly
  <2>3. /\ x.pc = pc /\ x.list = billSync[s].list /\ x.todo = billSync[s].todo
        /\ x.bill = billSync[s].bill /\ x.told = billSync[s].told
        /\ x.gone = billSync[s].gone /\ x.alone = billSync[s].alone
    BY <1>0, <2>1, StepSound DEF InHand
  <2> HIDE DEF x
  <2> PICK b \in Bills : b = billSync[s].bill
    BY <1>0, <2>1 DEF Sound, BillSyncRow, InHand
  <2>4. /\ UNCHANGED <<delivered, excused, torn>>
        /\ pdfs' = pdfs \/ (pc = "bytes" /\ pdfs' = pdfs \cup {b})
        /\ row' = row \/ (~billSync[s].gone /\ row' = [row EXCEPT ![b].bytes = TRUE])
        /\ billSync[s].pc = "bytes" => ~billSync[s].gone /\ row' = [row EXCEPT ![b].bytes = TRUE]
    BY <2>1 DEF SyncLooksForPdf, SyncStoresPdf, SyncNotesBytes, billHistory
  <2>5. \A c \in Bills : /\ row'[c].there = row[c].there /\ row'[c].told = row[c].told
                         /\ row[c].bytes => row'[c].bytes
    <3>1. CASE row' = row
      BY <3>1
    <3>2. CASE row' = [row EXCEPT ![b].bytes = TRUE]
      BY <1>0, <3>2, MarkedLine
    <3> QED BY <2>4, <3>1, <3>2
  <2>6. billSync[s].pc = "bytes" => row'[b].there /\ row'[b].bytes
    <3> SUFFICES ASSUME billSync[s].pc = "bytes" PROVE row'[b].there /\ row'[b].bytes
      OBVIOUS
    <3>1. row[b].there
      BY <2>4, NoBillAssumption DEF HandInv
    <3>2. LET r == [row EXCEPT ![b].bytes = TRUE] IN r[b].there = row[b].there /\ r[b].bytes
      BY <1>0, MarkedLine
    <3> QED BY <2>4, <3>1, <3>2
  <2>7. HandInv' /\ ToldInv'
    BY <1>0, <2>1, <2>2, <2>3, <2>4, <2>5 DEF HandInv, ToldInv, HasUntold, Has, Only, Sound, BillSyncRow
  <2>8. AloneInv' /\ SweptInv'
    BY <1>0, <2>1, <2>2, <2>3, <2>4 DEF AloneInv, SweptInv, Only
  <2>9. PdfIsOffered'
    BY <1>0, <2>1, <2>2, <2>3, <2>4, <2>5, <2>6 DEF PdfIsOffered, Has, Only
  <2>10. There' = There
    BY <2>5 DEF There
  <2>11. ListInv'
    BY <2>1, <2>2, <2>3, <2>10 DEF ListInv, Listing, Only
  <2> QED BY <2>7, <2>8, <2>9, <2>11
<1>6. CASE \E s \in Syncs : \/ SyncSkipsPush(s) \/ SyncFailsToDeliver(s)
                            \/ SyncMissesAnswer(s) \/ SyncStamps(s)
  <2> PICK s \in Syncs : \/ SyncSkipsPush(s) \/ SyncFailsToDeliver(s)
                            \/ SyncMissesAnswer(s) \/ SyncStamps(s)
    BY <1>6
  <2> DEFINE x == NextBill(s)
  <2>1. Put(s, x) /\ billSync[s].pc \in {"push", "stamp"}
    BY DEF SyncSkipsPush, SyncFailsToDeliver, SyncMissesAnswer, SyncStamps
  <2>2. Only(s, x)
    BY <2>1, PutIsOnly
  <2>3. /\ x.pc = "next" /\ x.list = billSync[s].list /\ x.todo = billSync[s].todo
        /\ x.bill = NoBill /\ ~x.told /\ ~x.gone /\ x.alone = billSync[s].alone
    BY <1>0, <2>1, NextBillSound DEF InHand
  <2> HIDE DEF x
  <2> PICK b \in Bills : b = billSync[s].bill
    BY <1>0, <2>1 DEF Sound, BillSyncRow, InHand
  <2>4. /\ UNCHANGED <<pdfs, torn>>
        /\ \A c \in Bills : c \in delivered' \ excused' => c \in delivered \ excused
        /\ delivered' \subseteq Bills
        /\ row' = row \/ row' = [row EXCEPT ![b].told = TRUE]
        /\ billSync[s].pc = "stamp" => ~billSync[s].gone /\ row' = [row EXCEPT ![b].told = TRUE]
    BY <1>0 DEF SyncSkipsPush, SyncFailsToDeliver, SyncMissesAnswer, SyncStamps, billHistory
  <2>5. \A c \in Bills : /\ row'[c].there = row[c].there /\ row'[c].bytes = row[c].bytes
                         /\ row[c].told => row'[c].told
    <3>1. CASE row' = row
      BY <3>1
    <3>2. CASE row' = [row EXCEPT ![b].told = TRUE]
      BY <1>0, <3>2, MarkedLine
    <3> QED BY <2>4, <3>1, <3>2
  <2>6. billSync[s].pc = "stamp" => row'[b].there /\ row'[b].told
    <3> SUFFICES ASSUME billSync[s].pc = "stamp" PROVE row'[b].there /\ row'[b].told
      OBVIOUS
    <3>1. row[b].there
      BY <2>4, NoBillAssumption DEF HandInv
    <3>2. LET r == [row EXCEPT ![b].told = TRUE] IN r[b].there = row[b].there /\ r[b].told
      BY <1>0, MarkedLine
    <3> QED BY <2>4, <3>1, <3>2
  <2>7. HandInv'
    BY <1>0, <2>2, <2>3, <2>5 DEF HandInv, Only, Sound, BillSyncRow
  <2>8. ToldInv'
    BY <2>1, <2>2, <2>3, <2>4, <2>5, <2>6, NoBillAssumption DEF ToldInv, HasUntold, Has, Only
  <2>9. AloneInv' /\ SweptInv'
    BY <2>1, <2>2, <2>3, <2>4 DEF AloneInv, SweptInv, Only
  <2>10. PdfIsOffered'
    BY <1>0, <2>1, <2>2, <2>3, <2>4, <2>5 DEF PdfIsOffered, Has, Only
  <2>11. There' = There
    BY <2>5 DEF There
  <2>12. ListInv'
    BY <2>1, <2>2, <2>3, <2>11 DEF ListInv, Listing, Only
  <2> QED BY <2>7, <2>8, <2>9, <2>10, <2>12
<1>7. CASE \E s \in Syncs : SyncDelivers(s)
  <2> PICK s \in Syncs : SyncDelivers(s)
    BY <1>7
  <2> DEFINE x == Step(s, "stamp")
  <2>1. Only(s, x) /\ billSync[s].pc = "push" /\ ~billSync[s].told
    BY PutIsOnly DEF SyncDelivers
  <2>2. /\ x.pc = "stamp" /\ x.list = billSync[s].list /\ x.todo = billSync[s].todo
        /\ x.bill = billSync[s].bill /\ x.told = billSync[s].told
        /\ x.gone = billSync[s].gone /\ x.alone = billSync[s].alone
    BY <1>0, <2>1, StepSound DEF InHand
  <2> HIDE DEF x
  <2> PICK b \in Bills : b = billSync[s].bill
    BY <1>0, <2>1 DEF Sound, BillSyncRow, InHand
  <2>3. /\ UNCHANGED <<row, pdfs, torn>> /\ delivered' = delivered \cup {b}
        /\ \A c \in Bills \ {b} : c \in excused' <=> c \in excused
        /\ b \notin excused' => \A q \in Syncs \ {s} : ~HasUntold(q, b)
    BY DEF SyncDelivers
  <2>4. HandInv' /\ AloneInv' /\ SweptInv' /\ PdfIsOffered'
    BY <2>1, <2>2, <2>3 DEF HandInv, AloneInv, SweptInv, PdfIsOffered, Has, Only
  <2>5. ListInv'
    BY <2>1, <2>2, <2>3 DEF ListInv, Listing, Only, There
  <2>6. ToldInv'
    <3>1. ASSUME NEW c \in delivered \ excused, c # b
          PROVE  /\ \/ row'[c].there /\ row'[c].told
                    \/ \E q \in Syncs : billSync'[q].pc = "stamp" /\ billSync'[q].bill = c
                 /\ \A q \in Syncs : billSync'[q].bill = c /\ ~billSync'[q].told =>
                      billSync'[q].pc = "stamp"
      BY <2>1, <2>2, <2>3, <3>1 DEF ToldInv, HasUntold, Has, Only
    <3>2. billSync'[s].pc = "stamp" /\ billSync'[s].bill = b
      BY <2>1, <2>2 DEF Only
    <3>3. b \notin excused' =>
            \A q \in Syncs : billSync'[q].bill = b /\ ~billSync'[q].told =>
              billSync'[q].pc = "stamp"
      BY <2>1, <2>2, <2>3 DEF HasUntold, Only
    <3>4. ASSUME NEW c \in delivered' \ excused' PROVE c = b \/ c \in delivered \ excused
      BY <1>0, <2>3
    <3> QED BY <3>1, <3>2, <3>3, <3>4 DEF ToldInv, HasUntold, Has
  <2> QED BY <2>4, <2>5, <2>6
<1>8. CASE \E s \in Syncs : SyncReadsDead(s)
  <2> PICK s \in Syncs : SyncReadsDead(s)
    BY <1>8
  <2> DEFINE x == Swept(s, Dead(s))
  <2>1. Only(s, x) /\ billSync[s].pc = "next" /\ billSync[s].todo = {}
    BY PutIsOnly DEF SyncReadsDead, Swept
  <2>2. Dead(s) \in SUBSET Bills /\ Dead(s) \cap billSync[s].list = {}
    BY DEF Dead, There
  <2>3. /\ x.pc = IF Dead(s) = {} THEN "visit" ELSE "delpdf"
        /\ x.list = billSync[s].list /\ x.dead = Dead(s)
        /\ x.bill = NoBill /\ x.gone = billSync[s].gone /\ x.alone = billSync[s].alone
    BY <1>0, <2>1, <2>2, SweptSound
  <2> HIDE DEF x
  <2>4. UNCHANGED <<row, pdfs, delivered, excused, torn>>
    BY DEF SyncReadsDead, billHistory
  <2>5. billSync[s].bill = NoBill
    BY <1>0, <2>1 DEF Sound, InHand
  <2>6. HandInv' /\ ToldInv' /\ PdfIsOffered' /\ AloneInv' /\ SweptInv'
    <3>1. ToldInv'
      BY <1>0, <2>1, <2>3, <2>4, <2>5, NoBillAssumption DEF ToldInv, HasUntold, Has, Only
    <3>2. HandInv' /\ PdfIsOffered' /\ AloneInv' /\ SweptInv'
      BY <2>1, <2>3, <2>4, <2>5, NoBillAssumption
         DEF HandInv, PdfIsOffered, AloneInv, SweptInv, Has, Only
    <3> QED BY <3>1, <3>2
  <2>7. There' = There
    BY <2>4 DEF There
  <2>8. x.alone => billSync[s].list \subseteq There
    BY <2>1, <2>3 DEF ListInv, Listing
  <2>9. ListInv'
    <3>1. x.alone => /\ Dead(s) = There \ billSync[s].list
                     /\ Dead(s) = {} => There = billSync[s].list
      BY <2>8 DEF Dead
    <3>2. ASSUME NEW q \in Syncs \ {s} PROVE billSync'[q] = billSync[q]
      BY <2>1 DEF Only
    <3>3. billSync'[s] = x
      BY <2>1 DEF Only
    <3> QED BY <2>3, <2>7, <2>8, <3>1, <3>2, <3>3 DEF ListInv, Listing
  <2> QED BY <2>6, <2>9
<1>9. CASE \E s \in Syncs : SyncDeletesPdfs(s)
  <2> PICK s \in Syncs : SyncDeletesPdfs(s)
    BY <1>9
  <2> DEFINE x == Step(s, "delrow")
  <2>1. Only(s, x) /\ billSync[s].pc = "delpdf"
    BY PutIsOnly DEF SyncDeletesPdfs
  <2>2. /\ x.pc = "delrow" /\ x.list = billSync[s].list /\ x.todo = billSync[s].todo
        /\ x.bill = billSync[s].bill /\ x.told = billSync[s].told
        /\ x.gone = billSync[s].gone /\ x.alone = billSync[s].alone
        /\ x.dead = billSync[s].dead
    BY <1>0, <2>1, StepSound
  <2> HIDE DEF x
  <2>3. UNCHANGED <<row, delivered, excused, torn>> /\ pdfs' = pdfs \ billSync[s].dead
    BY DEF SyncDeletesPdfs, DeadPdfs, billHistory
  <2>4. HandInv' /\ ToldInv' /\ PdfIsOffered' /\ AloneInv' /\ SweptInv'
    BY <2>1, <2>2, <2>3 DEF HandInv, ToldInv, HasUntold, PdfIsOffered, AloneInv, SweptInv, Has, Only
  <2>5. ListInv'
    BY <2>1, <2>2, <2>3 DEF ListInv, Listing, Only, There
  <2> QED BY <2>4, <2>5
<1>10. CASE \E s \in Syncs : SyncDeletesRows(s)
  <2> PICK s \in Syncs : SyncDeletesRows(s)
    BY <1>10
  <2> DEFINE x == Step(s, "visit")
             dead == billSync[s].dead
  <2>1. /\ billSync[s].pc = "delrow" /\ billSync'[s] = x
        /\ \A q \in Syncs \ {s} : billSync'[q] =
             IF billSync[q].bill \in dead THEN Gone(q) ELSE billSync[q]
    BY DEF SyncDeletesRows, Gone
  <2>2. /\ x.pc = "visit" /\ x.list = billSync[s].list
        /\ x.bill = billSync[s].bill /\ x.gone = billSync[s].gone /\ x.alone = billSync[s].alone
        /\ billSync[s].bill = NoBill /\ dead \subseteq Bills
    BY <1>0, <2>1, StepSound DEF Sound, BillSyncRow, InHand
  <2>3. \A q \in Syncs \ {s} :
          /\ billSync'[q].pc = billSync[q].pc /\ billSync'[q].bill = billSync[q].bill
          /\ billSync'[q].told = billSync[q].told /\ billSync'[q].alone = billSync[q].alone
          /\ billSync'[q].dead = billSync[q].dead
          /\ billSync'[q].gone <=> (billSync[q].gone \/ billSync[q].bill \in dead)
    BY <1>0, <2>1, MarkedSound DEF Sound, BillSyncRow
  <2>4. /\ UNCHANGED <<pdfs, delivered>>
        /\ \A b \in Bills : row'[b] = IF b \in dead THEN NoLine ELSE row[b]
        /\ excused' = excused \cup dead
        /\ torn' = IF billSync[s].alone THEN torn ELSE torn \cup dead
    BY DEF SyncDeletesRows
  <2> HIDE DEF x, dead
  <2>5. HandInv' /\ ToldInv'
    <3>1. \A q \in Syncs : billSync[q].bill \in Bills \cup {NoBill}
      BY <1>0 DEF Sound, BillSyncRow
    <3>2. HandInv'
      BY <2>1, <2>2, <2>3, <2>4, <3>1, NoBillAssumption DEF HandInv
    <3>3. ToldInv'
      <4>1. \A q \in Syncs : /\ billSync'[q].bill = billSync[q].bill
                             /\ q # s => billSync'[q].told = billSync[q].told
                             /\ billSync'[q].pc = "stamp" <=> billSync[q].pc = "stamp"
        BY <2>1, <2>2, <2>3
      <4>2. ASSUME NEW b \in delivered' \ excused'
            PROVE  b \in delivered \ excused /\ row'[b] = row[b] /\ b \in Bills
        BY <1>0, <2>4
      <4>3. billSync'[s].bill \notin Bills
        BY <2>1, <2>2, NoBillAssumption
      <4> QED BY <4>1, <4>2, <4>3 DEF ToldInv, HasUntold, Has
    <3> QED BY <3>2, <3>3
  <2>6. AloneInv' /\ SweptInv'
    BY <2>1, <2>2, <2>3, <2>4 DEF AloneInv, SweptInv
  <2>7. billSync[s].alone => dead \cap pdfs = {}
    BY <2>1 DEF SweptInv, dead
  <2>8. PdfIsOffered'
    BY <1>0, <2>1, <2>2, <2>3, <2>4, <2>7 DEF PdfIsOffered, Has
  <2>9. There' = There \ dead
    BY <1>0, <2>4 DEF There, NoLine
  <2>10. billSync[s].alone => billSync[s].list \subseteq There /\ dead = There \ billSync[s].list
    BY <2>1 DEF ListInv, dead
  <2>11. ASSUME NEW q \in Syncs \ {s}, billSync'[q].alone PROVE billSync'[q].pc = "idle"
    BY <2>1, <2>3, <2>11 DEF AloneInv
  <2>12. ListInv'
    BY <2>1, <2>2, <2>9, <2>10, <2>11 DEF ListInv, Listing
  <2> QED BY <2>5, <2>6, <2>8, <2>12
<1>11. CASE \E s \in Syncs : SyncVisits(s)
  <2> PICK s \in Syncs : SyncVisits(s)
    BY <1>11
  <2>1. Only(s, IdleSyncOfBills) /\ billSync[s].pc = "visit"
    BY PutIsOnly DEF SyncVisits
  <2>2. UNCHANGED <<row, pdfs, delivered, excused, torn>>
    BY DEF SyncVisits, billHistory
  <2>3. HandInv' /\ ToldInv' /\ PdfIsOffered' /\ AloneInv' /\ SweptInv'
    <3>1. ToldInv'
      BY <1>0, <2>1, <2>2, IdleSound, NoBillAssumption DEF ToldInv, HasUntold, Has, Only
    <3>2. HandInv' /\ PdfIsOffered' /\ AloneInv' /\ SweptInv'
      BY <2>1, <2>2, IdleSound, NoBillAssumption
         DEF HandInv, PdfIsOffered, AloneInv, SweptInv, Has, Only
    <3> QED BY <3>1, <3>2
  <2>4. ListInv'
    BY <2>1, <2>2, IdleSound DEF ListInv, Listing, Only, There
  <2> QED BY <2>3, <2>4
<1>12. CASE BillRestart \/ \E s \in Syncs : SyncTrips(s) \/ BillSyncFails(s)
  <2>1. PICK syncs \in SUBSET Syncs : Die(syncs)
    BY <1>12 DEF SyncTrips, BillSyncFails, BillRestart
  <2>2. /\ \A q \in Syncs \ syncs : billSync'[q] = billSync[q]
        /\ \A q \in syncs : billSync'[q] = IdleSyncOfBills
        /\ UNCHANGED <<row, pdfs, delivered>>
        /\ excused' = excused \cup Unstamped(syncs) /\ torn' = torn \cup Unnoted(syncs)
    BY <2>1 DEF Die
  <2>3. HandInv' /\ AloneInv' /\ SweptInv'
    BY <2>2, IdleSound, NoBillAssumption DEF HandInv, AloneInv, SweptInv
  <2>4. ToldInv'
    <3>1. ASSUME NEW b \in delivered' \ excused'
          PROVE  /\ b \in delivered \ excused /\ b \in Bills /\ row'[b] = row[b]
                 /\ \A q \in syncs : ~Has(q, "stamp", b)
      BY <1>0, <2>2 DEF Unstamped
    <3>2. \A q \in syncs : billSync'[q].bill = NoBill
      BY <2>2, IdleSound
    <3> QED BY <2>2, <3>1, <3>2, NoBillAssumption DEF ToldInv, HasUntold, Has
  <2>5. PdfIsOffered'
    BY <1>0, <2>2, IdleSound DEF PdfIsOffered, Unnoted, Has
  <2>6. ListInv'
    BY <2>2, IdleSound DEF ListInv, Listing, There
  <2> QED BY <2>3, <2>4, <2>5, <2>6
<1> QED
  BY <1>1, <1>3, <1>4, <1>5, <1>6, <1>7, <1>8, <1>9, <1>10, <1>11, <1>12 DEF BillStepped

(* What the syncs know of each other and of the rows holds in every          *)
(* reachable state.                                                          *)
THEOREM BillInvTheorem == BillSpec => [](BillTypeOK /\ BillInv)
<1>1. BillTypeOK /\ BillInv /\ [BillNext]_billVars => (BillTypeOK /\ BillInv)'
  BY BillNextIsAStep, BillTypeStep, BillInvStep
<1> QED BY <1>1, BillTypeInit, BillInvInit, PTL DEF BillSpec

(* No bill is told of again without cause (avisarBoletoNovo), however syncs  *)
(* interleave, miss an answer, trip over deleted rows, fail and restart: who *)
(* is about to push holds the bill as one not told of, which the invariant   *)
(* leaves only to a bill that something excuses since its last push.         *)
THEOREM ToldOnceTheorem == BillSpec => ToldOnce
<1>1. ASSUME BillInv
      PROVE  [\A s \in Syncs :
               (SyncDelivers(s) \/ SyncMissesAnswer(s)) /\ billSync[s].bill \in delivered
                 => billSync[s].bill \in excused]_billVars
  <2>1. ASSUME NEW s \in Syncs, SyncDelivers(s) \/ SyncMissesAnswer(s)
        PROVE  HasUntold(s, billSync[s].bill)
    BY <2>1 DEF SyncDelivers, SyncMissesAnswer, HasUntold
  <2> QED BY <1>1, <2>1 DEF BillInv, ToldInv
<1> QED BY <1>1, BillInvTheorem, PTL DEF BillSpec, ToldOnce

(* No stored PDF is hidden by a sync that ran alone: its deletions leave no  *)
(* PDF behind, and the update of pdfBytes reaches the row.                   *)
THEOREM PdfTheorem == BillSpec => []PdfIsOffered
<1>1. BillInv => PdfIsOffered
  BY DEF BillInv
<1> QED BY <1>1, BillInvTheorem, PTL

(* The visit is stamped when what the app shows is the list of the CRM.      *)
THEOREM VisitTheorem == BillSpec => VisitShowsTheList
<1>1. ASSUME BillInv
      PROVE  [\A s \in Syncs :
               SyncVisits(s) /\ billSync[s].alone => There = billSync[s].list]_billVars
  BY <1>1 DEF BillInv, ListInv, SyncVisits
<1> QED BY <1>1, BillInvTheorem, PTL DEF BillSpec, VisitShowsTheList

-------------------------------------------------------------------------------
(* LocationShares.                                                           *)

WaitingIsTrue ==
  \A q \in Viewers : view[q].pc = "car" /\ ~view[q].turned =>
    \A l \in view[q].links :
      alive /\ link[l].state = "active" /\ link[l].by \in {Panel, owner}

Row  == [by : Makers, state : {"none", "active", "revoked", "expired"}]
Job  == [pc : {"idle", "car", "counted"}, by : Makers]
Look == [pc : {"idle", "link", "car"}, links : SUBSET Links, turned : BOOLEAN]
Sell == [pc : {"idle", "asked"}, to : Makers]

ShareStep ==
  \/ \E q \in Creators, by \in Makers : CreateReadsCar(q, by)
  \/ \E q \in Creators : CreateCounts(q)
  \/ \E q \in Creators, l \in Links : CreateWrites(q, l)
  \/ \E q \in Viewers, l \in Links : ViewReadsLink(q, l)
  \/ \E q \in Viewers : ViewReadsCar(q)
  \/ \E q \in Viewers : ViewAnswers(q)
  \/ \E q \in Sellers, new \in Owners : TransferAsks(q, new)
  \/ \E q \in Sellers : TransferWrites(q)
  \/ \E l \in Links : Revoke(l)
  \/ \E l \in Links : Expire(l)
  \/ TrackerChanges
  \/ CarChanges
  \/ UNCHANGED shareVars

LEMMA ShareNextIsAStep ==
  ASSUME [ShareNext]_shareVars
  PROVE  ShareStep
BY Zenon DEF ShareNext, ShareStep

-------------------------------------------------------------------------------
(* Typing.                                                                   *)

LEMMA ShareIdles ==
  /\ IdleView \in Look /\ IdleView.pc = "idle" /\ IdleView.links = {}
  /\ IdleCreation \in Job /\ IdleTransfer \in Sell
  /\ IdleTransfer.pc = "idle" /\ IdleTransfer.to \notin Owners
  /\ NoLink \in Row
BY PanelAssumption DEF IdleView, IdleCreation, IdleTransfer, NoLink, Row, Job, Look, Sell, Makers

(* Noting what has turned changes nothing else of a page.                    *)
LEMMA TurnedTyped ==
  ASSUME NEW vs \in [Viewers -> Look], NEW which
  PROVE  /\ Turned(vs, which) \in [Viewers -> Look]
         /\ \A q \in Viewers : /\ Turned(vs, which)[q].pc = vs[q].pc
                               /\ Turned(vs, which)[q].links = vs[q].links
BY DEF Turned, Look

(* The part of the type that is about the pages, and the other.              *)
ViewsTyped ==
  /\ view \in [Viewers -> Look]
  /\ \A q \in Viewers : Cardinality(view[q].links) = IF view[q].pc = "idle" THEN 0 ELSE 1
  /\ \A q \in Viewers : \A l \in view[q].links : link[l].state # "none"

LinksTyped ==
  /\ owner \in Owners /\ alive \in BOOLEAN /\ tracked \in BOOLEAN
  /\ link \in [Links -> Row]
  /\ creation \in [Creators -> Job]
  /\ transfer \in [Sellers -> Sell]
  /\ \A q \in Sellers : transfer[q].pc = "asked" <=> transfer[q].to \in Owners
  /\ sales \in 0..MaxSales

LEMMA TypedApart == (ShareTypeOK <=> ViewsTyped /\ LinksTyped)
                    /\ (ShareTypeOK' <=> ViewsTyped' /\ LinksTyped')
BY DEF ShareTypeOK, ViewsTyped, LinksTyped, Row, Job, Look, Sell

LEMMA IdleViewTyped == IdleView \in Look /\ Cardinality(IdleView.links) = 0 /\ IdleView.links = {}
                       /\ IdleView.pc = "idle"
BY FS_EmptySet DEF IdleView, Look

LEMMA ReadTyped ==
  ASSUME NEW r \in Look, NEW t \in BOOLEAN
  PROVE  /\ [r EXCEPT !.pc = "car", !.turned = t] \in Look
         /\ [r EXCEPT !.pc = "car", !.turned = t].pc = "car"
         /\ [r EXCEPT !.pc = "car", !.turned = t].links = r.links
         /\ [r EXCEPT !.pc = "car", !.turned = t].turned = t
BY DEF Look

(* A page changes, and holds at most the link it held.                       *)
LEMMA OneViewTyped ==
  ASSUME ShareTypeOK, NEW q \in Viewers, NEW x \in Look,
         x.links \subseteq view[q].links,
         Cardinality(x.links) = IF x.pc = "idle" THEN 0 ELSE 1,
         view' = [view EXCEPT ![q] = x], link' = link
  PROVE  ViewsTyped'
<1>1. view' \in [Viewers -> Look] /\ view'[q] = x /\ \A p \in Viewers \ {q} : view'[p] = view[p]
  BY TypedApart DEF ViewsTyped
<1> QED BY <1>1, TypedApart DEF ViewsTyped

(* The pages keep what they hold, and no link is forgotten.                  *)
LEMMA SameLinksTyped ==
  ASSUME ShareTypeOK,
         view' \in [Viewers -> Look],
         \A p \in Viewers : view'[p].pc = view[p].pc /\ view'[p].links = view[p].links,
         \A k \in Links : link[k].state # "none" => link'[k].state # "none"
  PROVE  ViewsTyped'
BY TypedApart DEF ViewsTyped, Look

LEMMA ShareTypeInit == ShareInit => ShareTypeOK
<1> SUFFICES ASSUME ShareInit PROVE ShareTypeOK
  OBVIOUS
<1>1. Cardinality({}) = 0
  BY FS_EmptySet
<1>2. sales \in 0..MaxSales
  BY ShareBounds DEF ShareInit
<1> QED BY <1>1, <1>2, ShareIdles DEF ShareInit, ShareTypeOK, Row, Job, Look, Sell

LEMMA ShareTypeStep ==
  ASSUME ShareTypeOK, ShareStep
  PROVE  ShareTypeOK'
<1>1. CASE \E q \in Creators, by \in Makers : CreateReadsCar(q, by)
  BY <1>1 DEF ShareTypeOK, CreateReadsCar, carVars
<1>2. CASE \E q \in Creators : CreateCounts(q)
  BY <1>2, ShareIdles DEF ShareTypeOK, CreateCounts, carVars, Job
<1>3. CASE \E q \in Creators, l \in Links : CreateWrites(q, l)
  <2> PICK q \in Creators, l \in Links : CreateWrites(q, l)
    BY <1>3
  <2>1. link' \in [Links -> Row] /\ \A k \in Links : link[k].state # "none" => link'[k].state # "none"
    BY DEF ShareTypeOK, CreateWrites, Row, Job
  <2> QED BY <2>1, ShareIdles DEF ShareTypeOK, CreateWrites, carVars, Job, Row
<1>4. CASE \E q \in Viewers, l \in Links : ViewReadsLink(q, l)
  <2> PICK q \in Viewers, l \in Links : ViewReadsLink(q, l)
    BY <1>4
  <2>1. Cardinality({l}) = 1
    BY FS_Singleton
  <2> QED BY <2>1 DEF ShareTypeOK, ViewReadsLink, Usable, carVars
<1>5. CASE \E q \in Viewers : ViewReadsCar(q)
  <2> PICK q \in Viewers : ViewReadsCar(q)
    BY <1>5
  <2> DEFINE t == \E l \in view[q].links : ~Usable(l)
             x == [view[q] EXCEPT !.pc = "car", !.turned = t]
  <2>1. view[q].pc = "link" /\ view[q] \in Look /\ t \in BOOLEAN
    BY DEF ShareTypeOK, ViewReadsCar, Look
  <2>2. view' = [view EXCEPT ![q] = IdleView] \/ view' = [view EXCEPT ![q] = x]
    BY DEF ViewReadsCar
  <2> HIDE DEF t
  <2>3. x \in Look /\ x.pc = "car" /\ x.links = view[q].links
    BY <2>1, ReadTyped
  <2>4. Cardinality(view[q].links) = 1
    BY <2>1 DEF ShareTypeOK
  <2> PICK y \in Look : y = x
    BY <2>3
  <2> HIDE DEF x
  <2>5. UNCHANGED <<carVars, link, creation, transfer, sales>>
    BY DEF ViewReadsCar
  <2>6. ASSUME view' = [view EXCEPT ![q] = x] PROVE ViewsTyped'
    <3>1. view' = [view EXCEPT ![q] = y] /\ link' = link
      BY <2>5, <2>6
    <3>2. y.links \subseteq view[q].links /\ Cardinality(y.links) = IF y.pc = "idle" THEN 0 ELSE 1
      BY <2>3, <2>4
    <3> QED BY <3>1, <3>2, OneViewTyped
  <2>7. ASSUME view' = [view EXCEPT ![q] = IdleView] PROVE ViewsTyped'
    <3>1. IdleView.links \subseteq view[q].links /\ link' = link
      BY <2>5, IdleViewTyped
    <3> QED BY <2>7, <3>1, OneViewTyped, IdleViewTyped
  <2> QED BY <2>2, <2>5, <2>6, <2>7, TypedApart DEF LinksTyped, carVars
<1>6. CASE \E q \in Viewers : ViewAnswers(q)
  <2>1. ViewsTyped'
    BY <1>6, OneViewTyped, IdleViewTyped DEF ViewAnswers
  <2> QED BY <1>6, <2>1, TypedApart DEF LinksTyped, ViewAnswers, carVars
<1>7. CASE \E q \in Sellers, new \in Owners : TransferAsks(q, new)
  BY <1>7, PanelAssumption DEF ShareTypeOK, TransferAsks, carVars, Makers
<1>8. CASE \E q \in Sellers : TransferWrites(q)
  <2> PICK q \in Sellers : TransferWrites(q)
    BY <1>8
  <2>1. view' \in [Viewers -> Look]
        /\ \A p \in Viewers : view'[p].pc = view[p].pc /\ view'[p].links = view[p].links
    BY TurnedTyped DEF ShareTypeOK, TransferWrites, Look
  <2>2. transfer' \in [Sellers -> Sell]
        /\ \A p \in Sellers : transfer'[p].pc = "asked" <=> transfer'[p].to \in Owners
    BY ShareIdles DEF ShareTypeOK, TransferWrites, Sell
  <2>3. owner' \in Owners /\ sales' \in 0..MaxSales
    BY ShareBounds DEF ShareTypeOK, TransferWrites, Sale
  <2>4. UNCHANGED <<alive, tracked, link, creation>>
    BY DEF TransferWrites
  <2>5. ViewsTyped'
    BY <2>1, <2>4, SameLinksTyped
  <2>6. LinksTyped'
    BY <2>2, <2>3, <2>4, TypedApart DEF LinksTyped
  <2> QED BY <2>5, <2>6, TypedApart
<1>9. CASE (\E l \in Links : Revoke(l)) \/ (\E l \in Links : Expire(l))
  <2> PICK l \in Links : Revoke(l) \/ Expire(l)
    BY <1>9
  <2>1. view' \in [Viewers -> Look]
        /\ \A p \in Viewers : view'[p].pc = view[p].pc /\ view'[p].links = view[p].links
    BY TurnedTyped DEF ShareTypeOK, Revoke, Expire, Look
  <2>2. link \in [Links -> Row] /\ link[l] \in Row
    BY DEF ShareTypeOK, Row
  <2>3. link' \in [Links -> Row] /\ \A k \in Links : link[k].state # "none" => link'[k].state # "none"
    <3>1. PICK new \in Row : link' = [link EXCEPT ![l] = new] /\ new.state # "none"
      <4>1. /\ [link[l] EXCEPT !.state = "revoked"] \in Row
            /\ [link[l] EXCEPT !.state = "expired"] \in Row
            /\ [link[l] EXCEPT !.state = "revoked"].state # "none"
            /\ [link[l] EXCEPT !.state = "expired"].state # "none"
        BY <2>2 DEF Row
      <4> QED BY <4>1, Zenon DEF Revoke, Expire
    <3> QED BY <2>2, <3>1
  <2>4. UNCHANGED <<carVars, creation, transfer, sales>>
    BY DEF Revoke, Expire
  <2>5. ViewsTyped'
    BY <2>1, <2>3, SameLinksTyped
  <2> QED BY <2>3, <2>4, <2>5, TypedApart DEF LinksTyped, carVars
<1>10. CASE TrackerChanges
  BY <1>10, ShareBounds DEF ShareTypeOK, TrackerChanges, Sale
<1>11. CASE CarChanges
  <2>1. view' \in [Viewers -> Look]
        /\ \A p \in Viewers : view'[p].pc = view[p].pc /\ view'[p].links = view[p].links
    BY <1>11, TurnedTyped DEF ShareTypeOK, CarChanges, Look
  <2> QED BY <1>11, <2>1, ShareBounds DEF ShareTypeOK, CarChanges, Sale, Look
<1>12. CASE UNCHANGED shareVars
  BY <1>12 DEF ShareTypeOK, shareVars
<1> QED BY <1>1, <1>2, <1>3, <1>4, <1>5, <1>6, <1>7, <1>8, <1>9, <1>10, <1>11, <1>12
        DEF ShareStep

(* Every reachable state is well typed: a page holds one link that exists, a *)
(* transfer that has been asked for names an associate.                      *)
THEOREM ShareTypeTheorem == ShareSpec => []ShareTypeOK
<1>1. ShareTypeOK /\ [ShareNext]_shareVars => ShareTypeOK'
  BY ShareNextIsAStep, ShareTypeStep
<1> QED BY <1>1, ShareTypeInit, PTL DEF ShareSpec

-------------------------------------------------------------------------------
(* The links there may be.                                                   *)

LEMMA SetsAreFinite ==
  /\ IsFiniteSet(Creators) /\ Cardinality(Creators) \in Nat
  /\ Active \subseteq Links /\ IsFiniteSet(Active) /\ Cardinality(Active) \in Nat
  /\ Counted \subseteq Creators /\ IsFiniteSet(Counted) /\ Cardinality(Counted) \in Nat
BY ShareBounds, FS_Subset, FS_CardinalityType DEF Active, Counted

LEMMA BoundInit == ShareInit => ActiveLinksAreBounded
<1> SUFFICES ASSUME ShareInit PROVE ActiveLinksAreBounded
  OBVIOUS
<1>1. Active = {} /\ Counted = {}
  BY DEF ShareInit, Active, Counted, NoLink, IdleCreation
<1> QED BY <1>1, FS_EmptySet, SetsAreFinite, ShareBounds DEF ActiveLinksAreBounded

LEMMA BoundStep ==
  ASSUME ShareTypeOK, ActiveLinksAreBounded, ShareStep
  PROVE  ActiveLinksAreBounded'
<1>1. ASSUME Active' = Active, Counted' = Counted
      PROVE  ActiveLinksAreBounded'
  BY <1>1 DEF ActiveLinksAreBounded
<1>2. CASE link' = link /\ creation' = creation
  BY <1>1, <1>2 DEF Active, Counted
<1>3. CASE \E q \in Creators, by \in Makers : CreateReadsCar(q, by)
  BY <1>1, <1>3 DEF ShareTypeOK, CreateReadsCar, Active, Counted
<1>4. CASE \E q \in Creators : CreateCounts(q)
  <2> PICK q \in Creators : CreateCounts(q)
    BY <1>4
  <2>1. Active' = Active /\ q \notin Counted
    BY DEF CreateCounts, Active, Counted
  <2>2. CASE ~RoomForOne(Cardinality(Active))
    BY <1>1, <2>1, <2>2 DEF ShareTypeOK, CreateCounts, Counted, IdleCreation
  <2>3. CASE RoomForOne(Cardinality(Active))
    <3>1. Counted' = Counted \cup {q}
      BY <2>3 DEF ShareTypeOK, CreateCounts, Counted
    <3>2. Cardinality(Counted') = Cardinality(Counted) + 1
      BY <2>1, <3>1, SetsAreFinite, FS_AddElement
    <3>3. Counted' \subseteq Creators
      BY <3>1, SetsAreFinite
    <3>4. Cardinality(Counted') <= Cardinality(Creators)
      BY <3>3, SetsAreFinite, FS_Subset
    <3>5. Cardinality(Active) < MaxActive
      BY <2>3 DEF RoomForOne
    <3> QED BY <2>1, <3>2, <3>4, <3>5, SetsAreFinite, ShareBounds DEF ActiveLinksAreBounded
  <2> QED BY <2>2, <2>3
<1>5. CASE \E q \in Creators, l \in Links : CreateWrites(q, l)
  <2> PICK q \in Creators, l \in Links : CreateWrites(q, l)
    BY <1>5
  <2>1. Active' = Active \cup {l} /\ l \notin Active
    BY DEF ShareTypeOK, CreateWrites, Active
  <2>2. Counted' = Counted \ {q} /\ q \in Counted
    BY DEF ShareTypeOK, CreateWrites, Counted, IdleCreation
  <2>3. Cardinality(Active') = Cardinality(Active) + 1
    BY <2>1, SetsAreFinite, FS_AddElement
  <2>4. Cardinality(Counted') = Cardinality(Counted) - 1
    BY <2>2, SetsAreFinite, FS_RemoveElement
  <2> QED BY <2>3, <2>4, SetsAreFinite, ShareBounds DEF ActiveLinksAreBounded
<1>6. CASE (\E l \in Links : Revoke(l)) \/ (\E l \in Links : Expire(l))
  <2>1. Active' \subseteq Active
    <3> PICK l \in Links : Revoke(l) \/ Expire(l)
      BY <1>6
    <3>1. link \in [Links -> Row]
      BY DEF ShareTypeOK, Row
    <3>2. link'[l].state # "active" /\ \A k \in Links \ {l} : link'[k] = link[k]
      BY <3>1 DEF Revoke, Expire, Row
    <3> QED BY <3>2 DEF Active
  <2>2. Counted' = Counted
    BY <1>6 DEF Revoke, Expire, Counted
  <2>3. Cardinality(Active') <= Cardinality(Active) /\ Cardinality(Active') \in Nat
    BY <2>1, SetsAreFinite, FS_Subset, FS_CardinalityType
  <2> QED BY <2>2, <2>3, SetsAreFinite, ShareBounds DEF ActiveLinksAreBounded
<1> QED BY <1>2, <1>3, <1>4, <1>5, <1>6
        DEF ShareStep, ViewReadsLink, ViewReadsCar, ViewAnswers, TransferAsks,
            TransferWrites, TrackerChanges, CarChanges, shareVars

(* The car has at most ten active links and one more for each request but    *)
(* one that may be in flight (location-shares.service.ts counts, and creates *)
(* in another statement).                                                    *)
THEOREM BoundTheorem == ShareSpec => []ActiveLinksAreBounded
<1>1. ShareTypeOK /\ ActiveLinksAreBounded /\ [ShareNext]_shareVars => ActiveLinksAreBounded'
  BY ShareNextIsAStep, BoundStep
<1> QED BY <1>1, BoundInit, ShareTypeTheorem, PTL DEF ShareSpec

-------------------------------------------------------------------------------
(* What the page answers.                                                    *)

(* A page that has not turned had not turned before, and holds no link of    *)
(* those that turn.                                                          *)
LEMMA NotTurned ==
  ASSUME NEW vs \in [Viewers -> Look], NEW which, NEW q \in Viewers,
         Turned(vs, which)[q].pc = "car", ~Turned(vs, which)[q].turned
  PROVE  vs[q].pc = "car" /\ ~vs[q].turned /\ vs[q].links \cap which = {}
BY DEF Turned, Look

LEMMA WaitingStep ==
  ASSUME ShareTypeOK, WaitingIsTrue, ShareStep
  PROVE  WaitingIsTrue'
<1>1. view \in [Viewers -> Look]
  BY DEF ShareTypeOK, Look
<1>2. CASE UNCHANGED <<owner, alive, link, view>>
  BY <1>2 DEF WaitingIsTrue
<1>3. CASE \E q \in Creators, l \in Links : CreateWrites(q, l)
  <2> PICK q \in Creators, l \in Links : CreateWrites(q, l)
    BY <1>3
  <2>1. \A p \in Viewers : l \notin view[p].links
    BY DEF ShareTypeOK, CreateWrites
  <2>2. UNCHANGED <<owner, alive, view>> /\ \A k \in Links \ {l} : link'[k] = link[k]
    BY DEF ShareTypeOK, CreateWrites, carVars
  <2> QED BY <1>1, <2>1, <2>2 DEF WaitingIsTrue, Look
<1>4. CASE \E q \in Viewers, l \in Links : ViewReadsLink(q, l)
  BY <1>1, <1>4 DEF WaitingIsTrue, ViewReadsLink, carVars, Look
<1>5. CASE \E q \in Viewers : ViewReadsCar(q)
  <2> PICK q \in Viewers : ViewReadsCar(q)
    BY <1>5
  <2>1. UNCHANGED <<owner, alive, link>> /\ \A p \in Viewers \ {q} : view'[p] = view[p]
    BY <1>1 DEF ViewReadsCar, carVars
  <2>2. ASSUME view'[q].pc = "car", ~view'[q].turned, NEW l \in view'[q].links
        PROVE  alive /\ link[l].state = "active" /\ link[l].by \in {Panel, owner}
    <3>1. \A k \in view[q].links : StillHis(link[k].by)
      BY <1>1, <2>2 DEF ViewReadsCar, IdleView
    <3>2. view'[q].links = view[q].links /\ \A k \in view[q].links : Usable(k)
      BY <1>1, <2>2, <3>1 DEF ViewReadsCar, Look
    <3>3. l \in Links /\ link[l].by \in Makers
      BY <1>1, <2>2, <3>2 DEF ShareTypeOK, Look
    <3> QED BY <2>2, <3>1, <3>2, <3>3 DEF StillHis, Usable, Makers
  <2> QED BY <2>1, <2>2 DEF WaitingIsTrue
<1>6. CASE \E q \in Viewers : ViewAnswers(q)
  BY <1>1, <1>6 DEF WaitingIsTrue, ViewAnswers, carVars, IdleView
<1>7. CASE \E q \in Sellers : TransferWrites(q)
  <2> PICK q \in Sellers : TransferWrites(q)
    BY <1>7
  <2> DEFINE sold == {l \in Links : link[l].by \in Owners \ {transfer[q].to}}
  <2>1. view' = Turned(view, sold) /\ owner' = transfer[q].to /\ UNCHANGED <<alive, link>>
    BY DEF TransferWrites
  <2> SUFFICES ASSUME NEW p \in Viewers, view'[p].pc = "car", ~view'[p].turned,
                      NEW l \in view'[p].links
               PROVE  alive' /\ link'[l].state = "active" /\ link'[l].by \in {Panel, owner'}
    BY DEF WaitingIsTrue
  <2>2. view[p].pc = "car" /\ ~view[p].turned /\ view[p].links \cap sold = {}
    BY <1>1, <2>1, NotTurned
  <2>3. view'[p].links = view[p].links
    BY <1>1, <2>1, TurnedTyped
  <2>4. l \in Links /\ l \notin sold /\ link[l].by \in Makers
    BY <1>1, <2>2, <2>3 DEF ShareTypeOK, Look
  <2> QED BY <2>1, <2>2, <2>3, <2>4 DEF WaitingIsTrue, Makers
<1>8. CASE (\E l \in Links : Revoke(l)) \/ (\E l \in Links : Expire(l))
  <2> PICK k \in Links : Revoke(k) \/ Expire(k)
    BY <1>8
  <2>1. view' = Turned(view, {k}) /\ UNCHANGED <<owner, alive>>
        /\ \A l \in Links \ {k} : link'[l] = link[l]
    BY DEF ShareTypeOK, Revoke, Expire, carVars
  <2> SUFFICES ASSUME NEW p \in Viewers, view'[p].pc = "car", ~view'[p].turned,
                      NEW l \in view'[p].links
               PROVE  alive' /\ link'[l].state = "active" /\ link'[l].by \in {Panel, owner'}
    BY DEF WaitingIsTrue
  <2>2. view[p].pc = "car" /\ ~view[p].turned /\ view[p].links \cap {k} = {}
    BY <1>1, <2>1, NotTurned
  <2>3. view'[p].links = view[p].links
    BY <1>1, <2>1, TurnedTyped
  <2>4. l \in Links \ {k}
    BY <1>1, <2>2, <2>3 DEF Look
  <2> QED BY <2>1, <2>2, <2>3, <2>4 DEF WaitingIsTrue
<1>9. CASE CarChanges
  <2> SUFFICES ASSUME NEW p \in Viewers, view'[p].pc = "car", ~view'[p].turned,
                      NEW l \in view'[p].links
               PROVE  alive' /\ link'[l].state = "active" /\ link'[l].by \in {Panel, owner'}
    BY DEF WaitingIsTrue
  <2>1. CASE alive
    <3>1. view' = Turned(view, Links)
      BY <1>9, <2>1 DEF CarChanges
    <3>2. view[p].links \cap Links = {} /\ view'[p].links = view[p].links
      BY <1>1, <3>1, NotTurned, TurnedTyped
    <3> QED BY <1>1, <3>2 DEF Look
  <2>2. CASE ~alive
    <3>1. view' = view
      BY <1>9, <2>2 DEF CarChanges
    <3> QED BY <2>2, <3>1 DEF WaitingIsTrue
  <2> QED BY <2>1, <2>2
<1> QED BY <1>2, <1>3, <1>4, <1>5, <1>6, <1>7, <1>8, <1>9
        DEF ShareStep, CreateReadsCar, CreateCounts, TransferAsks, TrackerChanges,
            carVars, shareVars

(* The page answers for an active link of a car that is there, to the company*)
(* or to the owner of the moment (location-shares.service.ts looks at the    *)
(* owner of the car and not only at the link).                               *)
THEOREM AnswerTheorem == ShareSpec => AnswersForTheOwner
<1>1. ShareInit => WaitingIsTrue
  BY DEF ShareInit, WaitingIsTrue, IdleView
<1>2. ShareTypeOK /\ WaitingIsTrue /\ [ShareNext]_shareVars => WaitingIsTrue'
  BY ShareNextIsAStep, WaitingStep
<1>3. WaitingIsTrue =>
        [\A q \in Viewers, l \in Links :
           ViewAnswers(q) /\ l \in view[q].links /\ ~view[q].turned =>
             /\ alive /\ link[l].state = "active"
             /\ link[l].by \in {Panel, owner}]_shareVars
  BY DEF WaitingIsTrue, ViewAnswers
<1> QED BY <1>1, <1>2, <1>3, ShareTypeTheorem, PTL DEF ShareSpec, AnswersForTheOwner

-------------------------------------------------------------------------------
(* TagSightings.                                                             *)

(* A sighting that was stored is there.                                      *)
StoredInv == \A k \in Requests : post[k].pc = "stored" => rows[post[k].at] > 0

(* What a post knows, as long as posts do not meet.                          *)
LoneInv ==
  ~spoiled =>
    /\ \A j, k \in InFlight : j = k
    /\ \A t \in Times : rows[t] <= 1
    /\ \A t \in Times : rows[t] > 0 =>
         t <= lastSeen \/ \E k \in Requests : post[k].pc = "stored" /\ post[k].at = t
    /\ \A k \in Requests :
         /\ post[k].pc = "new" => rows[post[k].at] = 0
         /\ post[k].pc \in {"found", "new", "stored"} => post[k].last = lastSeen

SightStep ==
  \/ \E t \in Times : AppleHears(t) \/ AppleForgets(t)
  \/ UrgencyTurns
  \/ CycleStarts
  \/ Fetches
  \/ CycleEnds
  \/ \E t \in Times, k \in Requests : Posts(t, k)
  \/ FetchFails
  \/ PostExceedsTime
  \/ WorkerRestarts
  \/ \E k \in Requests : FindsTheTag(k)
  \/ \E k \in Requests : LooksItUp(k)
  \/ \E k \in Requests : Stores(k)
  \/ \E k \in Requests : Stamps(k)
  \/ \E k \in Requests : PostFails(k)
  \/ BackendRestarts
  \/ UNCHANGED sightVars

LEMMA SightNextIsAStep ==
  ASSUME [SightNext]_sightVars
  PROVE  SightStep
BY Zenon DEF SightNext, CollectorStep, PostStep, SightStep

-------------------------------------------------------------------------------
(* Typing.                                                                   *)

(* What the steps leave of a post.                                           *)
LEMMA PostMoves ==
  ASSUME NEW p \in Post, p.pc # "none"
  PROVE  /\ p.at \in Times /\ p.last \in Times \cup {0}
         /\ [p EXCEPT !.pc = "found", !.last = lastSeen].pc = "found"
         /\ [p EXCEPT !.pc = "found", !.last = lastSeen].at = p.at
         /\ [p EXCEPT !.pc = "found", !.last = lastSeen].last = lastSeen
         /\ lastSeen \in Times \cup {0} => [p EXCEPT !.pc = "found", !.last = lastSeen] \in Post
         /\ \A pc \in {"new", "stored"} :
              /\ [p EXCEPT !.pc = pc] \in Post /\ [p EXCEPT !.pc = pc].pc = pc
              /\ [p EXCEPT !.pc = pc].at = p.at /\ [p EXCEPT !.pc = pc].last = p.last
<1>1. p \in [pc : {"asked", "found", "new", "stored"}, at : Times, last : Times \cup {0}]
  BY DEF Post
<1> QED BY <1>1 DEF Post

LEMMA PostEnded == Ended \in Post /\ Ended.pc = "none"
BY DEF Post, Ended

Asked(t) == [pc |-> "asked", at |-> t, last |-> 0]
LEMMA PostAsked ==
  ASSUME NEW t \in Times
  PROVE  Asked(t) \in Post /\ Asked(t).pc = "asked" /\ Asked(t).at = t
BY DEF Post, Asked

SightInv == SightTypeOK /\ StoredInv /\ LoneInv

LEMMA SightInvInit == SightInit => SightInv
<1> SUFFICES ASSUME SightInit PROVE SightInv
  OBVIOUS
<1>1. turns \in 0..MaxTurns /\ troubles \in 0..MaxTroubles
  BY SightBoundsAssumption DEF SightInit
<1>2. \A k \in Requests : post[k].pc = "none"
  BY PostEnded DEF SightInit
<1>3. SightTypeOK
  BY <1>1, <1>2, PostEnded DEF SightInit, SightTypeOK
<1>4. StoredInv /\ LoneInv
  BY <1>2 DEF SightInit, StoredInv, LoneInv, InFlight
<1> QED BY <1>3, <1>4 DEF SightInv

(* Posts that stay as they are leave all that is known of them.              *)
LEMMA PostsStay ==
  ASSUME SightInv, UNCHANGED <<post, rows, lastSeen>>, spoiled' = spoiled
  PROVE  StoredInv' /\ LoneInv' /\ InFlight' = InFlight
BY DEF SightInv, StoredInv, LoneInv, InFlight

LEMMA SightInvStep ==
  ASSUME SightInv, SightStep
  PROVE  SightInv'
<1>0. SightTypeOK /\ StoredInv /\ LoneInv /\ Times \subseteq Nat \ {0} /\ NoPost \notin Requests
  BY SightAssumption DEF SightInv
<1> USE DEF SightInv
<1>1. CASE \/ \E t \in Times : AppleHears(t) \/ AppleForgets(t)
           \/ UrgencyTurns \/ CycleStarts \/ Fetches \/ CycleEnds \/ FetchFails
           \/ PostExceedsTime \/ WorkerRestarts \/ UNCHANGED sightVars
  <2>1. UNCHANGED <<post, rows, lastSeen, spoiled>>
    BY <1>1 DEF AppleHears, AppleForgets, UrgencyTurns, CycleStarts, Fetches, CycleEnds,
                FetchFails, PostExceedsTime, WorkerRestarts, sightVars
  <2>2. StoredInv' /\ LoneInv' /\ InFlight' = InFlight
    BY <2>1, PostsStay
  <2>3. known' \in [Times -> {"unheard", "held", "expired"}] /\ todo' \subseteq Times
    BY <1>0, <1>1 DEF SightTypeOK, AppleHears, AppleForgets, UrgencyTurns, CycleStarts, Fetches,
                CycleEnds, FetchFails, PostExceedsTime, WorkerRestarts, sightVars, Fetched
  <2>4. turns' \in 0..MaxTurns /\ troubles' \in 0..MaxTroubles /\ urgent' \in BOOLEAN
    <3>1. \/ UNCHANGED <<turns, urgent>>
          \/ turns < MaxTurns /\ turns' = turns + 1 /\ urgent' = ~urgent
      BY <1>1 DEF AppleHears, AppleForgets, UrgencyTurns, CycleStarts, Fetches, CycleEnds,
                  FetchFails, PostExceedsTime, WorkerRestarts, sightVars
    <3>2. UNCHANGED troubles \/ Trouble
      BY <1>1 DEF AppleHears, AppleForgets, UrgencyTurns, CycleStarts, Fetches, CycleEnds,
                  FetchFails, PostExceedsTime, WorkerRestarts, sightVars
    <3>3. turns \in 0..MaxTurns /\ troubles \in 0..MaxTroubles /\ urgent \in BOOLEAN
      BY <1>0 DEF SightTypeOK
    <3>4. turns' \in 0..MaxTurns
      BY <3>1, <3>3, SightBoundsAssumption
    <3>6. urgent' \in BOOLEAN
      BY <3>1, <3>3, Zenon
    <3>5. troubles' \in 0..MaxTroubles
      BY <3>2, <3>3, SightBoundsAssumption DEF Trouble
    <3> QED BY <3>4, <3>5, <3>6
  <2>5. /\ worker' \in {"asleep", "fetching", "posting"} /\ awaited' \in Requests \cup {NoPost}
        /\ todo' # {} \/ awaited' # NoPost => worker' = "posting"
        /\ awaited' # NoPost => awaited' = awaited
    BY <1>0, <1>1
       DEF SightTypeOK, AppleHears, AppleForgets, UrgencyTurns, CycleStarts, Fetches, CycleEnds,
           FetchFails, PostExceedsTime, WorkerRestarts, sightVars
  <2> QED BY <1>0, <2>1, <2>2, <2>3, <2>4, <2>5 DEF SightTypeOK
<1>2. CASE \E t \in Times, k \in Requests : Posts(t, k)
  <2> PICK t \in Times, k \in Requests : Posts(t, k)
    BY <1>2
  <2>1. /\ post' = [post EXCEPT ![k] = Asked(t)] /\ k \notin InFlight /\ post[k].pc = "none"
        /\ UNCHANGED <<known, urgent, worker, rows, lastSeen, turns, troubles>>
        /\ worker = "posting" /\ awaited' = k /\ todo' = todo \ {t}
        /\ spoiled' = (spoiled \/ InFlight # {})
    BY DEF Posts, Asked, InFlight
  <2>2. /\ post' \in [Requests -> Post] /\ post'[k].pc = "asked"
        /\ \A j \in Requests \ {k} : post'[j] = post[j]
    BY <1>0, <2>1, PostAsked DEF SightTypeOK
  <2>3. SightTypeOK'
    BY <1>0, <2>1, <2>2 DEF SightTypeOK, InFlight
  <2>4. StoredInv'
    BY <1>0, <2>1, <2>2 DEF StoredInv
  <2>5. ~spoiled' => \A j \in InFlight' : j = k
    BY <2>1, <2>2 DEF InFlight
  <2>6. LoneInv'
    <3> SUFFICES ASSUME ~spoiled' PROVE LoneInv'
      BY DEF LoneInv
    <3>1. ~spoiled /\ \A j \in Requests : post[j].pc = "none"
      BY <2>1 DEF InFlight
    <3>2. \A j \in Requests : post'[j].pc \in {"none", "asked"}
      BY <2>2, <3>1
    <3>3. \A s \in Times : rows'[s] <= 1 /\ (rows'[s] > 0 => s <= lastSeen')
      BY <1>0, <2>1, <3>1 DEF LoneInv
    <3> QED BY <2>5, <3>2, <3>3 DEF LoneInv
  <2> QED BY <2>3, <2>4, <2>6
<1>3. CASE \E k \in Requests : FindsTheTag(k)
  <2> PICK k \in Requests : FindsTheTag(k)
    BY <1>3
  <2>1. /\ post[k].pc = "asked" /\ k \in InFlight /\ post[k] \in Post
        /\ post' = [post EXCEPT ![k] = [post[k] EXCEPT !.pc = "found", !.last = lastSeen]]
        /\ UNCHANGED <<known, urgent, worker, todo, awaited, rows, lastSeen, spoiled, turns, troubles>>
    BY <1>0 DEF FindsTheTag, InFlight, SightTypeOK
  <2>2. /\ post' \in [Requests -> Post] /\ post'[k].pc = "found" /\ post'[k].last = lastSeen
        /\ \A j \in Requests \ {k} : post'[j] = post[j]
    BY <1>0, <2>1, PostMoves DEF SightTypeOK
  <2>3. InFlight' = InFlight
    BY <2>1, <2>2 DEF InFlight
  <2>4. SightTypeOK'
    BY <1>0, <2>1, <2>2, <2>3 DEF SightTypeOK
  <2>5. StoredInv' /\ LoneInv'
    BY <1>0, <2>1, <2>2, <2>3 DEF StoredInv, LoneInv
  <2> QED BY <2>4, <2>5
<1>4. CASE \E k \in Requests : Stores(k)
  <2> PICK k \in Requests : Stores(k)
    BY <1>4
  <2>1. /\ post[k].pc = "new" /\ k \in InFlight /\ post[k] \in Post /\ post[k].at \in Times
        /\ post' = [post EXCEPT ![k] = [post[k] EXCEPT !.pc = "stored"]]
        /\ rows' = [rows EXCEPT ![post[k].at] = rows[post[k].at] + 1]
        /\ UNCHANGED <<known, urgent, worker, todo, awaited, lastSeen, spoiled, turns, troubles>>
    BY <1>0 DEF Stores, InFlight, SightTypeOK, Post
  <2>2. /\ post' \in [Requests -> Post] /\ post'[k].pc = "stored"
        /\ post'[k].at = post[k].at /\ post'[k].last = post[k].last
        /\ \A j \in Requests \ {k} : post'[j] = post[j]
    BY <1>0, <2>1, PostMoves DEF SightTypeOK
  <2>3. InFlight' = InFlight
    BY <2>1, <2>2 DEF InFlight
  <2>4. /\ rows' \in [Times -> Nat] /\ rows'[post[k].at] = rows[post[k].at] + 1
        /\ \A t \in Times : t # post[k].at => rows'[t] = rows[t]
        /\ \A t \in Times : rows[t] > 0 => rows'[t] > 0
    BY <1>0, <2>1 DEF SightTypeOK
  <2>5. SightTypeOK'
    BY <1>0, <2>1, <2>2, <2>3, <2>4 DEF SightTypeOK
  <2>6. \A j \in Requests : post[j].pc # "none" => post[j].at \in Times
    BY <1>0 DEF SightTypeOK, Post
  <2>7. StoredInv'
    <3>1. rows'[post[k].at] > 0
      BY <1>0, <2>1, <2>4 DEF SightTypeOK
    <3> QED BY <1>0, <2>1, <2>2, <2>4, <2>6, <3>1 DEF StoredInv
  <2>8. LoneInv'
    <3> SUFFICES ASSUME ~spoiled PROVE LoneInv'
      BY <2>1 DEF LoneInv
    <3>1. \A j \in Requests : j # k => post[j].pc = "none" /\ post'[j].pc = "none"
      BY <1>0, <2>1, <2>2 DEF LoneInv, InFlight
    <3>2. rows[post[k].at] = 0 /\ rows'[post[k].at] = 1
      BY <1>0, <2>1, <2>4 DEF LoneInv
    <3> QED BY <1>0, <2>1, <2>2, <2>3, <2>4, <3>1, <3>2 DEF LoneInv
  <2> QED BY <2>5, <2>7, <2>8
<1>5. CASE \E k \in Requests : LooksItUp(k) /\ ~IsThere(post[k].at)
  <2> PICK k \in Requests : LooksItUp(k) /\ ~IsThere(post[k].at)
    BY <1>5
  <2>1. /\ post[k].pc = "found" /\ k \in InFlight /\ post[k] \in Post /\ post[k].at \in Times
        /\ post' = [post EXCEPT ![k] = [post[k] EXCEPT !.pc = "new"]]
        /\ UNCHANGED <<known, urgent, worker, todo, awaited, rows, lastSeen, spoiled, turns, troubles>>
    BY <1>0 DEF LooksItUp, InFlight, SightTypeOK, Post
  <2>2. /\ post' \in [Requests -> Post] /\ post'[k].pc = "new"
        /\ post'[k].at = post[k].at /\ post'[k].last = post[k].last
        /\ \A j \in Requests \ {k} : post'[j] = post[j]
    BY <1>0, <2>1, PostMoves DEF SightTypeOK
  <2>3. InFlight' = InFlight
    BY <2>1, <2>2 DEF InFlight
  <2>4. SightTypeOK'
    BY <1>0, <2>1, <2>2, <2>3 DEF SightTypeOK
  <2>5. rows[post[k].at] = 0
    BY <1>0, <2>1 DEF IsThere, SightTypeOK
  <2>6. StoredInv'
    BY <1>0, <2>1, <2>2 DEF StoredInv
  <2>7. LoneInv'
    BY <1>0, <2>1, <2>2, <2>3, <2>5 DEF LoneInv
  <2> QED BY <2>4, <2>6, <2>7
<1>6. CASE \E k \in Requests : \/ LooksItUp(k) /\ IsThere(post[k].at)
                               \/ Stamps(k) \/ PostFails(k)
  <2> PICK k \in Requests : \/ LooksItUp(k) /\ IsThere(post[k].at)
                            \/ Stamps(k) \/ PostFails(k)
    BY <1>6
  <2>1. /\ post[k].pc # "none" /\ post[k] \in Post /\ post[k].at \in Times
        /\ post' = [post EXCEPT ![k] = Ended]
        /\ awaited' = IF awaited = k THEN NoPost ELSE awaited
        /\ UNCHANGED <<known, urgent, worker, todo, rows, turns>>
    BY <1>0 DEF LooksItUp, Stamps, PostFails, Answers, InFlight, SightTypeOK, Post
  <2>2. /\ post' \in [Requests -> Post] /\ post'[k].pc = "none"
        /\ \A j \in Requests \ {k} : post'[j] = post[j]
    BY <1>0, <2>1, PostEnded DEF SightTypeOK
  <2>3. InFlight' = InFlight \ {k}
    BY <2>2 DEF InFlight
  <2>4. /\ lastSeen' = lastSeen \/ (post[k].pc = "stored" /\ lastSeen' = post[k].at)
        /\ spoiled' \in BOOLEAN /\ (spoiled => spoiled') /\ troubles' \in 0..MaxTroubles
    <3>1. UNCHANGED troubles \/ Trouble
      BY DEF LooksItUp, Stamps, PostFails
    <3>2. troubles' \in 0..MaxTroubles
      BY <1>0, <3>1, SightBoundsAssumption DEF Trouble, SightTypeOK
    <3>3. spoiled' \in BOOLEAN /\ (spoiled => spoiled')
      <4>1. spoiled' = spoiled \/ spoiled' = (spoiled \/ post[k].pc = "stored")
        BY Zenon DEF LooksItUp, Stamps, PostFails
      <4>2. spoiled \in BOOLEAN
        BY <1>0 DEF SightTypeOK
      <4>3. CASE spoiled' = spoiled
        BY <4>2, <4>3
      <4>4. CASE spoiled' = (spoiled \/ post[k].pc = "stored")
        BY <4>4
      <4> QED BY <4>1, <4>3, <4>4, Zenon
    <3>5. lastSeen' = lastSeen \/ (post[k].pc = "stored" /\ lastSeen' = post[k].at)
      BY DEF LooksItUp, Stamps, PostFails
    <3> QED BY <3>2, <3>3, <3>5, Zenon
  <2>5. SightTypeOK'
    BY <1>0, <2>1, <2>2, <2>3, <2>4 DEF SightTypeOK, StoredInv
  <2>6. StoredInv'
    BY <1>0, <2>1, <2>2 DEF StoredInv
  <2>7. ASSUME ~spoiled' PROVE LoneInv'
    <3>1. ~spoiled
      BY <2>4, <2>7
    <3>2. \A j \in Requests : j # k => post[j].pc = "none" /\ post'[j].pc = "none"
      BY <1>0, <2>1, <2>2, <3>1 DEF LoneInv, InFlight
    <3>3. \A j \in Requests : post'[j].pc = "none"
      BY <2>2, <3>2
    <3>4. post[k].pc = "stored" => lastSeen' = IF post[k].at > lastSeen THEN post[k].at ELSE lastSeen
      BY <1>0, <2>7, <3>1 DEF LooksItUp, Stamps, PostFails, IsNews, LoneInv
    <3>5. ASSUME NEW t \in Times, rows[t] > 0 PROVE t <= lastSeen'
      <4>1. lastSeen \in Nat /\ t \in Nat /\ post[k].at \in Nat
        <5>1. lastSeen \in Times \cup {0} /\ post[k].at \in Times
          BY <1>0, <2>1 DEF SightTypeOK
        <5>2. \A s \in Times \cup {0} : s \in Nat
          BY SightAssumption
        <5> QED BY <5>1, <5>2
      <4>2. t <= lastSeen \/ (post[k].pc = "stored" /\ post[k].at = t)
        BY <1>0, <3>1, <3>2, <3>5 DEF LoneInv
      <4>3. CASE post[k].pc = "stored"
        BY <3>4, <4>1, <4>2, <4>3
      <4>4. CASE post[k].pc # "stored"
        BY <2>4, <4>1, <4>2, <4>4
      <4> QED BY <4>3, <4>4
    <3> QED BY <1>0, <2>1, <3>1, <3>3, <3>5 DEF LoneInv, InFlight
  <2> QED BY <2>5, <2>6, <2>7 DEF LoneInv
<1>7. CASE BackendRestarts
  <2>1. /\ \A k \in Requests : post'[k] = Ended
        /\ post' \in [Requests -> Post]
        /\ awaited' = NoPost
        /\ UNCHANGED <<known, urgent, worker, todo, rows, lastSeen, turns>>
        /\ spoiled' = (spoiled \/ \E k \in Requests : post[k].pc = "stored")
    BY <1>7, PostEnded DEF BackendRestarts
  <2>2. troubles' \in 0..MaxTroubles
    BY <1>0, <1>7, SightBoundsAssumption DEF BackendRestarts, Trouble, SightTypeOK
  <2>3. SightTypeOK'
    BY <1>0, <2>1, <2>2 DEF SightTypeOK
  <2>4. StoredInv' /\ LoneInv'
    BY <1>0, <2>1, PostEnded DEF StoredInv, LoneInv, InFlight
  <2> QED BY <2>3, <2>4
<1> QED
  BY <1>1, <1>2, <1>3, <1>4, <1>5, <1>6, <1>7 DEF SightStep

(* What a post knows between its reads and its writes, and the type of the   *)
(* sightings, hold in every reachable state.                                 *)
THEOREM SightTheorem == SightSpec => []SightInv
<1>1. SightInv /\ [SightNext]_sightVars => SightInv'
  BY SightNextIsAStep, SightInvStep
<1> QED BY <1>1, SightInvInit, PTL DEF SightSpec

(* Whatever order a backfill brings the sightings in, the TAG was last seen  *)
(* when its latest stored sighting says, and none is stored twice, unless    *)
(* two posts met or one ended between its writes (createSighting).           *)
THEOREM LatestTheorem == SightSpec => []LatestIsKept
<1>1. ASSUME SightInv PROVE LatestIsKept
  <2> SUFFICES ASSUME ~spoiled, InFlight = {}
               PROVE  /\ \A t \in Times : rows[t] <= 1
                      /\ IF \E t \in Times : rows[t] > 0 THEN lastSeen \in Latest ELSE lastSeen = 0
    BY DEF LatestIsKept
  <2>1. \A k \in Requests : post[k].pc # "stored"
    BY DEF InFlight
  <2>2. \A t \in Times : rows[t] <= 1 /\ (rows[t] > 0 => t <= lastSeen)
    BY <1>1, <2>1 DEF SightInv, LoneInv
  <2>3. lastSeen \in Times \cup {0} /\ (lastSeen # 0 => rows[lastSeen] > 0)
    BY <1>1 DEF SightInv, SightTypeOK
  <2>4. Times \subseteq Nat \ {0}
    BY SightAssumption
  <2> QED BY <2>2, <2>3, <2>4 DEF Latest
<1> QED BY <1>1, SightTheorem, PTL

-------------------------------------------------------------------------------
(* The three together.                                                       *)

(* A behaviour about one of the three leaves the others as they were, so the *)
(* composition that is checked keeps to each of the specifications proved    *)
(* about: what is proved of each holds of what an associate sees.            *)
THEOREM AssociatesCompose == FairSpec => BillSpec /\ ShareSpec /\ SightSpec
<1>1. Init => BillInit /\ ShareInit /\ SightInit
  BY DEF Init
<1>2. [Next]_<<billVars, shareVars, sightVars, screen>> =>
        [BillNext]_billVars /\ [ShareNext]_shareVars /\ [SightNext]_sightVars
  BY Zenon DEF Next
<1> QED BY <1>1, <1>2, PTL DEF FairSpec, BillSpec, ShareSpec, SightSpec

(* Bills, links and sightings keep their types whatever order the requests   *)
(* of the app, the robot and the worker come in.                             *)
THEOREM AssociateTypesTheorem == FairSpec => []AssociateTypesOK
<1>1. BillTypeOK /\ ShareTypeOK /\ SightInv => AssociateTypesOK
  BY DEF SightInv, AssociateTypesOK
<1> QED BY <1>1, AssociatesCompose, BillTypeTheorem, ShareTypeTheorem, SightTheorem, PTL
===============================================================================

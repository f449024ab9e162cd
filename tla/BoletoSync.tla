------------------------------ MODULE BoletoSync ------------------------------
(***************************************************************************)
(* The bills of one associate: the sync that copies them from the CRM,     *)
(* bill by bill, fetches the PDF, tells the associate of a new bill on his *)
(* phone and then deletes what the CRM no longer lists.  The robot runs it *)
(* three times a day and the first visit to the app once, with no lock     *)
(* between them; a bill is told of once because its row says so.           *)
(***************************************************************************)
EXTENDS Naturals, FiniteSets

CONSTANTS
  Bills,          (* the bills of the associate, by nossoNumero               *)
  Syncs,          (* bound: syncs in flight at the same time                  *)
  NoBill,         (* no bill in hand                                          *)
  MaxCrmChanges,  (* bound: changes of what the CRM lists                     *)
  MaxBillFaults   (* bound: failed statements and pushes, dead tokens,        *)
                  (* restarts                                                 *)

ASSUME NoBillAssumption == NoBill \notin Bills
ASSUME BillBounds == MaxCrmChanges \in Nat /\ MaxBillFaults \in Nat

VARIABLES
  crm,        (* what the CRM lists; outside the program                      *)
  row,        (* the rows of associate_boletos                                *)
  pdfs,       (* the bills with a row in associate_boleto_pdfs                *)
  device,     (* the associate has a phone in associate_push_devices          *)
  visited,    (* boletosSincronizadosEm is set                                *)
  billSync,   (* sincronizarAssociado, for the syncs in flight                *)
  delivered,  (* history: bills a push of which was taken for the phone       *)
  excused,    (* history: bills that may be told of again, for something that *)
              (* happened since their last push                               *)
  torn,       (* history: bills whose PDF was stored and not noted            *)
  crmChanges, billFaults   (* for the bounds only                             *)

billHistory == <<delivered, excused, torn>>
billVars == <<crm, row, pdfs, device, visited, billSync, delivered, excused, torn,
              crmChanges, billFaults>>

(* told is avisadoEm, bytes is pdfBytes.                                     *)
NoLine  == [there |-> FALSE, told |-> FALSE, bytes |-> FALSE]
NewLine_Stamped == [there |-> TRUE, told |-> TRUE, bytes |-> FALSE]
NewLine == [there |-> TRUE, told |-> FALSE, bytes |-> FALSE]
There == {b \in Bills : row[b].there}

(* bill and told are the line in hand; gone: its row was deleted meanwhile;  *)
(* alone, for the properties: no other sync has been in flight with it.      *)
IdleSyncOfBills ==
  [pc |-> "idle", pdf |-> FALSE, list |-> {}, todo |-> {}, bill |-> NoBill,
   told |-> FALSE, gone |-> FALSE, dead |-> {}, alone |-> TRUE]

BillTypeOK ==
  /\ crm \subseteq Bills /\ pdfs \subseteq Bills
  /\ row \in [Bills -> [there : BOOLEAN, told : BOOLEAN, bytes : BOOLEAN]]
  /\ device \in BOOLEAN /\ visited \in BOOLEAN
  /\ billSync \in [Syncs -> [
       pc : {"idle", "next", "pdf", "store", "bytes", "push", "stamp", "delpdf",
             "delrow", "visit"},
       pdf : BOOLEAN, list : SUBSET Bills, todo : SUBSET Bills,
       bill : Bills \cup {NoBill}, told : BOOLEAN, gone : BOOLEAN,
       dead : SUBSET Bills, alone : BOOLEAN]]
  /\ \A s \in Syncs :
       /\ billSync[s].bill # NoBill <=>
            billSync[s].pc \in {"pdf", "store", "bytes", "push", "stamp"}
       /\ billSync[s].todo \subseteq billSync[s].list
       /\ billSync[s].dead \cap billSync[s].list = {}
  /\ delivered \subseteq Bills /\ excused \subseteq Bills /\ torn \subseteq Bills
  /\ crmChanges \in 0..MaxCrmChanges /\ billFaults \in 0..MaxBillFaults

(* An associate who has just logged in for the first time.                   *)
BillInit ==
  /\ crm \in SUBSET Bills
  /\ row = [b \in Bills |-> NoLine] /\ pdfs = {}
  /\ device = FALSE /\ visited = FALSE
  /\ billSync = [s \in Syncs |-> IdleSyncOfBills]
  /\ delivered = {} /\ excused = {} /\ torn = {}
  /\ crmChanges = 0 /\ billFaults = 0

BillFault ==
  /\ billFaults < MaxBillFaults
  /\ billFaults' = billFaults + 1
  /\ UNCHANGED crmChanges
billCounts == <<crmChanges, billFaults>>

-------------------------------------------------------------------------------
(* The CRM and the phone.                                                    *)

CrmChanges(b) ==
  /\ crmChanges < MaxCrmChanges
  /\ crmChanges' = crmChanges + 1
  /\ crm' = IF b \in crm THEN crm \ {b} ELSE crm \cup {b}
  /\ UNCHANGED <<row, pdfs, device, visited, billSync, billHistory, billFaults>>

(* registrarAparelho.                                                        *)
PhoneRegisters ==
  /\ ~device
  /\ device' = TRUE
  /\ UNCHANGED <<crm, row, pdfs, visited, billSync, billHistory, billCounts>>

-------------------------------------------------------------------------------
(* The sync.                                                                 *)

Step(s, pc) == [billSync[s] EXCEPT !.pc = pc]
Put(s, new) == billSync' = [billSync EXCEPT ![s] = new]
Has(s, pc, b) == billSync[s].pc = pc /\ billSync[s].bill = b
NextBill(s) == [billSync[s] EXCEPT !.pc = "next", !.bill = NoBill, !.told = FALSE,
                                   !.gone = FALSE]

(* The list of the CRM.  Nothing happens when the CRM does not answer.  The  *)
(* robot takes the PDFs too; the app asks only before the first visit.       *)
SyncBegins(s, withPdf) ==
  /\ billSync[s].pc = "idle"
  /\ withPdf \/ ~visited
  /\ LET others == {q \in Syncs : billSync[q].pc # "idle"}
     IN billSync' = [q \in Syncs |->
          IF q = s THEN [IdleSyncOfBills EXCEPT !.pc = "next", !.pdf = withPdf,
                           !.list = crm, !.todo = crm, !.alone = (others = {})]
          ELSE IF q \in others THEN [billSync[q] EXCEPT !.alone = FALSE]
          ELSE billSync[q]]
  /\ UNCHANGED <<crm, row, pdfs, device, visited, billHistory, billCounts>>

(* The upsert leaves avisadoEm and pdfBytes of an old row as they are.       *)
Upserted_Fresh(b) == NewLine
Upserted(b) == IF row[b].there THEN row[b] ELSE NewLine
SyncUpserts(s, b) ==
  /\ billSync[s].pc = "next" /\ b \in billSync[s].todo
  /\ row' = [row EXCEPT ![b] = Upserted(b)]
  /\ Put(s, [billSync[s] EXCEPT !.pc = IF billSync[s].pdf THEN "pdf" ELSE "push",
                                !.bill = b, !.todo = @ \ {b}, !.told = Upserted(b).told])
  /\ excused' = IF ~Upserted(b).told /\ (\E q \in Syncs : Has(q, "stamp", b))
                THEN excused \cup {b} ELSE excused
  /\ UNCHANGED <<crm, pdfs, device, visited, delivered, torn, billCounts>>

(* A PDF that is stored already is not fetched again; one that cannot be     *)
(* fetched is left for the next round.                                       *)
SyncLooksForPdf(s) ==
  /\ billSync[s].pc = "pdf"
  /\ \/ billSync[s].bill \notin pdfs /\ Put(s, Step(s, "store")) /\ UNCHANGED billCounts
     \/ billSync[s].bill \in pdfs /\ Put(s, Step(s, "push")) /\ UNCHANGED billCounts
     \/ billSync[s].bill \notin pdfs /\ Put(s, Step(s, "push")) /\ BillFault
  /\ UNCHANGED <<crm, row, pdfs, device, visited, billHistory>>

SyncStoresPdf(s) ==
  /\ billSync[s].pc = "store"
  /\ pdfs' = pdfs \cup {billSync[s].bill}
  /\ Put(s, Step(s, "bytes"))
  /\ UNCHANGED <<crm, row, device, visited, billHistory, billCounts>>

SyncNotesBytes(s) ==
  /\ billSync[s].pc = "bytes" /\ ~billSync[s].gone
  /\ row' = [row EXCEPT ![billSync[s].bill].bytes = TRUE]
  /\ Put(s, Step(s, "push"))
  /\ UNCHANGED <<crm, pdfs, device, visited, billHistory, billCounts>>

(* avisarBoletoNovo: the push, and the stamp only if one ticket confirmed.   *)
SyncSkipsPush(s) ==
  /\ billSync[s].pc = "push"
  /\ billSync[s].told \/ ~device
  /\ Put(s, NextBill(s))
  /\ UNCHANGED <<crm, row, pdfs, device, visited, billHistory, billCounts>>

(* A push that is taken uses up what excused it; who else has the bill in    *)
(* hand as one not told of pushes it after this one.                         *)
HasUntold(q, b) ==
  billSync[q].bill = b /\ ~billSync[q].told /\ billSync[q].pc # "stamp"
SyncDelivers(s) ==
  /\ billSync[s].pc = "push" /\ ~billSync[s].told /\ device
  /\ LET b == billSync[s].bill
     IN /\ delivered' = delivered \cup {b}
        /\ excused' = IF \E q \in Syncs \ {s} : HasUntold(q, b)
                      THEN excused \cup {b} ELSE excused \ {b}
  /\ Put(s, Step(s, "stamp"))
  /\ UNCHANGED <<crm, row, pdfs, device, visited, torn, billCounts>>

(* The push is taken, and its answer is lost, comes after the time limit or  *)
(* confirms no ticket: for the sync that is a push that failed.              *)
SyncMissesAnswer(s) ==
  /\ billSync[s].pc = "push" /\ ~billSync[s].told /\ device
  /\ BillFault
  /\ delivered' = delivered \cup {billSync[s].bill}
  /\ excused' = excused \cup {billSync[s].bill}
  /\ Put(s, NextBill(s))
  /\ UNCHANGED <<crm, row, pdfs, device, visited, torn>>

(* The push is not taken: the service is off, does not answer or refuses, or *)
(* finds the token dead and it is deleted.                                   *)
SyncFailsToDeliver(s) ==
  /\ billSync[s].pc = "push" /\ ~billSync[s].told /\ device
  /\ BillFault
  /\ device' \in BOOLEAN
  /\ Put(s, NextBill(s))
  /\ UNCHANGED <<crm, row, pdfs, visited, billHistory>>

SyncStamps(s) ==
  /\ billSync[s].pc = "stamp" /\ ~billSync[s].gone
  /\ row' = [row EXCEPT ![billSync[s].bill].told = TRUE]
  /\ Put(s, NextBill(s))
  /\ UNCHANGED <<crm, pdfs, device, visited, billHistory, billCounts>>

(* The rows that are no longer listed, then their PDFs, then the rows.       *)
Dead_ToldOnly(s) == {b \in There : b \notin billSync[s].list /\ row[b].told}
Dead(s) == There \ billSync[s].list
SyncReadsDead(s) ==
  /\ billSync[s].pc = "next" /\ billSync[s].todo = {}
  /\ Put(s, [billSync[s] EXCEPT !.pc = IF Dead(s) = {} THEN "visit" ELSE "delpdf",
                                !.dead = Dead(s)])
  /\ UNCHANGED <<crm, row, pdfs, device, visited, billHistory, billCounts>>

DeadPdfs_Kept(s) == {}
DeadPdfs(s) == billSync[s].dead
SyncDeletesPdfs(s) ==
  /\ billSync[s].pc = "delpdf"
  /\ pdfs' = pdfs \ DeadPdfs(s)
  /\ Put(s, Step(s, "delrow"))
  /\ UNCHANGED <<crm, row, device, visited, billHistory, billCounts>>

SyncDeletesRows(s) ==
  /\ billSync[s].pc = "delrow"
  /\ row' = [b \in Bills |-> IF b \in billSync[s].dead THEN NoLine ELSE row[b]]
  /\ billSync' = [q \in Syncs |->
       IF q = s THEN Step(s, "visit")
       ELSE IF billSync[q].bill \in billSync[s].dead
            THEN [billSync[q] EXCEPT !.gone = TRUE] ELSE billSync[q]]
  /\ excused' = excused \cup billSync[s].dead
  /\ torn' = IF billSync[s].alone THEN torn ELSE torn \cup billSync[s].dead
  /\ UNCHANGED <<crm, pdfs, device, visited, delivered, billCounts>>

SyncVisits(s) ==
  /\ billSync[s].pc = "visit"
  /\ visited' = TRUE
  /\ Put(s, IdleSyncOfBills)
  /\ UNCHANGED <<crm, row, pdfs, device, billHistory, billCounts>>

(* What a sync that dies leaves half done.                                   *)
Unstamped(syncs) == {b \in Bills : \E s \in syncs : Has(s, "stamp", b)}
Unnoted(syncs)   == {b \in Bills : \E s \in syncs : Has(s, "bytes", b)}
Die(syncs) ==
  /\ billSync' = [s \in Syncs |-> IF s \in syncs THEN IdleSyncOfBills ELSE billSync[s]]
  /\ excused' = excused \cup Unstamped(syncs)
  /\ torn' = torn \cup Unnoted(syncs)
  /\ UNCHANGED <<crm, row, pdfs, device, visited, delivered>>

(* The update of a row that is gone throws, and any statement may fail.      *)
SyncTrips(s) ==
  /\ billSync[s].gone /\ billSync[s].pc \in {"bytes", "stamp"}
  /\ Die({s}) /\ UNCHANGED billCounts
BillSyncFails(s) == billSync[s].pc # "idle" /\ Die({s}) /\ BillFault
BillRestart == Die(Syncs) /\ BillFault

-------------------------------------------------------------------------------

BillStep(s) ==
  \/ \E b \in Bills : SyncUpserts(s, b)
  \/ SyncLooksForPdf(s) \/ SyncStoresPdf(s) \/ SyncNotesBytes(s)
  \/ SyncSkipsPush(s) \/ SyncDelivers(s) \/ SyncStamps(s)
  \/ SyncReadsDead(s) \/ SyncDeletesPdfs(s) \/ SyncDeletesRows(s) \/ SyncVisits(s)
  \/ SyncTrips(s)

BillNext ==
  \/ \E b \in Bills : CrmChanges(b)
  \/ PhoneRegisters
  \/ \E s \in Syncs : \/ \E withPdf \in BOOLEAN : SyncBegins(s, withPdf)
                      \/ BillStep(s) \/ SyncMissesAnswer(s)
                      \/ SyncFailsToDeliver(s) \/ BillSyncFails(s)
  \/ BillRestart

BillSpec == BillInit /\ [][BillNext]_billVars

-------------------------------------------------------------------------------

(* A bill is told of once (avisadoEm, push.service.ts:75), and never again   *)
(* without cause: a push after the first answers for something that happened *)
(* since the one before it, be it that its answer was missed, that its sync  *)
(* died before the stamp, that another sync had the bill in hand, or that    *)
(* the row was deleted.  One such cause is worth one push.                   *)
ToldOnce ==
  [][\A s \in Syncs :
       (SyncDelivers(s) \/ SyncMissesAnswer(s)) /\ billSync[s].bill \in delivered
         => billSync[s].bill \in excused]_billVars

(* The app offers every PDF that is stored: its row is there and says so,    *)
(* unless the sync died, or deleted rows next to another, in between.  Such  *)
(* a PDF is not fetched again, and is not offered as long as it is stored.   *)
PdfIsOffered ==
  \A b \in pdfs :
    \/ row[b].there /\ row[b].bytes
    \/ b \in torn
    \/ \E s \in Syncs : Has(s, "bytes", b)

(* When the visit is stamped the app shows what the CRM listed, no more and  *)
(* no less, whatever earlier syncs left half done, as long as no other sync  *)
(* ran at the same time.                                                     *)
VisitShowsTheList ==
  [][\A s \in Syncs :
       SyncVisits(s) /\ billSync[s].alone => There = billSync[s].list]_billVars

(* An associate with a phone hears of a bill that stays on the list: a push  *)
(* that fails is tried again by the next round.                              *)
BillIsTold ==
  \A b \in Bills :
    b \in crm /\ device ~> b \in delivered \/ b \notin crm \/ ~device
===============================================================================

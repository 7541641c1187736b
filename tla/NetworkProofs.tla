---------------------------- MODULE NetworkProofs ----------------------------
(* Proofs about the network of cafes, for any brands, guests, menus and       *)
(* handlers: what is active rests on verified documents, guests are in tiers  *)
(* that are on, a refusal is kept, an export restores the menu, files follow  *)
(* their rows, accounts agree with the rows they belong to, and every table   *)
(* keeps to its types and bounds.                                            *)
EXTENDS MCNetwork, FiniteSetTheorems, TLAPS

(* Proof, for any brands, administrators, documents and handlers, that what   *)
(* is active rests on documents an administrator has verified.                *)
-----------------------------------------------------------------------------
(* The inductive invariant.                                                  *)

\* b had a document of every required type that was verified.
Documented(b) ==
  \A type \in RequiredTypes :
    \E i \in DOMAIN document : document[i].brand = b /\ document[i].type = type /\ document[i].isVerified

\* What a handler in flight has checked: before it activates a brand, or puts a
\* cafe under one, it saw the documents.
BrandsHandlerOK(h) ==
  /\ "pc" \in DOMAIN h
  /\ h.pc = "brand_write" /\ "status" \in DOMAIN h.new /\ h.new["status"] = "ACTIVE" => Documented(h.brand)
  /\ h.pc \in {"cafe_insert", "cafe_move"} => h.brand \in BrandIds /\ Documented(h.brand)
  /\ h.pc \in {"document_store", "document_insert"} => h.brand \in BrandIds /\ h.type \in DocumentTypes
  /\ h.pc \in {"picture_delete", "picture_store"} => h.kind # "status"

Cafe == [brand : BrandIds, deleted : BOOLEAN]

BrandsTablesOK ==
  /\ handler = [p \in Procs |-> handler[p]]
  /\ brand = [b \in BrandIds |-> brand[b]]
  /\ \A b \in BrandIds : "status" \in DOMAIN brand[b]
  /\ document \in Seq(Document)
  /\ cafe \in Seq(Cafe)

BrandsIInv ==
  /\ BrandsTablesOK
  /\ \A b \in BrandIds : brand[b].status = "ACTIVE" => Documented(b)
  /\ \A i \in DOMAIN cafe : Documented(cafe[i].brand)
  /\ \A p \in Procs : BrandsHandlerOK(handler[p])

-----------------------------------------------------------------------------
(* What every step keeps.                                                    *)

\* Verified documents stay in the table, deleted or not.
DocumentsStay == \A b : Documented(b) => Documented(b)'

BrandsStepOK ==
  /\ brand' = [b \in BrandIds |-> brand'[b]]
  /\ \A b \in BrandIds : "status" \in DOMAIN brand'[b]
  /\ \A b \in BrandIds : brand'[b].status = "ACTIVE" => Documented(b)

CafesStepOK ==
  /\ cafe' \in Seq(Cafe)
  /\ \A i \in DOMAIN cafe' : Documented(cafe'[i].brand)

DocumentsStepOK ==
  /\ document' \in Seq(Document)
  /\ DocumentsStay

\* A handler's new locals are justified by what was there before the step.
BrandsHandlerStepOK(p) == \E h : BrandsHandlerOK(h) /\ handler' = [handler EXCEPT ![p] = h]

BrandsAllowedStep ==
  /\ BrandsStepOK /\ CafesStepOK /\ DocumentsStepOK
  /\ UNCHANGED handler \/ \E p \in Procs : BrandsHandlerStepOK(p)

\* What a row appended or written in place leaves.
LEMMA Appended ==
  ASSUME NEW S, NEW s \in Seq(S), NEW x \in S
  PROVE  /\ Append(s, x) \in Seq(S)
         /\ DOMAIN Append(s, x) = DOMAIN s \cup {Len(s) + 1}
         /\ \A i \in DOMAIN s : Append(s, x)[i] = s[i]
         /\ Append(s, x)[Len(s) + 1] = x
OBVIOUS

\* BrandsHandlerOK only depends on documents that stay.
LEMMA BrandsStepKeepsInvariant == BrandsIInv /\ BrandsAllowedStep => BrandsIInv'
<1> SUFFICES ASSUME BrandsIInv, BrandsAllowedStep PROVE BrandsIInv' OBVIOUS
<1>1. \A h : BrandsHandlerOK(h) => BrandsHandlerOK(h)'
  BY DEF BrandsAllowedStep, DocumentsStepOK, DocumentsStay, BrandsHandlerOK
<1>2. handler' = [p \in Procs |-> handler'[p]] /\ \A p \in Procs : BrandsHandlerOK(handler'[p])
  BY DEF BrandsIInv, BrandsTablesOK, BrandsAllowedStep, BrandsHandlerStepOK
<1>3. \A p \in Procs : BrandsHandlerOK(handler[p])'
  BY <1>1, <1>2
<1>4. BrandsTablesOK'
  BY <1>2 DEF BrandsAllowedStep, BrandsStepOK, CafesStepOK, DocumentsStepOK, BrandsTablesOK
<1>5. \A b \in BrandIds : brand'[b].status = "ACTIVE" => Documented(b)'
  BY DEF BrandsAllowedStep, BrandsStepOK, DocumentsStepOK, DocumentsStay
<1>6. \A i \in DOMAIN cafe' : Documented(cafe[i].brand)'
  BY DEF BrandsAllowedStep, CafesStepOK, DocumentsStepOK, DocumentsStay
<1> QED BY <1>3, <1>4, <1>5, <1>6 DEF BrandsIInv

-----------------------------------------------------------------------------
(* The actions.  First, those that only read.                                *)

LEMMA BrandsReadStep ==
  ASSUME BrandsIInv, NEW p, p \in Procs, NEW h, Become(p, h), UNCHANGED bvars, BrandsHandlerOK(h)
  PROVE  BrandsAllowedStep
<1>1. BrandsHandlerStepOK(p)
  BY DEF BrandsHandlerStepOK, Become
<1> QED BY <1>1 DEF BrandsAllowedStep, BrandsIInv, BrandsTablesOK, BrandsStepOK, CafesStepOK, DocumentsStepOK, DocumentsStay, Documented, bvars

\* A handler that ends promises nothing.
LEMMA BrandsEnded == BrandsHandlerOK(NoRequest)
BY DEF BrandsHandlerOK, NoRequest

LEMMA BrandRequestStep ==
  ASSUME BrandsIInv, NEW p \in Procs, NEW w \in Admins, BrandRequest(p, w)
  PROVE  BrandsAllowedStep
<1>1. ASSUME NEW b \in BrandIds, BrandCreate(w, b) PROVE BrandsAllowedStep
  <2>1. BrandsStepOK
    BY <1>1 DEF BrandCreate, BrandsIInv, BrandsTablesOK, BrandsStepOK
  <2> QED BY <1>1, <2>1 DEF BrandCreate, BrandsAllowedStep, BrandsIInv, BrandsTablesOK, CafesStepOK, DocumentsStepOK, DocumentsStay, Documented, rvars
<1>2. ASSUME NEW b \in BrandIds, BrandUpdateRead(p, w, b, 1) PROVE BrandsAllowedStep
  <2> DEFINE h == [pc |-> "brand_write", brand |-> b,
                   new |-> [settings |-> [brand[b].settings EXCEPT !.theme = 1]]]
  <2>1. BrandsHandlerOK(h) BY DEF BrandsHandlerOK
  <2> QED BY <1>2, <2>1, BrandsReadStep DEF BrandUpdateRead
<1>3. ASSUME NEW b \in BrandIds, NEW withSettings \in BOOLEAN, BrandCustomizeRead(p, w, b, withSettings, 1)
      PROVE  BrandsAllowedStep
  <2> DEFINE new == IF withSettings THEN [settings |-> [brand[b].settings EXCEPT !.theme = 1]] ELSE << >>
  <2> DEFINE h == [pc |-> "brand_write", brand |-> b, new |-> new]
  <2>1. "status" \notin DOMAIN new
    OBVIOUS
  <2>2. BrandsHandlerOK(h) BY <2>1 DEF BrandsHandlerOK
  <2> QED BY <1>3, <2>2, BrandsReadStep DEF BrandCustomizeRead
<1>4. ASSUME NEW b \in BrandIds, BrandRemoveRead(p, w, b) PROVE BrandsAllowedStep
  <2>1. BrandsHandlerOK([pc |-> "brand_write", brand |-> b, new |-> [deleted |-> TRUE]])
    BY DEF BrandsHandlerOK
  <2> QED BY <1>4, <2>1, BrandsReadStep DEF BrandRemoveRead
<1> QED BY <1>1, <1>2, <1>3, <1>4 DEF BrandRequest

LEMMA DocumentRequestStep ==
  ASSUME BrandsIInv, NEW p \in Procs, NEW w \in Admins, DocumentRequest(p, w)
  PROVE  BrandsAllowedStep
<1>1. ASSUME NEW b \in BrandIds, NEW type \in DocumentTypes, DocumentRead(p, w, b, type) PROVE BrandsAllowedStep
  <2>1. BrandsHandlerOK([pc |-> "document_store", brand |-> b, type |-> type])
    BY DEF BrandsHandlerOK
  <2> QED BY <1>1, <2>1, BrandsReadStep DEF DocumentRead
<1>2. ASSUME NEW i \in DOMAIN document, VerifyDocumentRead(p, w, i) PROVE BrandsAllowedStep
  <2>1. BrandsHandlerOK([pc |-> "document_verify", id |-> i])
    BY DEF BrandsHandlerOK
  <2> QED BY <1>2, <2>1, BrandsReadStep DEF VerifyDocumentRead
<1>3. ASSUME NEW i \in DOMAIN document, DeleteDocumentRead(p, w, i) PROVE BrandsAllowedStep
  <2>1. BrandsHandlerOK([pc |-> "document_unstore", id |-> i])
    BY DEF BrandsHandlerOK
  <2> QED BY <1>3, <2>1, BrandsReadStep DEF DeleteDocumentRead
<1> QED BY <1>1, <1>2, <1>3 DEF DocumentRequest

LEMMA PictureRequestStep ==
  ASSUME BrandsIInv, NEW p \in Procs, NEW w \in Admins, PictureRequest(p, w)
  PROVE  BrandsAllowedStep
<1>1. ASSUME NEW b \in BrandIds, NEW kind \in {"logo", "banner"}, PictureRead(p, w, b, kind) PROVE BrandsAllowedStep
  <2>1. BrandsHandlerOK([pc |-> IF brand[b][kind] = 0 THEN "picture_store" ELSE "picture_delete",
                   brand |-> b, kind |-> kind, old |-> brand[b][kind]])
    BY DEF BrandsHandlerOK
  <2> QED BY <1>1, <2>1, BrandsReadStep DEF PictureRead
<1> QED BY <1>1 DEF PictureRequest, uploadLogo, uploadBanner

\* verifyBrand has seen a verified document of each required type.
LEMMA VerdictRequestStep ==
  ASSUME BrandsIInv, NEW p \in Procs, NEW w \in Admins, VerdictRequest(p, w)
  PROVE  BrandsAllowedStep
<1>1. ASSUME NEW b \in BrandIds, VerifyRead(p, w, b) PROVE BrandsAllowedStep
  <2>1. Documented(b)
    BY <1>1 DEF VerifyRead, DocumentsSuffice, Documents, Documented
  <2>2. BrandsHandlerOK([pc |-> "brand_write", brand |-> b, new |-> [status |-> "ACTIVE", isVerified |-> TRUE]])
    BY <2>1 DEF BrandsHandlerOK
  <2> QED BY <1>1, <2>2, BrandsReadStep DEF VerifyRead
<1>2. ASSUME NEW b \in BrandIds, NEW reason \in BOOLEAN, RejectRead(p, w, b, reason) PROVE BrandsAllowedStep
  <2> DEFINE new == IF reason THEN [status |-> "REJECTED", isVerified |-> FALSE,
                                    settings |-> [brand[b].settings EXCEPT !.reason = "rejected"]]
                    ELSE [status |-> "REJECTED", isVerified |-> FALSE]
  <2>1. new["status"] # "ACTIVE" OBVIOUS
  <2>2. BrandsHandlerOK([pc |-> "brand_write", brand |-> b, new |-> new])
    BY <2>1 DEF BrandsHandlerOK
  <2> QED BY <1>2, <2>2, BrandsReadStep DEF RejectRead
<1>3. ASSUME NEW b \in BrandIds, NEW reason \in BOOLEAN, SuspendRead(p, w, b, reason) PROVE BrandsAllowedStep
  <2> DEFINE new == IF reason THEN [status |-> "SUSPENDED",
                                    settings |-> [brand[b].settings EXCEPT !.reason = "suspended"]]
                    ELSE [status |-> "SUSPENDED"]
  <2>1. new["status"] # "ACTIVE" OBVIOUS
  <2>2. BrandsHandlerOK([pc |-> "brand_write", brand |-> b, new |-> new])
    BY <2>1 DEF BrandsHandlerOK
  <2> QED BY <1>3, <2>2, BrandsReadStep DEF SuspendRead
<1> QED BY <1>1, <1>2, <1>3 DEF VerdictRequest

\* A cafe goes under a brand that is active, or stays where it is.
LEMMA CafeRequestStep ==
  ASSUME BrandsIInv, NEW p \in Procs, NEW w \in Admins, CafeRequest(p, w)
  PROVE  BrandsAllowedStep
<1>1. ASSUME NEW b \in BrandIds, CafeCreateRead(p, w, b) PROVE BrandsAllowedStep
  <2>1. BrandsHandlerOK([pc |-> "cafe_insert", brand |-> b])
    BY <1>1 DEF CafeCreateRead, BrandsIInv, BrandsHandlerOK
  <2> QED BY <1>1, <2>1, BrandsReadStep DEF CafeCreateRead
<1>2. ASSUME NEW i \in DOMAIN cafe, NEW b \in BrandIds, CafeUpdateRead(p, w, i, b) PROVE BrandsAllowedStep
  <2>1. Documented(b)
    BY <1>2 DEF CafeUpdateRead, BrandsIInv
  <2>2. BrandsHandlerOK([pc |-> "cafe_move", id |-> i, brand |-> b])
    BY <2>1 DEF BrandsHandlerOK
  <2> QED BY <1>2, <2>2, BrandsReadStep DEF CafeUpdateRead
<1>3. ASSUME NEW i \in DOMAIN cafe, CafeRemoveRead(p, w, i) PROVE BrandsAllowedStep
  <2>1. BrandsHandlerOK([pc |-> "cafe_remove", id |-> i])
    BY DEF BrandsHandlerOK
  <2> QED BY <1>3, <2>1, BrandsReadStep DEF CafeRemoveRead
<1> QED BY <1>1, <1>2, <1>3 DEF CafeRequest

-----------------------------------------------------------------------------
(* The actions that write.                                                   *)

LEMMA BrandWriteStep ==
  ASSUME BrandsIInv, NEW p \in Procs, BrandWrite(p)
  PROVE  BrandsAllowedStep
<1> DEFINE h == handler[p]
<1>1. h.pc = "brand_write" /\ BrandsHandlerOK(h)
  BY DEF BrandWrite, In, BrandsIInv
<1>2. BrandsStepOK
  <2> DEFINE Written(b) == [f \in DOMAIN brand[b] |-> IF f \in DOMAIN h.new THEN h.new[f] ELSE brand[b][f]]
  <2>1. brand' = [brand EXCEPT ![h.brand] = Written(h.brand)]
    BY DEF BrandWrite
  <2>2. \A b \in BrandIds : brand'[b] = IF b = h.brand THEN Written(b) ELSE brand[b]
    BY <2>1 DEF BrandsIInv, BrandsTablesOK
  <2>3. \A b \in BrandIds : DOMAIN Written(b) = DOMAIN brand[b]
    OBVIOUS
  <2>4. brand' = [b \in BrandIds |-> brand'[b]]
    BY <2>1 DEF BrandsIInv, BrandsTablesOK
  <2>5. ASSUME NEW b \in BrandIds, b = h.brand, brand'[b]["status"] = "ACTIVE" PROVE Documented(b)
    <3>1. Written(b)["status"] = "ACTIVE" /\ "status" \in DOMAIN brand[b]
      BY <2>2, <2>5 DEF BrandsIInv, BrandsTablesOK
    <3>2. CASE "status" \in DOMAIN h.new
      BY <1>1, <2>5, <3>1, <3>2 DEF BrandsHandlerOK
    <3>3. CASE "status" \notin DOMAIN h.new
      BY <3>1, <3>3 DEF BrandsIInv
    <3> QED BY <3>2, <3>3
  <2> QED BY <2>2, <2>3, <2>4, <2>5 DEF BrandsStepOK, BrandsIInv, BrandsTablesOK
<1>3. BrandsHandlerStepOK(p)
  BY BrandsEnded DEF BrandsHandlerStepOK, BrandWrite, Finish, Become
<1> QED BY <1>2, <1>3 DEF BrandWrite, BrandsAllowedStep, BrandsIInv, BrandsTablesOK, CafesStepOK, DocumentsStepOK, DocumentsStay, Documented

LEMMA DocumentStep ==
  ASSUME BrandsIInv, NEW p \in Procs,
         DocumentInsert(p) \/ VerifyDocumentWrite(p) \/ DeleteDocumentRow(p)
  PROVE  BrandsAllowedStep
<1>1. BrandsHandlerStepOK(p) /\ UNCHANGED <<brand, cafe>>
  BY BrandsEnded DEF BrandsHandlerStepOK, DocumentInsert, VerifyDocumentWrite, DeleteDocumentRow, Finish, Become
<1>2. DocumentsStepOK
  <2>1. CASE DocumentInsert(p)
    <3> DEFINE x == [brand |-> handler[p].brand, type |-> handler[p].type, isVerified |-> FALSE, deleted |-> FALSE]
    <3>1. x \in Document
      BY <2>1 DEF DocumentInsert, In, BrandsIInv, BrandsHandlerOK, Document
    <3>2. document' = Append(document, x)
      BY <2>1 DEF DocumentInsert
    <3>3. /\ document' \in Seq(Document)
          /\ DOMAIN document \subseteq DOMAIN document'
          /\ \A i \in DOMAIN document : document'[i] = document[i]
      BY <3>1, <3>2, Appended DEF BrandsIInv, BrandsTablesOK
    <3> QED BY <3>3 DEF DocumentsStepOK, DocumentsStay, Documented
  <2>2. CASE VerifyDocumentWrite(p) \/ DeleteDocumentRow(p)
    <3> DEFINE i == handler[p].id
    <3>1. \/ document' = document
          \/ document' = [document EXCEPT ![i].isVerified = TRUE]
          \/ document' = [document EXCEPT ![i].deleted = TRUE]
      BY <2>2 DEF VerifyDocumentWrite, DeleteDocumentRow
    <3>2. document \in [1..Len(document) -> Document] /\ Len(document) \in Nat
      BY DEF BrandsIInv, BrandsTablesOK
    <3>3. /\ document' \in [1..Len(document) -> Document]
          /\ \A j \in 1..Len(document) : /\ document'[j].brand = document[j].brand
                                         /\ document'[j].type = document[j].type
                                         /\ document[j].isVerified => document'[j].isVerified
      <4>1. CASE document' = [document EXCEPT ![i].isVerified = TRUE]
        BY <3>2, <4>1 DEF Document
      <4>2. CASE document' = [document EXCEPT ![i].deleted = TRUE]
        <5>1. \A j \in 1..Len(document) :
                 document'[j] = IF j = i THEN [document[j] EXCEPT !.deleted = TRUE] ELSE document[j]
          BY <3>2, <4>2
        <5>2. \A j \in 1..Len(document) : document'[j] \in Document
          BY <3>2, <5>1 DEF Document
        <5> QED BY <3>2, <4>2, <5>1, <5>2 DEF Document
      <4> QED BY <3>1, <3>2, <4>1, <4>2
    <3>4. document' \in Seq(Document) /\ DOMAIN document' = DOMAIN document
      BY <3>2, <3>3
    <3> QED BY <3>2, <3>3, <3>4 DEF DocumentsStepOK, DocumentsStay, Documented
  <2> QED BY <2>1, <2>2
<1> QED BY <1>1, <1>2 DEF BrandsAllowedStep, BrandsIInv, BrandsTablesOK, BrandsStepOK, CafesStepOK

LEMMA FileStep ==
  ASSUME BrandsIInv, NEW p \in Procs,
         DocumentStore(p) \/ DeleteDocumentFile(p) \/ PictureDelete(p) \/ PictureStore(p)
  PROVE  BrandsAllowedStep
<1>1. ASSUME DocumentStore(p) PROVE BrandsHandlerStepOK(p)
  <2>1. BrandsHandlerOK([handler[p] EXCEPT !.pc = "document_insert"])
    BY <1>1 DEF DocumentStore, BrandsHandlerOK, In, BrandsIInv
  <2> QED BY <1>1, <2>1 DEF DocumentStore, Goto, BrandsHandlerStepOK
<1>2. ASSUME DeleteDocumentFile(p) PROVE BrandsHandlerStepOK(p)
  <2>1. BrandsHandlerOK([handler[p] EXCEPT !.pc = "document_delete"])
    BY <1>2 DEF DeleteDocumentFile, BrandsHandlerOK, In, BrandsIInv
  <2> QED BY <1>2, <2>1 DEF DeleteDocumentFile, Goto, BrandsHandlerStepOK
<1>3. ASSUME PictureDelete(p) PROVE BrandsHandlerStepOK(p)
  <2>1. BrandsHandlerOK([handler[p] EXCEPT !.pc = "picture_store"])
    BY <1>3 DEF PictureDelete, BrandsHandlerOK, In, BrandsIInv
  <2> QED BY <1>3, <2>1 DEF PictureDelete, Goto, BrandsHandlerStepOK
<1>4. ASSUME PictureStore(p) PROVE BrandsHandlerStepOK(p)
  <2>1. handler[p].kind # "status"
    BY <1>4 DEF PictureStore, In, BrandsIInv, BrandsHandlerOK
  <2>2. BrandsHandlerOK([pc |-> "brand_write", brand |-> handler[p].brand,
                   new |-> [f \in {handler[p].kind} |-> pictures + 1]])
    BY <2>1 DEF BrandsHandlerOK
  <2> QED BY <1>4, <2>2 DEF PictureStore, Become, BrandsHandlerStepOK
<1>5. UNCHANGED <<brand, document, cafe>>
  BY DEF DocumentStore, DeleteDocumentFile, PictureDelete, PictureStore
<1> QED BY <1>1, <1>2, <1>3, <1>4, <1>5
        DEF BrandsAllowedStep, BrandsIInv, BrandsTablesOK, BrandsStepOK, CafesStepOK, DocumentsStepOK, DocumentsStay, Documented

LEMMA CafeStep ==
  ASSUME BrandsIInv, NEW p \in Procs,
         CafeInsert(p) \/ CafeUpdateWrite(p) \/ CafeRemoveWrite(p)
  PROVE  BrandsAllowedStep
<1>1. BrandsHandlerStepOK(p) /\ UNCHANGED <<brand, document>>
  BY BrandsEnded DEF BrandsHandlerStepOK, CafeInsert, CafeUpdateWrite, CafeRemoveWrite, Finish, Become
<1>2. CafesStepOK
  <2>1. CASE CafeInsert(p)
    <3> DEFINE x == [brand |-> handler[p].brand, deleted |-> FALSE]
    <3>1. x \in Cafe /\ Documented(x.brand)
      BY <2>1 DEF CafeInsert, In, BrandsIInv, BrandsHandlerOK, Cafe
    <3>2. cafe' = Append(cafe, x)
      BY <2>1 DEF CafeInsert
    <3>3. /\ cafe' \in Seq(Cafe)
          /\ DOMAIN cafe' = DOMAIN cafe \cup {Len(cafe) + 1}
          /\ \A i \in DOMAIN cafe : cafe'[i] = cafe[i]
          /\ cafe'[Len(cafe) + 1] = x
      BY <3>1, <3>2, Appended DEF BrandsIInv, BrandsTablesOK
    <3> QED BY <3>1, <3>3 DEF CafesStepOK, BrandsIInv
  <2>2. CASE CafeUpdateWrite(p) \/ CafeRemoveWrite(p)
    <3> DEFINE i == handler[p].id
    <3>1. cafe \in [1..Len(cafe) -> Cafe] /\ Len(cafe) \in Nat
      BY DEF BrandsIInv, BrandsTablesOK
    <3>2. CASE CafeUpdateWrite(p)
      <4>1. handler[p].brand \in BrandIds /\ Documented(handler[p].brand)
        BY <3>2 DEF CafeUpdateWrite, In, BrandsIInv, BrandsHandlerOK
      <4>2. cafe' = [cafe EXCEPT ![i].brand = handler[p].brand]
        BY <3>2 DEF CafeUpdateWrite
      <4>3. /\ cafe' \in [1..Len(cafe) -> Cafe]
            /\ \A j \in 1..Len(cafe) : cafe'[j].brand \in {cafe[j].brand, handler[p].brand}
        BY <3>1, <4>1, <4>2 DEF Cafe
      <4> QED BY <3>1, <4>1, <4>3 DEF CafesStepOK, BrandsIInv
    <3>3. CASE CafeRemoveWrite(p)
      <4>1. /\ cafe' \in [1..Len(cafe) -> Cafe]
            /\ \A j \in 1..Len(cafe) : cafe'[j].brand = cafe[j].brand
        BY <3>1, <3>3 DEF CafeRemoveWrite, Cafe
      <4> QED BY <3>1, <4>1 DEF CafesStepOK, BrandsIInv
    <3> QED BY <2>2, <3>2, <3>3
  <2> QED BY <2>1, <2>2
<1> QED BY <1>1, <1>2 DEF BrandsAllowedStep, BrandsIInv, BrandsTablesOK, BrandsStepOK, DocumentsStepOK, DocumentsStay, Documented

-----------------------------------------------------------------------------
(* The theorem.                                                              *)

LEMMA BrandsInitially == BrandsInit /\ RequestsInit => BrandsIInv
<1> SUFFICES ASSUME BrandsInit, RequestsInit PROVE BrandsIInv OBVIOUS
<1>1. BrandsTablesOK /\ \A b \in BrandIds : brand[b].status # "ACTIVE"
  <2>1. \A b \in BrandIds : brand[b].status = "NONE" /\ "status" \in DOMAIN brand[b]
    BY DEF BrandsInit, NoBrand
  <2>2. brand = [b \in BrandIds |-> brand[b]] /\ handler = [p \in Procs |-> handler[p]]
    BY DEF BrandsInit, RequestsInit
  <2>3. document \in Seq(Document) /\ cafe \in Seq(Cafe)
    BY DEF BrandsInit
  <2> QED BY <2>1, <2>2, <2>3 DEF BrandsTablesOK
<1>2. \A i \in DOMAIN cafe : Documented(cafe[i].brand)
  BY DEF BrandsInit
<1>3. \A p \in Procs : BrandsHandlerOK(handler[p])
  BY BrandsEnded DEF RequestsInit
<1> QED BY <1>1, <1>2, <1>3 DEF BrandsIInv

LEMMA BrandsInductive == BrandsIInv /\ [BrandsNext]_<<bvars, rvars>> => BrandsIInv'
<1> SUFFICES ASSUME BrandsIInv, [BrandsNext]_<<bvars, rvars>> PROVE BrandsAllowedStep
  BY BrandsStepKeepsInvariant
<1>1. ASSUME NEW p \in Procs, Dies(p), UNCHANGED bvars PROVE BrandsAllowedStep
  <2>1. BrandsHandlerStepOK(p)
    BY <1>1, BrandsEnded DEF Dies, BrandsHandlerStepOK
  <2> QED BY <1>1, <2>1
          DEF BrandsAllowedStep, BrandsIInv, BrandsTablesOK, BrandsStepOK, CafesStepOK, DocumentsStepOK, DocumentsStay, Documented, bvars
<1>2. ASSUME NEW p \in Procs, BrandContinue(p) PROVE BrandsAllowedStep
  BY <1>2, BrandWriteStep, DocumentStep, FileStep, CafeStep DEF BrandContinue
<1>3. CASE UNCHANGED <<bvars, rvars>>
  BY <1>3 DEF BrandsAllowedStep, BrandsIInv, BrandsTablesOK, BrandsStepOK, CafesStepOK, DocumentsStepOK, DocumentsStay, Documented, bvars, rvars
<1> QED BY <1>1, <1>2, <1>3, BrandRequestStep, DocumentRequestStep, PictureRequestStep,
           VerdictRequestStep, CafeRequestStep DEF BrandsNext

\* verifyBrand checks the documents and writes the status later, and cafes are
\* created under a status read earlier: even so an active brand, and a brand with a
\* cafe, had every required document verified.
THEOREM VerifiedNetwork == BrandsSpec => []NetworkIsVerified
<1>1. BrandsIInv => NetworkIsVerified
  BY DEF BrandsIInv, NetworkIsVerified, Documented
<1> QED BY <1>1, BrandsInitially, BrandsInductive, PTL DEF BrandsSpec

-----------------------------------------------------------------------------
(* Proofs, for any guests, tiers and handlers, that nobody is left in a tier   *)
(* that is off and that a refusal is undone on purpose only.                  *)
-----------------------------------------------------------------------------
(* The inductive invariant.                                                  *)

GuestsRowOK(row) ==
  /\ {"status", "loyaltyTierId"} \subseteq DOMAIN row
  /\ row.loyaltyTierId \in Tiers \cup {Nothing}

GuestsTablesOK ==
  /\ handler = [p \in Procs |-> handler[p]]
  /\ guest = [g \in GuestIds |-> guest[g]]
  /\ tier = [t \in Tiers |-> tier[t]]
  /\ \A g \in GuestIds : GuestsRowOK(guest[g])

\* A status that a handler was not asked for leaves a refused guest refused, and
\* a tier that it writes is one of the table.
GuestsHandlerOK(h) ==
  /\ h.pc = "guest_insert" => GuestsRowOK(h.row) /\ h.row.loyaltyTierId = DefaultTier
  /\ h.pc \in {"guest_update", "activate"} => h.guest \in GuestIds
  /\ h.pc = "guest_update" => "loyaltyTierId" \notin DOMAIN h.new
  /\ h.pc = "activation" => h.new["loyaltyTierId"] \in Tiers
  /\ h.pc \in {"guest_update", "activation"} =>
       \/ h.by \in {"restore", "update"}
       \/ h.seen.status # "REFUSED"
       \/ "status" \notin DOMAIN h.new
       \/ h.new["status"] = "REFUSED"
  /\ h.pc = "tier_change" => h.tier \in Tiers
  /\ h.pc = "tier_deactivate" => h.tier \in Tiers /\ h.target \in Tiers
  /\ h.pc = "tier_update" => h.status \in {Nothing, TRUE, FALSE}

GuestsIInv ==
  /\ GuestsTablesOK
  /\ GuestTierIsActive
  /\ \A p \in Procs : GuestsHandlerOK(handler[p])

-----------------------------------------------------------------------------
(* What every step keeps.                                                    *)

RefusalStep ==
  \A g \in GuestIds : guest[g].status = "REFUSED" /\ guest'[g].status # "REFUSED" =>
    \E p \in Procs :
      /\ handler[p].pc \in {"guest_update", "activation"} /\ handler[p].guest = g
      /\ \/ handler[p].by = "restore"
         \/ handler[p].by = "update" /\ "status" \in DOMAIN handler[p].new
         \/ handler[p].seen.status # "REFUSED"

GuestsStepOK ==
  /\ guest' = [g \in GuestIds |-> guest'[g]]
  /\ tier' = [t \in Tiers |-> tier'[t]]
  /\ \A g \in GuestIds : GuestsRowOK(guest'[g])
  /\ GuestTierIsActive'
  /\ RefusalStep

GuestsHandlerStepOK ==
  \/ UNCHANGED handler
  \/ \E p, h : p \in Procs /\ GuestsHandlerOK(h) /\ handler' = [handler EXCEPT ![p] = h]

GuestsAllowedStep == GuestsStepOK /\ GuestsHandlerStepOK

LEMMA GuestsStepKeepsInvariant == GuestsIInv /\ GuestsAllowedStep => GuestsIInv'
<1> SUFFICES ASSUME GuestsIInv, GuestsAllowedStep PROVE GuestsIInv' OBVIOUS
<1>1. handler' = [p \in Procs |-> handler'[p]] /\ \A p \in Procs : GuestsHandlerOK(handler'[p])
  BY DEF GuestsIInv, GuestsTablesOK, GuestsAllowedStep, GuestsHandlerStepOK
<1>3. \A p \in Procs : GuestsHandlerOK(handler[p])'
  BY <1>1 DEF GuestsHandlerOK, GuestsRowOK
<1>4. GuestsTablesOK'
  BY <1>1 DEF GuestsAllowedStep, GuestsStepOK, GuestsTablesOK, GuestsRowOK
<1> QED BY <1>3, <1>4 DEF GuestsIInv, GuestsAllowedStep, GuestsStepOK

LEMMA GuestsEnded == GuestsHandlerOK(NoRequest)
BY DEF GuestsHandlerOK, NoRequest

\* Steps that only read.
LEMMA NothingWritten ==
  ASSUME GuestsIInv, UNCHANGED gvars
  PROVE  GuestsStepOK
BY DEF GuestsIInv, GuestsTablesOK, gvars, GuestsStepOK, RefusalStep, GuestTierIsActive

LEMMA GuestsReadStep ==
  ASSUME GuestsIInv, NEW p \in Procs, NEW h, GuestsHandlerOK(h), Become(p, h), UNCHANGED gvars
  PROVE  GuestsAllowedStep
BY NothingWritten DEF GuestsAllowedStep, GuestsHandlerStepOK, Become

LEMMA GuestRequestStep ==
  ASSUME GuestsIInv, NEW p \in Procs, GuestRequest(p)
  PROVE  GuestsAllowedStep
<1>1. ASSUME NEW g \in GuestIds, NEW written \in WrittenPhones, create(p, g, written) PROVE GuestsAllowedStep
  <2> DEFINE row == [NoGuest EXCEPT !.status = "DRAFT", !.phone = normalizeGuestPhone[written],
                                    !.loyaltyTierId = DefaultTier]
  <2>1. GuestsRowOK(row) /\ row.loyaltyTierId = DefaultTier
    BY GuestsAssumption DEF GuestsRowOK, NoGuest
  <2>2. GuestsHandlerOK([pc |-> "guest_insert", guest |-> g, row |-> row])
    BY <2>1 DEF GuestsHandlerOK
  <2> QED BY <1>1, <2>2, GuestsReadStep DEF create
<1>2. ASSUME NEW g \in GuestIds, NEW written \in WrittenPhones \cup {Nothing}, NEW card \in Cards \cup {Nothing},
             NEW status \in {Nothing, "DRAFT", "ACTIVE", "REFUSED"}, UpdateRead(p, g, written, card, status)
      PROVE  GuestsAllowedStep
  <2>1. PICK h : /\ Become(p, h) /\ h.pc = "guest_update" /\ h.by = "update" /\ h.guest = g
                 /\ DOMAIN h.new \subseteq {"phone", "phoneVerified", "code", "accessCardNumber", "status"}
    <3> DEFINE old == guest[g]
               moves == written # Nothing /\ written # old.phone
               fields == (IF moves THEN {"phone", "phoneVerified", "code"} ELSE {})
                            \cup (IF card # Nothing THEN {"accessCardNumber"} ELSE {})
                            \cup (IF status # Nothing \/ (card # Nothing /\ ~moves) \/ (moves /\ old.status = "ACTIVE")
                                  THEN {"status"} ELSE {})
    <3>1. fields \subseteq {"phone", "phoneVerified", "code", "accessCardNumber", "status"}
      OBVIOUS
    <3> DEFINE becomes == CASE status # Nothing -> status
                            [] card # Nothing /\ ~moves -> "ACTIVE"
                            [] moves /\ old.status = "ACTIVE" -> "DRAFT"
                            [] OTHER -> old.status
               new == [f \in fields |->
                         CASE f = "phone" -> normalizeGuestPhone[written] [] f = "phoneVerified" -> FALSE
                           [] f = "code" -> 0 [] f = "accessCardNumber" -> card [] f = "status" -> becomes]
               h == [pc |-> "guest_update", by |-> "update", guest |-> g, seen |-> Seen(g),
                     activate |-> card # Nothing, new |-> new]
    <3>2. Become(p, h)
      BY <1>2, Zenon DEF UpdateRead
    <3>3. DOMAIN new = fields
      OBVIOUS
    <3>4. h.pc = "guest_update" /\ h.by = "update" /\ h.guest = g /\ h.new = new
      OBVIOUS
    <3> HIDE DEF fields, new, h
    <3> QED BY <3>1, <3>2, <3>3, <3>4
  <2>2. GuestsHandlerOK(h)
    BY <2>1 DEF GuestsHandlerOK
  <2> QED BY <1>2, <2>1, <2>2, GuestsReadStep DEF UpdateRead
<1>3. ASSUME NEW g \in GuestIds, NEW code \in 1..MaxCodes, confirmPhoneVerify(p, g, code) PROVE GuestsAllowedStep
  <2> DEFINE h == [pc |-> "guest_update", by |-> "confirm", guest |-> g, seen |-> Seen(g), activate |-> TRUE,
                   new |-> [phoneVerified |-> TRUE, code |-> 0,
                            status |-> IF guest[g].accessCardNumber # Nothing /\ guest[g].status # "REFUSED"
                                       THEN "ACTIVE" ELSE guest[g].status]]
  <2>1. GuestsHandlerOK(h)
    BY DEF GuestsHandlerOK, Seen
  <2> QED BY <1>3, <2>1, GuestsReadStep DEF confirmPhoneVerify
<1>4. ASSUME NEW g \in GuestIds, refuseGuest(p, g) PROVE GuestsAllowedStep
  <2>1. GuestsHandlerOK([pc |-> "guest_update", by |-> "refuse", guest |-> g, seen |-> Seen(g),
                   new |-> [status |-> "REFUSED"], activate |-> FALSE])
    BY DEF GuestsHandlerOK
  <2> QED BY <1>4, <2>1, GuestsReadStep DEF refuseGuest
<1>5. ASSUME NEW g \in GuestIds, restoreGuest(p, g) PROVE GuestsAllowedStep
  <2> DEFINE h == [pc |-> "guest_update", by |-> "restore", guest |-> g, seen |-> Seen(g), activate |-> FALSE,
                   new |-> [status |-> IF guest[g].phoneVerified /\ guest[g].accessCardNumber # Nothing
                                       THEN "ACTIVE" ELSE "DRAFT"]]
  <2>1. GuestsHandlerOK(h)
    BY DEF GuestsHandlerOK
  <2> QED BY <1>5, <2>1, GuestsReadStep DEF restoreGuest
<1>6. ASSUME NEW u \in Clients, ensureGuestForUser(p, u) PROVE GuestsAllowedStep
  <2>1. GuestsHandlerOK([pc |-> "link", user |-> u])
    BY DEF GuestsHandlerOK
  <2> QED BY <1>6, <2>1, GuestsReadStep DEF ensureGuestForUser
<1> QED BY <1>1, <1>2, <1>3, <1>4, <1>5, <1>6 DEF GuestRequest

LEMMA TierRequestStep ==
  ASSUME GuestsIInv, NEW p \in Procs, TierRequest(p)
  PROVE  GuestsAllowedStep
<1>1. ASSUME NEW t \in Tiers, NEW percent \in {1, 2}, NEW status \in {Nothing, TRUE, FALSE},
             updateTierRead(p, t, percent, status)
      PROVE  GuestsAllowedStep
  <2> DEFINE h == [pc |-> "tier_update", tier |-> t, percent |-> percent,
                   locks |-> percent # tier[t].bonusPercent, status |-> status]
  <2>1. GuestsHandlerOK(h)
    BY DEF GuestsHandlerOK
  <2> QED BY <1>1, <2>1, GuestsReadStep DEF updateTierRead
<1>2. ASSUME NEW t \in Tiers, NEW target \in Tiers, deactivateTierRead(p, t, target) PROVE GuestsAllowedStep
  <2>1. GuestsHandlerOK([pc |-> "tier_deactivate", tier |-> t, target |-> target])
    BY DEF GuestsHandlerOK
  <2> QED BY <1>2, <2>1, GuestsReadStep DEF deactivateTierRead
<1>3. ASSUME NEW g \in GuestIds, NEW t \in Tiers, changeGuestTierRead(p, g, t) PROVE GuestsAllowedStep
  <2>1. GuestsHandlerOK([pc |-> "tier_change", guest |-> g, tier |-> t, from |-> guest[g].loyaltyTierId])
    BY DEF GuestsHandlerOK
  <2> QED BY <1>3, <2>1, GuestsReadStep DEF changeGuestTierRead
<1> QED BY <1>1, <1>2, <1>3 DEF TierRequest

-----------------------------------------------------------------------------
(* The actions that write.                                                   *)

\* A written tier is active or loose, the others are as they were.
LEMMA LateOrActive == \A t \in Tiers : tier[t].isActive \/ t \in Late(t)
BY DEF Late

LEMMA NobodyIsLeft ==
  ASSUME GuestsIInv, UNCHANGED tier, loose \subseteq loose',
         \A g \in GuestIds : LET t == guest'[g].loyaltyTierId IN
           t # guest[g].loyaltyTierId /\ t # Nothing => tier[t].isActive \/ t \in loose'
  PROVE  GuestTierIsActive'
BY Zenon DEF GuestsIInv, GuestTierIsActive

LEMMA FinishStep ==
  ASSUME NEW p \in Procs, Finish(p)
  PROVE  GuestsHandlerStepOK
BY GuestsEnded DEF Finish, Become, GuestsHandlerStepOK

LEMMA GuestInsertStep ==
  ASSUME GuestsIInv, NEW p \in Procs, GuestInsert(p)
  PROVE  GuestsAllowedStep
<1> DEFINE h == handler[p]
<1>1. GuestsRowOK(h.row) /\ h.row.loyaltyTierId = DefaultTier
  BY DEF GuestInsert, In, GuestsIInv, GuestsHandlerOK
<1>2. guest' = guest \/ guest' = [guest EXCEPT ![h.guest] = h.row]
  BY DEF GuestInsert
<1>3. tier' = tier /\ loose' = loose \cup Late(DefaultTier) /\ guest[h.guest].status = "NONE"
  BY DEF GuestInsert, NoGuest
<1>4. \A g \in GuestIds : guest'[g] = guest[g] \/ (g = h.guest /\ guest'[g] = h.row)
  BY <1>2 DEF GuestsIInv, GuestsTablesOK
<1>5. GuestTierIsActive'
  <2>1. \A g \in GuestIds : guest'[g].loyaltyTierId \in {guest[g].loyaltyTierId, DefaultTier}
    BY <1>1, <1>4
  <2>2. tier[DefaultTier].isActive \/ DefaultTier \in loose'
    BY <1>3, GuestsAssumption, LateOrActive
  <2> QED BY <1>3, <2>1, <2>2, NobodyIsLeft
<1>6. RefusalStep
  BY <1>3, <1>4 DEF RefusalStep
<1>7. guest' = [g \in GuestIds |-> guest'[g]] /\ tier' = [t \in Tiers |-> tier'[t]]
  BY <1>2, <1>3 DEF GuestsIInv, GuestsTablesOK
<1>8. \A g \in GuestIds : GuestsRowOK(guest'[g])
  BY <1>1, <1>4 DEF GuestsIInv, GuestsTablesOK
<1>9. GuestsStepOK
  BY <1>5, <1>6, <1>7, <1>8 DEF GuestsStepOK
<1> QED BY <1>9, FinishStep DEF GuestInsert, GuestsAllowedStep

LEMMA LinkStep ==
  ASSUME GuestsIInv, NEW p \in Procs, linkUserByPhone(p)
  PROVE  GuestsAllowedStep
<1>1. UNCHANGED gvars
  BY DEF linkUserByPhone
<1> DEFINE u == handler[p].user
           row == [NoGuest EXCEPT !.status = "ACTIVE", !.phone = ClientPhone[u], !.userId = u,
                                  !.phoneVerified = TRUE, !.loyaltyTierId = DefaultTier]
<1>2. \A g \in GuestIds : GuestsHandlerOK([pc |-> "guest_update", by |-> "link", guest |-> g, seen |-> Seen(g),
                        new |-> [userId |-> u], activate |-> FALSE])
  BY DEF GuestsHandlerOK
<1>3. GuestsRowOK(row) /\ row.loyaltyTierId = DefaultTier
  BY GuestsAssumption DEF GuestsRowOK, NoGuest
<1>4. \A g : GuestsHandlerOK([pc |-> "guest_insert", guest |-> g, row |-> row])
  BY <1>3 DEF GuestsHandlerOK
<1>5. \E h : GuestsHandlerOK(h) /\ Become(p, h)
  <2> HIDE DEF row
  <2>1. \/ Finish(p)
        \/ \E g \in GuestIds : Become(p, [pc |-> "guest_update", by |-> "link", guest |-> g, seen |-> Seen(g),
                                          new |-> [userId |-> u], activate |-> FALSE])
        \/ \E g \in GuestIds : Become(p, [pc |-> "guest_insert", guest |-> g, row |-> row])
    BY DEF linkUserByPhone, row
  <2> QED BY <1>2, <1>4, <2>1, GuestsEnded DEF Finish
<1> QED BY <1>1, <1>5, GuestsReadStep

\* An update writes the fields it names, and no tier.
LEMMA GuestWriteStep ==
  ASSUME GuestsIInv, NEW p \in Procs, GuestWrite(p)
  PROVE  GuestsAllowedStep
<1> DEFINE h == handler[p]
           Written(g) == With(guest[g], h.new)
<1>1. h.pc = "guest_update" /\ GuestsHandlerOK(h) /\ UNCHANGED <<tier, loose>>
  BY DEF GuestWrite, In, GuestsIInv
<1>2. guest' = guest \/ guest' = [guest EXCEPT ![h.guest] = Written(h.guest)]
  BY DEF GuestWrite, Update
<1>3. \A g \in GuestIds : guest'[g] = guest[g] \/ (g = h.guest /\ guest'[g] = Written(g))
  BY <1>2 DEF GuestsIInv, GuestsTablesOK
<1>4. \A g \in GuestIds : GuestsRowOK(Written(g)) /\ Written(g)["loyaltyTierId"] = guest[g].loyaltyTierId
  BY <1>1 DEF With, GuestsHandlerOK, GuestsIInv, GuestsTablesOK, GuestsRowOK
<1>5. \A g \in GuestIds : Written(g)["status"] = IF "status" \in DOMAIN h.new THEN h.new["status"] ELSE guest[g].status
  BY DEF With, GuestsIInv, GuestsTablesOK, GuestsRowOK
<1>6. GuestTierIsActive'
  <2>1. \A g \in GuestIds : guest'[g].loyaltyTierId = guest[g].loyaltyTierId
    BY <1>3, <1>4
  <2> QED BY <1>1, <2>1, NobodyIsLeft
<1>7. RefusalStep
  <2> SUFFICES ASSUME NEW g \in GuestIds, guest[g].status = "REFUSED", guest'[g].status # "REFUSED"
               PROVE  /\ h.guest = g
                      /\ \/ h.by = "restore"
                         \/ h.by = "update" /\ "status" \in DOMAIN h.new
                         \/ h.seen.status # "REFUSED"
    BY <1>1 DEF RefusalStep
  <2>1. h.guest = g /\ guest'[g] = Written(g)
    BY <1>3
  <2>2. "status" \in DOMAIN h.new /\ h.new["status"] # "REFUSED"
    BY <1>5, <2>1
  <2> QED BY <1>1, <2>1, <2>2 DEF GuestsHandlerOK
<1>8. guest' = [g \in GuestIds |-> guest'[g]] /\ tier' = [t \in Tiers |-> tier'[t]]
  BY <1>1, <1>2 DEF GuestsIInv, GuestsTablesOK
<1>9. GuestsStepOK
  BY <1>3, <1>4, <1>6, <1>7, <1>8 DEF GuestsStepOK, GuestsIInv, GuestsTablesOK
<1>10. GuestsHandlerOK([pc |-> "activate", guest |-> h.guest])
  BY <1>1 DEF GuestsHandlerOK
<1>11. GuestsHandlerStepOK
  BY <1>10, GuestsEnded DEF GuestWrite, Finish, Become, GuestsHandlerStepOK
<1> QED BY <1>9, <1>11 DEF GuestsAllowedStep

LEMMA ActivateReadStep ==
  ASSUME GuestsIInv, NEW p \in Procs, ActivateRead(p)
  PROVE  GuestsAllowedStep
<1> DEFINE g == handler[p].guest
           new == [status |-> StatusAfterScud(guest[g]),
                   loyaltyTierId |-> IF guest[g].loyaltyTierId = Nothing THEN DefaultTier
                                     ELSE guest[g].loyaltyTierId]
           h == [pc |-> "activation", by |-> "activation", guest |-> g, seen |-> Seen(g), new |-> new]
<1>1. UNCHANGED gvars
  BY DEF ActivateRead
<1>2. GuestsRowOK(guest[g])
  BY DEF ActivateRead, In, GuestsIInv, GuestsHandlerOK, GuestsTablesOK
<1>3. new["loyaltyTierId"] \in Tiers
  BY <1>2, GuestsAssumption DEF GuestsRowOK
<1>4. Seen(g).status # "REFUSED" \/ new["status"] = "REFUSED"
  BY DEF Seen, StatusAfterScud
<1>5. GuestsHandlerOK(h)
  <2> HIDE DEF new
  <2> QED BY <1>3, <1>4 DEF GuestsHandlerOK
<1>6. Become(p, h) \/ Finish(p)
  BY Zenon DEF ActivateRead
<1> QED
  <2> HIDE DEF h
  <2> QED BY <1>1, <1>5, <1>6, GuestsEnded, GuestsReadStep DEF Finish

LEMMA ActivateCommitStep ==
  ASSUME GuestsIInv, NEW p \in Procs, ActivateCommit(p)
  PROVE  GuestsAllowedStep
<1> DEFINE h == handler[p]
           Written(g) == With(guest[g], h.new)
<1>1. h.pc = "activation" /\ GuestsHandlerOK(h) /\ UNCHANGED tier /\ loose' = loose \cup Late(h.new["loyaltyTierId"])
  BY DEF ActivateCommit, In, GuestsIInv
<1>2. guest' = [guest EXCEPT ![h.guest] = Written(h.guest)]
  BY DEF ActivateCommit
<1>3. \A g \in GuestIds : guest'[g] = guest[g] \/ (g = h.guest /\ guest'[g] = Written(g))
  BY <1>2 DEF GuestsIInv, GuestsTablesOK
<1>4. \A g \in GuestIds : /\ DOMAIN Written(g) = DOMAIN guest[g]
                          /\ Written(g)["loyaltyTierId"] \in {guest[g].loyaltyTierId, h.new["loyaltyTierId"]}
                          /\ Written(g)["status"] = IF "status" \in DOMAIN h.new THEN h.new["status"] ELSE guest[g].status
  BY DEF With, GuestsIInv, GuestsTablesOK, GuestsRowOK
<1>5. h.new["loyaltyTierId"] \in Tiers
  BY <1>1 DEF GuestsHandlerOK
<1>6. \A g \in GuestIds : GuestsRowOK(guest'[g])
  <2> SUFFICES ASSUME NEW g \in GuestIds PROVE GuestsRowOK(guest'[g])
    OBVIOUS
  <2> HIDE DEF Written
  <2> QED BY <1>3, <1>4, <1>5 DEF GuestsIInv, GuestsTablesOK, GuestsRowOK
<1>7. GuestTierIsActive'
  <2>1. \A g \in GuestIds : guest'[g].loyaltyTierId \in {guest[g].loyaltyTierId, h.new["loyaltyTierId"]}
    <3> HIDE DEF Written
    <3> QED BY <1>3, <1>4
  <2>2. tier[h.new["loyaltyTierId"]].isActive \/ h.new["loyaltyTierId"] \in loose'
    BY <1>1, <1>5, LateOrActive
  <2> QED BY <1>1, <2>1, <2>2, NobodyIsLeft
<1>8. RefusalStep
  <2> SUFFICES ASSUME NEW g \in GuestIds, guest[g].status = "REFUSED", guest'[g].status # "REFUSED"
               PROVE  /\ h.guest = g
                      /\ \/ h.by = "restore"
                         \/ h.by = "update" /\ "status" \in DOMAIN h.new
                         \/ h.seen.status # "REFUSED"
    BY <1>1 DEF RefusalStep
  <2>1. h.guest = g /\ guest'[g] = Written(g)
    BY <1>3
  <2>2. "status" \in DOMAIN h.new /\ h.new["status"] # "REFUSED"
    <3> HIDE DEF Written
    <3> QED BY <1>4, <2>1
  <2> QED BY <1>1, <2>1, <2>2 DEF GuestsHandlerOK
<1>9. guest' = [g \in GuestIds |-> guest'[g]] /\ tier' = [t \in Tiers |-> tier'[t]]
  BY <1>1, <1>2 DEF GuestsIInv, GuestsTablesOK
<1>10. GuestsStepOK
  BY <1>6, <1>7, <1>8, <1>9 DEF GuestsStepOK
<1> QED BY <1>10, FinishStep DEF ActivateCommit, GuestsAllowedStep

LEMMA UpdateTierStep ==
  ASSUME GuestsIInv, NEW p \in Procs, updateTierWrite(p)
  PROVE  GuestsAllowedStep
<1> DEFINE h == handler[p]
<1>1. h.status \in {Nothing, TRUE, FALSE} /\ UNCHANGED guest /\ loose \subseteq loose'
  BY DEF updateTierWrite, In, GuestsIInv, GuestsHandlerOK
<1>2. tier' = [t \in Tiers |-> tier'[t]]
  BY DEF updateTierWrite, GuestsIInv, GuestsTablesOK
<1>3. \A t \in Tiers : tier'[t].isActive \/ t \in loose' \/ ~tier[t].isActive
  <2> SUFFICES ASSUME NEW t \in Tiers, tier[t].isActive, t \notin loose' PROVE tier'[t].isActive
    OBVIOUS
  <2>1. CASE t # h.tier
    BY <2>1 DEF updateTierWrite, GuestsIInv, GuestsTablesOK
  <2>2. CASE t = h.tier
    <3>1. h.status = Nothing \/ h.status = TRUE
      BY <1>1, <2>2 DEF updateTierWrite
    <3>2. tier'[t].isActive = IF h.status = Nothing THEN tier[t].isActive ELSE h.status
      BY <2>2 DEF updateTierWrite, GuestsIInv, GuestsTablesOK
    <3> QED BY <3>1, <3>2
  <2> QED BY <2>1, <2>2
<1>4. GuestTierIsActive'
  <2> SUFFICES ASSUME NEW g \in GuestIds, guest'[g].loyaltyTierId # Nothing
               PROVE  tier'[guest'[g].loyaltyTierId].isActive \/ guest'[g].loyaltyTierId \in loose'
    BY DEF GuestTierIsActive
  <2> DEFINE t == guest[g].loyaltyTierId
  <2>1. t \in Tiers /\ guest'[g].loyaltyTierId = t
    BY <1>1 DEF GuestsIInv, GuestsTablesOK, GuestsRowOK
  <2>2. tier[t].isActive \/ t \in loose
    BY <2>1, GuestsAssumption DEF GuestsIInv, GuestTierIsActive
  <2> QED BY <1>1, <1>3, <2>1, <2>2
<1>5. GuestsStepOK
  BY <1>1, <1>2, <1>4 DEF GuestsStepOK, RefusalStep, GuestsIInv, GuestsTablesOK
<1> QED BY <1>5, FinishStep DEF updateTierWrite, GuestsAllowedStep

\* The guests of the tier go to its target before the tier is off.
LEMMA DeactivateTierStep ==
  ASSUME GuestsIInv, NEW p \in Procs, deactivateTierCommit(p)
  PROVE  GuestsAllowedStep
<1> DEFINE h == handler[p]
<1>1. h.tier \in Tiers /\ h.target \in Tiers
  BY DEF deactivateTierCommit, In, GuestsIInv, GuestsHandlerOK
<1>2. /\ guest' = [g \in GuestIds |-> guest'[g]]
      /\ tier' = [t \in Tiers |-> tier'[t]]
  BY DEF deactivateTierCommit, GuestsIInv, GuestsTablesOK
<1>3. \A g \in GuestIds : /\ guest'[g].loyaltyTierId = IF guest[g].loyaltyTierId = h.tier THEN h.target
                                                       ELSE guest[g].loyaltyTierId
                          /\ DOMAIN guest'[g] = DOMAIN guest[g]
                          /\ guest'[g].status = guest[g].status
  BY DEF deactivateTierCommit, GuestsIInv, GuestsTablesOK, GuestsRowOK
<1>4. \A t \in Tiers \ {h.tier} : tier'[t] = tier[t]
  BY DEF deactivateTierCommit, GuestsIInv, GuestsTablesOK
<1>5. loose \ {h.tier} \subseteq loose'
  BY DEF deactivateTierCommit
<1>6. h.target = h.tier => h.tier \in loose'
  BY DEF deactivateTierCommit
<1>7. h.target # h.tier => tier'[h.target].isActive \/ h.target \in loose'
  BY <1>1, <1>4, LateOrActive DEF deactivateTierCommit
<1>8. GuestTierIsActive'
  <2> SUFFICES ASSUME NEW g \in GuestIds, guest'[g].loyaltyTierId # Nothing
               PROVE  tier'[guest'[g].loyaltyTierId].isActive \/ guest'[g].loyaltyTierId \in loose'
    BY DEF GuestTierIsActive
  <2> DEFINE t == guest[g].loyaltyTierId
  <2>1. CASE t = h.tier
    BY <1>3, <1>6, <1>7, <2>1
  <2>2. CASE t # h.tier
    <3>1. t \in Tiers /\ guest'[g].loyaltyTierId = t
      BY <1>3, <2>2 DEF GuestsIInv, GuestsTablesOK, GuestsRowOK
    <3>2. tier[t].isActive \/ t \in loose
      BY <3>1, GuestsAssumption DEF GuestsIInv, GuestTierIsActive
    <3> QED BY <1>4, <1>5, <2>2, <3>1, <3>2
  <2> QED BY <2>1, <2>2
<1>9. \A g \in GuestIds : GuestsRowOK(guest'[g])
  BY <1>1, <1>3 DEF GuestsIInv, GuestsTablesOK, GuestsRowOK
<1>10. GuestsStepOK
  BY <1>2, <1>3, <1>8, <1>9 DEF GuestsStepOK, RefusalStep
<1> QED BY <1>10, FinishStep DEF deactivateTierCommit, GuestsAllowedStep

LEMMA ChangeTierStep ==
  ASSUME GuestsIInv, NEW p \in Procs, changeGuestTierCommit(p)
  PROVE  GuestsAllowedStep
<1> DEFINE h == handler[p]
<1>1. h.tier \in Tiers /\ UNCHANGED tier /\ loose' = loose \cup Late(h.tier)
  BY DEF changeGuestTierCommit, In, GuestsIInv, GuestsHandlerOK
<1>2. guest' = [g \in GuestIds |-> guest'[g]] /\ tier' = [t \in Tiers |-> tier'[t]]
  BY DEF changeGuestTierCommit, GuestsIInv, GuestsTablesOK
<1>3. \A g \in GuestIds : /\ guest'[g].loyaltyTierId \in {guest[g].loyaltyTierId, h.tier}
                          /\ DOMAIN guest'[g] = DOMAIN guest[g]
                          /\ guest'[g].status = guest[g].status
  BY DEF changeGuestTierCommit, GuestsIInv, GuestsTablesOK, GuestsRowOK
<1>4. GuestTierIsActive'
  <2>1. tier[h.tier].isActive \/ h.tier \in loose'
    BY <1>1, LateOrActive
  <2> QED BY <1>1, <1>3, <2>1, NobodyIsLeft
<1>5. \A g \in GuestIds : GuestsRowOK(guest'[g])
  BY <1>1, <1>3 DEF GuestsIInv, GuestsTablesOK, GuestsRowOK
<1>6. GuestsStepOK
  BY <1>2, <1>3, <1>4, <1>5 DEF GuestsStepOK, RefusalStep
<1> QED BY <1>6, FinishStep DEF changeGuestTierCommit, GuestsAllowedStep

\* The steps of no handler: a code is sent or expires, a cooldown ends.
LEMMA ClockStep ==
  ASSUME GuestsIInv,
         \/ \E g \in GuestIds : requestPhoneVerify(g) \/ CodeExpires(g)
         \/ \E t \in Tiers : CooldownEnds(t)
  PROVE  GuestsAllowedStep
<1>1. UNCHANGED <<handler, loose>>
  BY DEF requestPhoneVerify, CodeExpires, CooldownEnds, rvars
<1>2. guest' = [g \in GuestIds |-> guest'[g]] /\ tier' = [t \in Tiers |-> tier'[t]]
  BY DEF requestPhoneVerify, CodeExpires, CooldownEnds, GuestsIInv, GuestsTablesOK
<1> DEFINE Kept == /\ \A g \in GuestIds : /\ guest'[g].loyaltyTierId = guest[g].loyaltyTierId
                                          /\ DOMAIN guest'[g] = DOMAIN guest[g]
                                          /\ guest'[g].status = guest[g].status
                   /\ \A t \in Tiers : tier'[t].isActive = tier[t].isActive
<1>3. ASSUME NEW g \in GuestIds, requestPhoneVerify(g) PROVE Kept
  BY <1>3 DEF requestPhoneVerify, GuestsIInv, GuestsTablesOK, GuestsRowOK
<1>4. ASSUME NEW g \in GuestIds, CodeExpires(g) PROVE Kept
  BY <1>4 DEF CodeExpires, GuestsIInv, GuestsTablesOK, GuestsRowOK
<1>5. ASSUME NEW t \in Tiers, CooldownEnds(t) PROVE Kept
  BY <1>5 DEF CooldownEnds, GuestsIInv, GuestsTablesOK
<1>6. Kept
  BY <1>3, <1>4, <1>5
<1>7. GuestTierIsActive'
  BY <1>1, <1>6 DEF GuestsIInv, GuestsTablesOK, GuestsRowOK, GuestTierIsActive
<1>8. GuestsStepOK
  BY <1>2, <1>6, <1>7 DEF GuestsIInv, GuestsTablesOK, GuestsRowOK, GuestsStepOK, RefusalStep
<1> QED BY <1>1, <1>8 DEF GuestsAllowedStep, GuestsHandlerStepOK

-----------------------------------------------------------------------------
(* The theorems.                                                             *)

LEMMA GuestsInitially == GuestsInit /\ RequestsInit => GuestsIInv
<1> SUFFICES ASSUME GuestsInit, RequestsInit PROVE GuestsIInv
  OBVIOUS
<1>1. GuestsTablesOK
  BY DEF GuestsInit, RequestsInit, GuestsTablesOK, GuestsRowOK, NoGuest
<1>2. GuestTierIsActive
  BY DEF GuestsInit, GuestTierIsActive, NoGuest
<1>3. \A p \in Procs : GuestsHandlerOK(handler[p])
  BY GuestsEnded DEF RequestsInit
<1> QED BY <1>1, <1>2, <1>3 DEF GuestsIInv

LEMMA GuestsEveryStep == ASSUME GuestsIInv, [GuestsNext]_<<gvars, rvars>> PROVE GuestsAllowedStep
<1>1. CASE UNCHANGED <<gvars, rvars>>
  BY <1>1, NothingWritten DEF rvars, GuestsAllowedStep, GuestsHandlerStepOK
<1>2. ASSUME NEW p \in Procs, GuestContinue(p) PROVE GuestsAllowedStep
  BY <1>2, GuestInsertStep, LinkStep, GuestWriteStep, ActivateReadStep, ActivateCommitStep,
     UpdateTierStep, DeactivateTierStep, ChangeTierStep DEF GuestContinue
<1>3. ASSUME NEW p \in Procs, Dies(p), UNCHANGED gvars PROVE GuestsAllowedStep
  BY <1>3, GuestsEnded, NothingWritten DEF Dies, GuestsAllowedStep, GuestsHandlerStepOK
<1> QED BY <1>1, <1>2, <1>3, GuestRequestStep, TierRequestStep, ClockStep DEF GuestsNext

LEMMA GuestsInductive == GuestsIInv /\ [GuestsNext]_<<gvars, rvars>> => GuestsIInv'
BY GuestsEveryStep, GuestsStepKeepsInvariant

\* deactivateTier: whatever handlers are interleaved or cut short, no guest is
\* in a tier that is off unless it was switched off by updateTier or written late.
THEOREM GuestTiersAreActive == GuestsSpec => []GuestTierIsActive
<1>1. GuestsIInv => GuestTierIsActive
  BY DEF GuestsIInv
<1> QED BY GuestsInitially, GuestsInductive, <1>1, PTL DEF GuestsSpec

\* refuseGuest: only restoreGuest, an update that was asked to, or a handler that
\* had read the guest before the refusal, brings a refused guest back.
THEOREM RefusalIsKept == GuestsSpec => RefusalSticks
<1>1. GuestsIInv /\ [GuestsNext]_<<gvars, rvars>> => [RefusalStep]_<<gvars, rvars>>
  BY GuestsEveryStep DEF GuestsAllowedStep, GuestsStepOK
<1> QED BY GuestsInitially, GuestsInductive, <1>1, PTL DEF GuestsSpec, RefusalSticks, RefusalStep

-----------------------------------------------------------------------------
(* Proof, for any menu and any documents, that an export restores the menu.  *)
-----------------------------------------------------------------------------
(* The inductive invariant.                                                  *)

MenuRowOK(row) == "status" \in DOMAIN row /\ "category" \in DOMAIN row /\ row.category \in Categories
CategoryRowOK(row) == "status" \in DOMAIN row

MenuTablesOK ==
  /\ handler = [p \in Procs |-> handler[p]]
  /\ category = [k \in Categories |-> category[k]]
  /\ item = [i \in Items |-> item[i]]
  /\ \A i \in Items : MenuRowOK(item[i])
  /\ \A k \in Categories : CategoryRowOK(category[k])

\* The categories an export writes down, and its items.
CategoriesOf(c) ==
  [k \in {k \in Categories : c[k].status # "none"} |-> [name |-> c[k].name, isActive |-> c[k].status = "on"]]

ItemsOf(its) ==
  [i \in {j \in Items : its[j].status # "none"} |->
     [categoryKey |-> its[i].category, price |-> its[i].price,
      name |-> its[i].name, isActive |-> its[i].status = "on"]]

\* An export that no edit has torn has the categories as they still are.
MenuHandlerOK(h) == h.pc = "export" /\ h.whole => h.categories = CategoriesOf(category)

\* A whole export was taken of some menu, the one whose public part it shows.
ExportOK ==
  /\ \A i \in DOMAIN exported.menu.items : exported.menu.items[i].categoryKey \in Categories
  /\ exported.whole =>
       \E c, its :
         /\ exported.menu = [categories |-> CategoriesOf(c), items |-> ItemsOf(its)]
         /\ exported.public = getPublicMenu(c, its)

MenuIInv ==
  /\ MenuTablesOK
  /\ ExportOK
  /\ ExportRestoresTheMenu
  /\ \A p \in Procs : MenuHandlerOK(handler[p])

-----------------------------------------------------------------------------
(* A replacement by an export.                                               *)

\* The part of one category whose names are not blank.
NamedItems(entries) == {entry \in entries : entry.name # ""}

LEMMA NamedIs ==
  ASSUME NEW c, NEW its
  PROVE  Named(getPublicMenu(c, its)) =
           {[category |-> k, name |-> c[k].name, items |-> NamedItems(MenuOf(c, its, k).items)] :
              k \in {k \in Categories : c[k].status = "on" /\ c[k].name # ""}}
<1> DEFINE S == {k \in Categories : c[k].status = "on"}
           N == {k \in Categories : c[k].status = "on" /\ c[k].name # ""}
           f(k) == MenuOf(c, its, k)
           g(x) == [x EXCEPT !.items = {entry \in x.items : entry.name # ""}]
           h(k) == [category |-> k, name |-> c[k].name, items |-> NamedItems(f(k).items)]
<1>1. \A k : f(k).name = c[k].name
  BY DEF MenuOf
<1>2. \A k : g(f(k)) = h(k)
  <2> SUFFICES ASSUME NEW k PROVE g(f(k)) = h(k)
    OBVIOUS
  <2>1. PICK entries : entries = f(k).items
    OBVIOUS
  <2>2. f(k) = [category |-> k, name |-> c[k].name, items |-> entries]
    BY <2>1 DEF MenuOf
  <2> HIDE DEF f
  <2>3. PICK rest : rest = NamedItems(f(k).items)
    OBVIOUS
  <2>4. g(f(k)) = [f(k) EXCEPT !.items = rest]
    BY <2>3 DEF NamedItems
  <2>5. [f(k) EXCEPT !.items = rest] = [category |-> k, name |-> c[k].name, items |-> rest]
    BY <2>2
  <2> QED BY <2>3, <2>4, <2>5
<1>3. N = {k \in S : f(k).name # ""}
  BY <1>1
<1>4. Named(getPublicMenu(c, its)) = {g(x) : x \in {y \in {f(k) : k \in S} : y.name # ""}}
  BY DEF Named, getPublicMenu
<1> HIDE DEF S, N, f, g, h
<1>5. {g(x) : x \in {y \in {f(k) : k \in S} : y.name # ""}} = {h(k) : k \in N}
  BY <1>2, <1>3
<1>6. Named(getPublicMenu(c, its)) = {h(k) : k \in N}
  BY <1>4, <1>5
<1> QED BY <1>6 DEF N, h, f

\* Replacing the menu by a document taken of the menu (c, its) shows what
\* (c, its) shows but for what has a blank name.
LEMMA ReplacementShowsTheSame ==
  ASSUME MenuTablesOK, NEW c, NEW its,
         NEW menu, menu = [categories |-> CategoriesOf(c), items |-> ItemsOf(its)]
  PROVE  getPublicMenu(CategoriesAfterImport("replace", menu), AfterImport("replace", menu))
           = Named(getPublicMenu(c, its))
<1> DEFINE categories == CategoriesAfterImport("replace", menu)
           items == AfterImport("replace", menu)
<1>a. categoriesIn(menu) = {k \in Categories : c[k].status # "none" /\ c[k].name # ""}
  BY DEF categoriesIn, CategoriesOf
<1>b. itemsIn(menu) = {i \in Items : its[i].status # "none" /\ its[i].name # ""}
  BY DEF itemsIn, ItemsOf
<1>1. \A k \in Categories : /\ categories[k].status = "on" <=> c[k].status = "on" /\ c[k].name # ""
                            /\ categories[k].status = "on" => categories[k].name = c[k].name
  <2> SUFFICES ASSUME NEW k \in Categories
               PROVE  /\ categories[k].status = "on" <=> c[k].status = "on" /\ c[k].name # ""
                      /\ categories[k].status = "on" => categories[k].name = c[k].name
    OBVIOUS
  <2>1. CASE k \in categoriesIn(menu)
    <3>1. menu.categories[k] = [name |-> c[k].name, isActive |-> c[k].status = "on"]
      BY <1>a, <2>1 DEF CategoriesOf
    <3>2. categories[k] = [status |-> Shown(menu.categories[k].isActive), name |-> menu.categories[k].name]
      BY <2>1 DEF CategoriesAfterImport
    <3>3. categories[k].status = Shown(c[k].status = "on") /\ categories[k].name = c[k].name
      BY <3>1, <3>2
    <3> QED BY <1>a, <2>1, <3>3 DEF Shown
  <2>2. CASE k \notin categoriesIn(menu)
    <3>1. categories[k] = IF category[k].status # "none" THEN [category[k] EXCEPT !.status = "off"] ELSE category[k]
      BY <2>2 DEF CategoriesAfterImport
    <3>2. categories[k].status # "on"
      BY <3>1 DEF MenuTablesOK, CategoryRowOK
    <3> QED BY <1>a, <2>2, <3>2
  <2> QED BY <2>1, <2>2
<1>2. \A i \in Items : /\ items[i].status = "on" <=> its[i].status = "on" /\ its[i].name # ""
                       /\ items[i].status = "on" => /\ items[i].category = its[i].category
                                                    /\ items[i].price = its[i].price
                                                    /\ items[i].name = its[i].name
  <2> SUFFICES ASSUME NEW i \in Items
               PROVE  /\ items[i].status = "on" <=> its[i].status = "on" /\ its[i].name # ""
                      /\ items[i].status = "on" => /\ items[i].category = its[i].category
                                                   /\ items[i].price = its[i].price
                                                   /\ items[i].name = its[i].name
    OBVIOUS
  <2>1. CASE i \in itemsIn(menu)
    <3>1. menu.items[i] = [categoryKey |-> its[i].category, price |-> its[i].price,
                           name |-> its[i].name, isActive |-> its[i].status = "on"]
      BY <1>b, <2>1 DEF ItemsOf
    <3>2. items[i] = ImportedItem(menu.items[i])
      BY <2>1 DEF AfterImport
    <3>3. /\ items[i].status = Shown(its[i].status = "on") /\ items[i].category = its[i].category
          /\ items[i].price = its[i].price /\ items[i].name = its[i].name
      BY <3>1, <3>2 DEF ImportedItem
    <3> QED BY <1>b, <2>1, <3>3 DEF Shown
  <2>2. CASE i \notin itemsIn(menu)
    <3>1. items[i] = IF item[i].status # "none" THEN [item[i] EXCEPT !.status = "off"] ELSE item[i]
      BY <2>2 DEF AfterImport
    <3>2. items[i].status # "on"
      BY <3>1 DEF MenuTablesOK, MenuRowOK
    <3> QED BY <1>b, <2>2, <3>2
  <2> QED BY <2>1, <2>2
<1> HIDE DEF categories, items
<1>3. \A k \in Categories : MenuOf(categories, items, k).items = NamedItems(MenuOf(c, its, k).items)
  <2> SUFFICES ASSUME NEW k \in Categories
               PROVE  MenuOf(categories, items, k).items = NamedItems(MenuOf(c, its, k).items)
    OBVIOUS
  <2> DEFINE row(is, i) == [item |-> i, name |-> is[i].name, price |-> is[i].price]
             On(is) == {j \in Items : is[j].status = "on" /\ is[j].category = k}
  <2>1. On(items) = {i \in On(its) : its[i].name # ""}
    BY <1>2
  <2>2. \A i \in On(items) : row(items, i) = row(its, i)
    BY <1>2
  <2>3. \A i : row(its, i).name = its[i].name
    OBVIOUS
  <2>4. /\ MenuOf(categories, items, k).items = {row(items, i) : i \in On(items)}
        /\ NamedItems(MenuOf(c, its, k).items) = {entry \in {row(its, i) : i \in On(its)} : entry.name # ""}
    BY DEF MenuOf, NamedItems
  <2> HIDE DEF row, On
  <2>5. {row(items, i) : i \in On(items)} = {row(its, i) : i \in On(items)}
    BY <2>2
  <2>6. {row(its, i) : i \in On(items)} = {entry \in {row(its, i) : i \in On(its)} : entry.name # ""}
    BY <2>1, <2>3
  <2> QED BY <2>4, <2>5, <2>6
<1> DEFINE On == {k \in Categories : categories[k].status = "on"}
           NamedOn == {k \in Categories : c[k].status = "on" /\ c[k].name # ""}
           shown(k) == MenuOf(categories, items, k)
           named(k) == [category |-> k, name |-> c[k].name, items |-> NamedItems(MenuOf(c, its, k).items)]
<1>4. On = NamedOn
  BY <1>1
<1>5. \A k \in On : shown(k) = named(k)
  <2> SUFFICES ASSUME NEW k \in On PROVE shown(k) = named(k)
    OBVIOUS
  <2>1. shown(k) = [category |-> k, name |-> categories[k].name, items |-> shown(k).items]
    BY DEF MenuOf
  <2>2. categories[k].name = c[k].name /\ shown(k).items = NamedItems(MenuOf(c, its, k).items)
    BY <1>1, <1>3
  <2> QED BY <2>1, <2>2
<1>6. getPublicMenu(categories, items) = {shown(k) : k \in On}
  BY DEF getPublicMenu
<1>7. Named(getPublicMenu(c, its)) = {named(k) : k \in NamedOn}
  BY NamedIs
<1>8. {shown(k) : k \in On} = {named(k) : k \in NamedOn}
  <2> HIDE DEF On, NamedOn, shown, named
  <2> QED BY <1>4, <1>5
<1>9. getPublicMenu(categories, items) = Named(getPublicMenu(c, its))
  <2> HIDE DEF On, NamedOn, shown, named
  <2> QED BY <1>6, <1>7, <1>8
<1> QED BY <1>9 DEF categories, items

-----------------------------------------------------------------------------
(* The steps.                                                                *)

\* A write of the menu tears the exports in progress, and a replacement by the
\* last export shows what it shows.
LEMMA WriteStep ==
  ASSUME MenuIInv, Tear, UNCHANGED exported, restored' \in BOOLEAN,
         category' = [k \in Categories |-> category'[k]],
         item' = [i \in Items |-> item'[i]],
         \A i \in Items : MenuRowOK(item'[i]),
         \A k \in Categories : CategoryRowOK(category'[k]),
         restored' /\ exported.whole => getPublicMenu(category', item') = Named(exported.public)
  PROVE  MenuIInv'
<1>1. handler' = [p \in Procs |-> handler'[p]]
  BY DEF Tear
<1>2. \A p \in Procs : handler'[p].pc = "export" => ~handler'[p].whole
  <2> SUFFICES ASSUME NEW p \in Procs, handler'[p].pc = "export" PROVE ~handler'[p].whole
    OBVIOUS
  <2> QED BY DEF Tear, In, MenuIInv, MenuHandlerOK
<1>3. \A p \in Procs : MenuHandlerOK(handler[p])'
  BY <1>2 DEF MenuHandlerOK
<1>4. ExportRestoresTheMenu'
  BY DEF ExportRestoresTheMenu
<1>5. ExportOK'
  BY DEF MenuIInv, ExportOK
<1> QED BY <1>1, <1>3, <1>4, <1>5 DEF MenuIInv, MenuTablesOK

LEMMA MenuEdited ==
  ASSUME MenuIInv, NEW categories, NEW items, Edit(categories, items),
         categories = [k \in Categories |-> categories[k]],
         items = [i \in Items |-> items[i]],
         \A i \in Items : MenuRowOK(items[i]),
         \A k \in Categories : CategoryRowOK(categories[k])
  PROVE  MenuIInv'
BY WriteStep DEF Edit

LEMMA EditStep == ASSUME MenuIInv, MenuEdit PROVE MenuIInv'
<1> USE DEF MenuIInv, MenuTablesOK, MenuRowOK, CategoryRowOK
<1>1. ASSUME NEW k \in Categories, NEW isActive \in BOOLEAN, NEW name \in MenuNames,
             createCategory(k, isActive, name) \/ updateCategory(k, isActive, name)
      PROVE  MenuIInv'
  <2> DEFINE categories == [category EXCEPT ![k] = [status |-> Shown(isActive), name |-> name]]
  <2>1. Edit(categories, item)
    BY <1>1 DEF createCategory, updateCategory
  <2>2. categories = [c \in Categories |-> categories[c]] /\ \A c \in Categories : CategoryRowOK(categories[c])
    OBVIOUS
  <2> QED BY <2>1, <2>2, MenuEdited
<1>2. ASSUME NEW k \in Categories, deleteCategory(k) PROVE MenuIInv'
  <2> DEFINE categories == [category EXCEPT ![k].status = "off"]
             items == [i \in Items |-> IF item[i].status # "none" /\ item[i].category = k
                                       THEN [item[i] EXCEPT !.status = "off"] ELSE item[i]]
  <2>1. Edit(categories, items)
    BY <1>2 DEF deleteCategory
  <2>2. categories = [c \in Categories |-> categories[c]] /\ items = [i \in Items |-> items[i]]
    OBVIOUS
  <2>3. \A i \in Items : MenuRowOK(items[i])
    OBVIOUS
  <2>4. \A c \in Categories : CategoryRowOK(categories[c])
    OBVIOUS
  <2> QED BY <2>1, <2>2, <2>3, <2>4, MenuEdited
<1>3. ASSUME NEW i \in Items, NEW k \in Categories, NEW price \in Prices, NEW isActive \in BOOLEAN,
             NEW name \in MenuNames, createItem(i, k, price, isActive, name) \/ updateItem(i, k, price, isActive, name)
      PROVE  MenuIInv'
  <2> DEFINE items == [item EXCEPT ![i] = [status |-> Shown(isActive), category |-> k, price |-> price, name |-> name]]
  <2>1. Edit(category, items)
    BY <1>3 DEF createItem, updateItem, EditItem
  <2>2. items = [j \in Items |-> items[j]] /\ \A j \in Items : MenuRowOK(items[j])
    OBVIOUS
  <2> QED BY <2>1, <2>2, MenuEdited
<1>4. ASSUME NEW i \in Items, deleteItem(i) PROVE MenuIInv'
  <2> DEFINE items == [item EXCEPT ![i].status = "off"]
  <2>1. Edit(category, items)
    BY <1>4 DEF deleteItem
  <2>2. items = [j \in Items |-> items[j]] /\ \A j \in Items : MenuRowOK(items[j])
    OBVIOUS
  <2> QED BY <2>1, <2>2, MenuEdited
<1> QED BY <1>1, <1>2, <1>3, <1>4 DEF MenuEdit

LEMMA ImportStep ==
  ASSUME MenuIInv, NEW mode \in {"merge", "replace"}, NEW menu \in {exported.menu} \cup MenuDocuments,
         importMenu(mode, menu)
  PROVE  MenuIInv'
<1>1. /\ category' = CategoriesAfterImport(mode, menu) /\ item' = AfterImport(mode, menu)
      /\ restored' = (mode = "replace" /\ menu = exported.menu)
      /\ Tear /\ UNCHANGED exported
  BY DEF importMenu
<1>2. category' = [k \in Categories |-> category'[k]] /\ item' = [i \in Items |-> item'[i]]
  BY <1>1 DEF CategoriesAfterImport, AfterImport
<1>3. \A i \in DOMAIN menu.items : menu.items[i].categoryKey \in Categories
  BY MenuAssumption DEF MenuIInv, ExportOK
<1>4. \A i \in Items : MenuRowOK(item'[i])
  <2> SUFFICES ASSUME NEW i \in Items PROVE MenuRowOK(item'[i])
    OBVIOUS
  <2>1. CASE i \in itemsIn(menu)
    <3>1. item'[i] = ImportedItem(menu.items[i]) /\ i \in DOMAIN menu.items
      BY <1>1, <2>1 DEF AfterImport, itemsIn
    <3> QED BY <1>3, <3>1 DEF ImportedItem, MenuRowOK
  <2>2. CASE i \notin itemsIn(menu)
    <3>1. item'[i] = item[i] \/ item'[i] = [item[i] EXCEPT !.status = "off"]
      BY <1>1, <2>2 DEF AfterImport
    <3>2. MenuRowOK(item[i]) /\ \A j \in Items : MenuRowOK(item[j])
      BY DEF MenuIInv, MenuTablesOK
    <3>3. MenuRowOK([item[i] EXCEPT !.status = "off"])
      BY <3>2 DEF MenuRowOK
    <3> QED BY <3>1, <3>2, <3>3
  <2> QED BY <2>1, <2>2
<1>6. \A k \in Categories : CategoryRowOK(category'[k])
  BY <1>1 DEF CategoriesAfterImport, MenuIInv, MenuTablesOK, CategoryRowOK
<1>5. ASSUME restored', exported.whole PROVE getPublicMenu(category', item') = Named(exported.public)
  <2>1. mode = "replace" /\ menu = exported.menu
    BY <1>1, <1>5
  <2>2. PICK c, its : /\ exported.menu = [categories |-> CategoriesOf(c), items |-> ItemsOf(its)]
                      /\ exported.public = getPublicMenu(c, its)
    BY <1>5 DEF MenuIInv, ExportOK
  <2> QED BY <1>1, <2>1, <2>2, ReplacementShowsTheSame DEF MenuIInv
<1> QED BY <1>1, <1>2, <1>4, <1>5, <1>6, WriteStep

\* An export that has read the categories, and has not yet read the items.
LEMMA ExportCategoriesStep ==
  ASSUME MenuIInv, NEW p \in Procs, exportCategories(p)
  PROVE  MenuIInv'
<1> DEFINE h == [pc |-> "export", whole |-> TRUE, categories |-> CategoriesOf(category)]
<1>1. handler' = [handler EXCEPT ![p] = h] /\ UNCHANGED mvars
  BY DEF exportCategories, Become, CategoriesOf
<1>2. \A q \in Procs : MenuHandlerOK(handler[q])'
  BY <1>1 DEF MenuHandlerOK, MenuIInv, MenuTablesOK, mvars
<1> QED BY <1>1, <1>2 DEF MenuIInv, MenuTablesOK, ExportOK, ExportRestoresTheMenu, mvars

\* The items it reads then belong to the same menu, unless the export was torn.
LEMMA ExportItemsStep ==
  ASSUME MenuIInv, NEW p \in Procs, exportItems(p)
  PROVE  MenuIInv'
<1> DEFINE h == handler[p]
<1>1. /\ handler' = [handler EXCEPT ![p] = NoRequest] /\ UNCHANGED <<category, item>> /\ restored' = FALSE
      /\ exported' = [menu |-> [categories |-> h.categories, items |-> ItemsOf(item)],
                      public |-> getPublicMenu(category, item), whole |-> h.whole]
  BY DEF exportItems, Finish, Become, ItemsOf
<1>2. \A q \in Procs : MenuHandlerOK(handler[q])'
  BY <1>1 DEF MenuHandlerOK, MenuIInv, MenuTablesOK, NoRequest
<1>3. ExportOK'
  <2>1. \A i \in DOMAIN exported'.menu.items : exported'.menu.items[i].categoryKey \in Categories
    BY <1>1 DEF ItemsOf, MenuIInv, MenuTablesOK, MenuRowOK
  <2>2. h.whole => exported'.menu = [categories |-> CategoriesOf(category), items |-> ItemsOf(item)]
    BY <1>1 DEF exportItems, In, MenuIInv, MenuHandlerOK
  <2> QED BY <1>1, <2>1, <2>2 DEF ExportOK, MenuIInv, MenuTablesOK, MenuRowOK
<1> QED BY <1>1, <1>2, <1>3 DEF MenuIInv, MenuTablesOK, ExportRestoresTheMenu

-----------------------------------------------------------------------------
(* The theorem.                                                              *)

LEMMA MenuInitially == MenuInit /\ RequestsInit => MenuIInv
<1> SUFFICES ASSUME MenuInit, RequestsInit PROVE MenuIInv
  OBVIOUS
<1>1. MenuTablesOK
  <2>1. (CHOOSE k \in Categories : TRUE) \in Categories
    BY MenuAssumption
  <2> QED BY <2>1 DEF MenuInit, RequestsInit, MenuTablesOK, MenuRowOK, CategoryRowOK
<1>2. ExportOK
  <2>1. exported = NoExport
    BY DEF MenuInit
  <2>2. exported.menu.items = << >> /\ exported.whole = FALSE
    BY <2>1 DEF NoExport
  <2> QED BY <2>2 DEF ExportOK
<1> QED BY <1>1, <1>2 DEF MenuIInv, MenuInit, RequestsInit, NoExport, NoRequest, MenuHandlerOK, ExportRestoresTheMenu

LEMMA MenuInductive == MenuIInv /\ [MenuNext]_<<mvars, rvars>> => MenuIInv'
<1> SUFFICES ASSUME MenuIInv, [MenuNext]_<<mvars, rvars>> PROVE MenuIInv'
  OBVIOUS
<1>1. CASE UNCHANGED <<mvars, rvars>>
  BY <1>1 DEF mvars, rvars, MenuIInv, MenuTablesOK, ExportOK, ExportRestoresTheMenu, MenuHandlerOK
<1>2. ASSUME NEW p \in Procs, Dies(p), UNCHANGED mvars PROVE MenuIInv'
  <2>1. handler' = [handler EXCEPT ![p] = NoRequest]
    BY <1>2 DEF Dies
  <2>2. \A q \in Procs : MenuHandlerOK(handler[q])'
    BY <1>2, <2>1 DEF mvars, MenuHandlerOK, MenuIInv, MenuTablesOK, NoRequest
  <2> QED BY <1>2, <2>1, <2>2 DEF mvars, MenuIInv, MenuTablesOK, ExportOK, ExportRestoresTheMenu
<1> QED BY <1>1, <1>2, EditStep, ImportStep, ExportCategoriesStep, ExportItemsStep DEF MenuNext, MenuDocument

\* importMenu of an export, in "replace" mode, shows the guests the menu of the
\* moment of the export, unless an edit fell between the export's two reads, but
\* for the entries that updateCategory or updateItem gave a blank name.
THEOREM ExportRestores == MenuSpec => []ExportRestoresTheMenu
<1>1. MenuIInv => ExportRestoresTheMenu
  BY DEF MenuIInv
<1> QED BY MenuInitially, MenuInductive, <1>1, PTL DEF MenuSpec
-----------------------------------------------------------------------------
(* Files and rows.                                                           *)

PictureKinds == {"logo", "banner"}

\* What a handler in flight knows of the files: the document it is about to
\* insert is stored under the number it will get, the picture it is about to
\* delete was only ever its brand's, and the one it is about to link is stored
\* and no brand's yet.
FilesHandlerOK(h) ==
  /\ h.pc = "document_unstore" => "id" \in DOMAIN h
  /\ h.pc = "picture_delete" => {"kind", "brand"} \subseteq DOMAIN h
  /\ h.pc \in {"document_verify", "document_unstore", "document_delete"} => h.id \in DOMAIN document
  /\ h.pc = "document_insert" => <<"document", Len(document) + 1>> \in stored
  /\ h.pc \in {"picture_delete", "picture_store", "brand_write"} => h.brand \in BrandIds
  /\ h.pc \in {"picture_delete", "picture_store"} => h.kind \in PictureKinds
  /\ h.pc = "picture_delete" =>
       /\ h.old \in 1..pictures
       /\ \A b \in BrandIds \ {h.brand} : brand[b][h.kind] # h.old
  /\ h.pc = "brand_write" =>
       \A k \in PictureKinds \cap DOMAIN h.new :
         /\ h.new[k] \in 1..pictures
         /\ <<k, h.new[k]>> \in stored
         /\ \A b \in BrandIds : brand[b][k] # h.new[k]

\* Two handlers hold neither the same new document nor the same new picture,
\* and none deletes the picture another is about to link.
FilesPairOK(p, q) ==
  /\ In(p, "document_insert") /\ In(q, "document_insert") => p = q
  /\ In(p, "brand_write") =>
       \A k \in PictureKinds \cap DOMAIN handler[p].new :
         /\ In(q, "brand_write") /\ k \in DOMAIN handler[q].new /\ handler[q].new[k] = handler[p].new[k] => p = q
         /\ In(q, "picture_delete") /\ handler[q].kind = k => handler[q].old # handler[p].new[k]

PicturesOK ==
  /\ pictures \in Nat
  /\ \A b \in BrandIds : brand[b] = [f \in DOMAIN NoBrand |-> brand[b][f]]
  /\ \A b \in BrandIds, k \in PictureKinds : brand[b][k] \in 0..pictures
  /\ \A b, c \in BrandIds, k \in PictureKinds : brand[b][k] = brand[c][k] /\ brand[b][k] # 0 => b = c

FilesIInv ==
  /\ faults \in Nat
  /\ PicturesOK
  /\ \A p \in Procs : FilesHandlerOK(handler[p])
  /\ \A p, q \in Procs : FilesPairOK(p, q)
  /\ FilesMatchRows

\* A handler's slot, when it takes a step.
LEMMA FilesMoved ==
  ASSUME BrandsIInv, NEW p \in Procs, NEW h, Become(p, h)
  PROVE  handler'[p] = h /\ (\A q \in Procs \ {p} : handler'[q] = handler[q]) /\ faults' = faults
BY DEF BrandsIInv, BrandsTablesOK, Become

\* A handler that only reads, and goes on with what it has read.
LEMMA FilesReadStep ==
  ASSUME BrandsIInv, FilesIInv, NEW p \in Procs, NEW h, Idle(p), Become(p, h), UNCHANGED bvars,
         FilesHandlerOK(h), h.pc # "document_insert",
         h.pc = "brand_write" => DOMAIN h.new \cap PictureKinds = {},
         h.pc = "picture_delete" => h.old = brand[h.brand][h.kind]
  PROVE  FilesIInv'
<1>1. handler'[p] = h /\ (\A q \in Procs \ {p} : handler'[q] = handler[q]) /\ faults' = faults
  BY FilesMoved
<1>2. PicturesOK' BY DEF FilesIInv, PicturesOK, bvars
<1>3. ASSUME NEW q \in Procs PROVE FilesHandlerOK(handler[q])'
  BY <1>1 DEF FilesIInv, FilesHandlerOK, bvars
<1>4. ASSUME NEW q \in Procs, NEW r \in Procs PROVE FilesPairOK(q, r)'
  <2>1. CASE q # p /\ r # p BY <1>1, <2>1 DEF FilesIInv, FilesPairOK, In
  <2>2. CASE q = p BY <1>1, <2>2 DEF FilesPairOK, In
  <2>3. CASE q # p /\ r = p
    <3>1. FilesHandlerOK(handler[q]) BY DEF FilesIInv
    <3>2. ASSUME In(q, "brand_write")', NEW k \in PictureKinds \cap DOMAIN handler'[q].new
          PROVE  /\ ~(In(p, "brand_write")' /\ k \in DOMAIN handler'[p].new)
                 /\ In(p, "picture_delete")' /\ handler'[p].kind = k => handler'[p].old # handler'[q].new[k]
      <4>1. \A b \in BrandIds : brand[b][k] # handler'[q].new[k]
        <5>1. handler'[q] = handler[q] BY <1>1, <2>3
        <5>2. handler[q].pc = "brand_write" /\ k \in PictureKinds \cap DOMAIN handler[q].new
          BY <3>2, <5>1 DEF In
        <5> QED BY <3>1, <5>1, <5>2 DEF FilesHandlerOK
      <4>2. h.pc = "picture_delete" => h.brand \in BrandIds
        BY DEF FilesHandlerOK
      <4> QED BY <1>1, <4>1, <4>2 DEF In
    <3>3. ~In(p, "document_insert")'
      BY <1>1 DEF In
    <3> QED BY <2>3, <3>2, <3>3 DEF FilesPairOK
  <2> QED BY <2>1, <2>2, <2>3
<1>5. FilesMatchRows'
  <2>1. \A q \in Procs : ~Idle(q) => handler'[q] = handler[q]
    BY <1>1
  <2>2. \A q \in Procs : \A label : In(q, label) /\ label # "idle" => handler'[q] = handler[q]
    BY <2>1 DEF In, Idle
  <2> QED BY <1>1, <2>2 DEF FilesIInv, FilesMatchRows, In, bvars, IsDocument, getDocumentDownloadUrl, getPictureUrl
<1> QED BY <1>1, <1>2, <1>3, <1>4, <1>5 DEF FilesIInv

\* The slot a handler leaves holds nothing, and neither clashes with the others.
LEMMA FilesEnded ==
  ASSUME BrandsIInv, NEW p \in Procs, handler' = [handler EXCEPT ![p] = NoRequest]
  PROVE  /\ handler'[p] = NoRequest /\ \A q \in Procs \ {p} : handler'[q] = handler[q]
         /\ FilesIInv => \A q, r \in Procs : FilesPairOK(q, r)'
         /\ \A q \in Procs : FilesHandlerOK(handler[q])' \/ (q # p /\ handler'[q] = handler[q])
<1>1. handler'[p] = NoRequest /\ \A q \in Procs \ {p} : handler'[q] = handler[q]
  BY DEF BrandsIInv, BrandsTablesOK
<1>2. \A label : In(p, label)' => label = "idle"
  BY <1>1 DEF In, NoRequest
<1>3. ASSUME FilesIInv, NEW q \in Procs, NEW r \in Procs PROVE FilesPairOK(q, r)'
  <2>1. CASE q # p /\ r # p BY <1>1, <1>3, <2>1 DEF FilesIInv, FilesPairOK, In
  <2>2. CASE q = p BY <1>2, <2>2 DEF FilesPairOK
  <2>3. CASE r = p BY <1>2, <2>3 DEF FilesPairOK
  <2> QED BY <2>1, <2>2, <2>3
<1>4. FilesHandlerOK(handler[p])'
  BY <1>1 DEF FilesHandlerOK, NoRequest
<1> QED BY <1>1, <1>3, <1>4

\* A handler that ends having written nothing the links or the files depend on.
LEMMA FilesEndStep ==
  ASSUME BrandsIInv, FilesIInv, NEW p \in Procs, Finish(p), UNCHANGED <<brand, stored, pictures>>,
         handler[p].pc \notin {"document_delete", "picture_store", "brand_write"},
         DOMAIN document' = DOMAIN document, Len(document') = Len(document),
         \A i \in DOMAIN document : document'[i].deleted = document[i].deleted
  PROVE  FilesIInv'
<1>1. handler'[p] = NoRequest /\ (\A q \in Procs \ {p} : handler'[q] = handler[q]) /\ faults' = faults
  BY FilesMoved DEF Finish
<1>2. PicturesOK' BY DEF FilesIInv, PicturesOK
<1>3. ASSUME NEW q \in Procs PROVE FilesHandlerOK(handler[q])'
  <2>1. FilesHandlerOK(handler[q]) BY DEF FilesIInv
  <2>2. FilesHandlerOK(handler[q])' \/ handler'[q] = handler[q]
    BY FilesEnded DEF Finish, Become
  <2> QED BY <2>1, <2>2 DEF FilesHandlerOK
<1>4. \A q, r \in Procs : FilesPairOK(q, r)'
  BY FilesEnded DEF Finish, Become
<1>5. FilesMatchRows'
  <2>1. \A q \in Procs : handler[q].pc \in {"document_delete", "picture_store", "brand_write"} => handler'[q] = handler[q]
    BY <1>1
  <2> QED BY <1>1, <2>1 DEF FilesIInv, FilesMatchRows, In, IsDocument, getDocumentDownloadUrl, getPictureUrl
<1> QED BY <1>1, <1>2, <1>3, <1>4, <1>5 DEF FilesIInv

\* A handler that is cut short: the links are no longer promised to lead anywhere.
LEMMA FilesDiesStep ==
  ASSUME BrandsIInv, FilesIInv, NEW p \in Procs, Dies(p), UNCHANGED bvars
  PROVE  FilesIInv'
<1>1. PicturesOK' BY DEF FilesIInv, PicturesOK, bvars
<1>2. ASSUME NEW q \in Procs PROVE FilesHandlerOK(handler[q])'
  <2>1. FilesHandlerOK(handler[q]) BY DEF FilesIInv
  <2>2. FilesHandlerOK(handler[q])' \/ handler'[q] = handler[q]
    BY FilesEnded DEF Dies
  <2> QED BY <2>1, <2>2 DEF FilesHandlerOK, bvars
<1>3. \A q, r \in Procs : FilesPairOK(q, r)'
  BY FilesEnded DEF Dies
<1>4. FilesMatchRows'
  BY DEF FilesIInv, Dies, FilesMatchRows
<1> QED BY <1>1, <1>2, <1>3, <1>4 DEF FilesIInv, Dies

-----------------------------------------------------------------------------
(* The actions that write rows and files.                                    *)

LEMMA FilesBrandCreate ==
  ASSUME BrandsIInv, FilesIInv, NEW w, NEW b \in BrandIds, BrandCreate(w, b)
  PROVE  FilesIInv'
<1>1. /\ \A c \in BrandIds, k \in PictureKinds : brand'[c][k] = brand[c][k]
      /\ \A c \in BrandIds : brand'[c] = [f \in DOMAIN NoBrand |-> brand'[c][f]]
  BY DEF BrandCreate, BrandsIInv, BrandsTablesOK, FilesIInv, PicturesOK, PictureKinds, NoBrand
<1>2. PicturesOK' BY <1>1 DEF FilesIInv, PicturesOK, BrandCreate
<1>3. \A q \in Procs : FilesHandlerOK(handler[q])'
  BY <1>1 DEF FilesIInv, FilesHandlerOK, BrandCreate, rvars
<1>4. \A q, r \in Procs : FilesPairOK(q, r)'
  BY DEF FilesIInv, FilesPairOK, BrandCreate, rvars, In
<1>5. FilesMatchRows'
  BY <1>1 DEF FilesIInv, FilesMatchRows, BrandCreate, rvars, In, IsDocument, getDocumentDownloadUrl, getPictureUrl, PictureKinds
<1> QED BY <1>2, <1>3, <1>4, <1>5 DEF FilesIInv, BrandCreate, rvars

\* The picture a handler links is stored, and no other brand's.
LEMMA FilesBrandWrite ==
  ASSUME BrandsIInv, FilesIInv, NEW p \in Procs, BrandWrite(p)
  PROVE  FilesIInv'
<1> DEFINE h == handler[p]
<1>0. In(p, "brand_write") /\ FilesHandlerOK(h) /\ h.brand \in BrandIds
  BY DEF BrandWrite, FilesIInv, FilesHandlerOK, In
<1>1. /\ handler'[p] = NoRequest /\ (\A q \in Procs \ {p} : handler'[q] = handler[q]) /\ faults' = faults
      /\ UNCHANGED <<document, cafe, stored, pictures>>
  BY FilesMoved DEF Finish, BrandWrite
<1>2. /\ \A c \in BrandIds \ {h.brand} : brand'[c] = brand[c]
      /\ brand'[h.brand] = [f \in DOMAIN NoBrand |-> IF f \in DOMAIN h.new THEN h.new[f] ELSE brand[h.brand][f]]
  BY <1>0 DEF BrandWrite, BrandsIInv, BrandsTablesOK, FilesIInv, PicturesOK
<1>3. \A k \in PictureKinds :
        brand'[h.brand][k] = IF k \in DOMAIN h.new THEN h.new[k] ELSE brand[h.brand][k]
  BY <1>2 DEF PictureKinds, NoBrand
<1>4. \A k \in PictureKinds \cap DOMAIN h.new :
        /\ h.new[k] \in 1..pictures /\ <<k, h.new[k]>> \in stored
        /\ \A b \in BrandIds : brand[b][k] # h.new[k]
  BY <1>0 DEF FilesHandlerOK, In
<1>p. \A c \in BrandIds, k \in PictureKinds :
        brand'[c][k] = IF c = h.brand /\ k \in DOMAIN h.new THEN h.new[k] ELSE brand[c][k]
  BY <1>2, <1>3
<1>5. PicturesOK'
  <2>1. ASSUME NEW c \in BrandIds PROVE brand'[c] = [f \in DOMAIN NoBrand |-> brand'[c][f]]
    BY <1>2 DEF FilesIInv, PicturesOK
  <2>2. ASSUME NEW c \in BrandIds, NEW k \in PictureKinds PROVE brand'[c][k] \in 0..pictures
    <3>1. brand[c][k] \in 0..pictures /\ pictures \in Nat BY DEF FilesIInv, PicturesOK
    <3>2. k \in DOMAIN h.new => h.new[k] \in 1..pictures BY <1>4
    <3> HIDE DEF h
    <3> QED BY <1>p, <3>1, <3>2
  <2>3. ASSUME NEW b \in BrandIds, NEW c \in BrandIds, NEW k \in PictureKinds,
               brand'[b][k] = brand'[c][k], brand'[b][k] # 0
        PROVE  b = c
    <3>1. brand[b][k] = brand[c][k] /\ brand[b][k] # 0 => b = c BY DEF FilesIInv, PicturesOK
    <3>2. k \in DOMAIN h.new => brand[b][k] # h.new[k] /\ brand[c][k] # h.new[k] BY <1>4
    <3> HIDE DEF h
    <3> QED BY <1>p, <2>3, <3>1, <3>2
  <2> QED BY <1>1, <2>1, <2>2, <2>3 DEF FilesIInv, PicturesOK
<1>6. ASSUME NEW q \in Procs PROVE FilesHandlerOK(handler[q])'
  <2>1. CASE q = p BY <1>1, <2>1 DEF FilesHandlerOK, NoRequest
  <2>2. CASE q # p
    <3> DEFINE g == handler[q]
    <3>1. handler'[q] = g /\ FilesHandlerOK(g) BY <1>1, <2>2 DEF FilesIInv
    <3>2. ASSUME g.pc = "picture_delete", NEW b \in BrandIds \ {g.brand} PROVE brand'[b][g.kind] # g.old
      <4>1. g.kind \in PictureKinds /\ brand[b][g.kind] # g.old BY <3>1, <3>2 DEF FilesHandlerOK
      <4>2. g.kind \in DOMAIN h.new => g.old # h.new[g.kind]
        BY <1>0, <3>2, <4>1 DEF FilesIInv, FilesPairOK, In
      <4> QED BY <1>2, <1>3, <4>1, <4>2
    <3>3. ASSUME g.pc = "brand_write", NEW k \in PictureKinds \cap DOMAIN g.new, NEW b \in BrandIds
          PROVE  brand'[b][k] # g.new[k]
      <4>1. brand[b][k] # g.new[k] BY <3>1, <3>3 DEF FilesHandlerOK
      <4>2. k \in DOMAIN h.new => g.new[k] # h.new[k]
        BY <1>0, <2>2, <3>3 DEF FilesIInv, FilesPairOK, In
      <4> QED BY <1>2, <1>3, <4>1, <4>2
    <3> HIDE DEF g
    <3> QED BY <1>1, <3>1, <3>2, <3>3 DEF FilesHandlerOK
  <2> QED BY <2>1, <2>2
<1>7. \A q, r \in Procs : FilesPairOK(q, r)'
  BY FilesEnded DEF BrandWrite, Finish, Become
<1>8. FilesMatchRows'
  <2> SUFFICES ASSUME faults = 0 PROVE FilesMatchRows' BY <1>1 DEF FilesMatchRows
  <2>1. ASSUME NEW i \in DOMAIN document, IsDocument(i)
        PROVE  getDocumentDownloadUrl(i) \in stored \/ \E q \in Procs : In(q, "document_delete")' /\ handler'[q].id = i
    BY <1>0, <1>1, <2>1 DEF FilesIInv, FilesMatchRows, In
  <2>2. ASSUME NEW b \in BrandIds, NEW k \in PictureKinds, brand'[b][k] # 0
        PROVE  \/ <<k, brand'[b][k]>> \in stored
               \/ \E q \in Procs : /\ \/ In(q, "picture_store")' /\ handler'[q].kind = k
                                      \/ In(q, "brand_write")' /\ k \in DOMAIN handler'[q].new
                                   /\ handler'[q].brand = b
    <3>1. CASE b = h.brand /\ k \in DOMAIN h.new
      BY <1>3, <1>4, <3>1
    <3>2. CASE ~(b = h.brand /\ k \in DOMAIN h.new)
      <4>1. brand'[b][k] = brand[b][k] BY <1>2, <1>3, <3>2
      <4>2. \/ <<k, brand[b][k]>> \in stored
            \/ \E q \in Procs : /\ \/ In(q, "picture_store") /\ handler[q].kind = k
                                   \/ In(q, "brand_write") /\ k \in DOMAIN handler[q].new
                                /\ handler[q].brand = b
        BY <2>2, <4>1 DEF FilesIInv, FilesMatchRows, getPictureUrl, PictureKinds
      <4>3. ASSUME NEW q \in Procs, handler[q].brand = b,
                   \/ In(q, "picture_store") /\ handler[q].kind = k
                   \/ In(q, "brand_write") /\ k \in DOMAIN handler[q].new
            PROVE  q # p
        BY <1>0, <3>2, <4>3 DEF In
      <4> QED BY <1>1, <4>1, <4>2, <4>3 DEF In
    <3> QED BY <3>1, <3>2
  <2> QED BY <1>1, <2>1, <2>2 DEF FilesMatchRows, IsDocument, getDocumentDownloadUrl, getPictureUrl, PictureKinds
<1> QED BY <1>1, <1>5, <1>6, <1>7, <1>8 DEF FilesIInv

\* A handler that goes on with the locals it has.
LEMMA FilesWent ==
  ASSUME BrandsIInv, NEW p \in Procs, NEW label, Goto(p, label)
  PROVE  /\ handler'[p].pc = label
         /\ \A f \in DOMAIN handler[p] \ {"pc"} : handler'[p][f] = handler[p][f]
         /\ \A q \in Procs \ {p} : handler'[q] = handler[q]
         /\ faults' = faults
<1>2. "pc" \in DOMAIN handler[p] BY DEF BrandsIInv, BrandsHandlerOK
<1>3. handler'[p] = [handler[p] EXCEPT !.pc = label]
  BY DEF Goto, BrandsIInv, BrandsTablesOK
<1> QED BY <1>2, <1>3 DEF Goto, BrandsIInv, BrandsTablesOK

LEMMA FilesDocumentStore ==
  ASSUME BrandsIInv, FilesIInv, NEW p \in Procs, DocumentStore(p)
  PROVE  FilesIInv'
<1>1. /\ handler'[p].pc = "document_insert"
      /\ (\A q \in Procs \ {p} : handler'[q] = handler[q]) /\ faults' = faults
      /\ UNCHANGED <<brand, document, cafe, pictures>>
      /\ stored' = stored \cup {<<"document", Len(document) + 1>>}
      /\ In(p, "document_store") /\ \A q \in Procs : ~In(q, "document_insert")
  BY FilesWent DEF DocumentStore
<1>2. PicturesOK' BY <1>1 DEF FilesIInv, PicturesOK
<1>3. ASSUME NEW q \in Procs PROVE FilesHandlerOK(handler[q])'
  <2>1. CASE q = p BY <1>1, <2>1 DEF FilesHandlerOK
  <2>2. CASE q # p BY <1>1, <2>2 DEF FilesIInv, FilesHandlerOK
  <2> QED BY <2>1, <2>2
<1>4. ASSUME NEW q \in Procs, NEW r \in Procs PROVE FilesPairOK(q, r)'
  BY <1>1 DEF FilesIInv, FilesPairOK, In
<1>5. FilesMatchRows'
  <2>1. \A q \in Procs : handler[q].pc \in {"document_delete", "picture_store", "brand_write"} => handler'[q] = handler[q]
    BY <1>1 DEF In
  <2> QED BY <1>1, <2>1 DEF FilesIInv, FilesMatchRows, In, IsDocument, getDocumentDownloadUrl, getPictureUrl
<1> QED BY <1>1, <1>2, <1>3, <1>4, <1>5 DEF FilesIInv

\* The document gets the number its file was stored under.
LEMMA FilesDocumentInsert ==
  ASSUME BrandsIInv, FilesIInv, NEW p \in Procs, DocumentInsert(p)
  PROVE  FilesIInv'
<1> DEFINE h == handler[p]
<1> DEFINE d == [brand |-> h.brand, type |-> h.type, isVerified |-> FALSE, deleted |-> FALSE]
<1>0. In(p, "document_insert") /\ <<"document", Len(document) + 1>> \in stored
  BY DEF DocumentInsert, FilesIInv, FilesHandlerOK, In
<1>1. /\ handler'[p] = NoRequest /\ (\A q \in Procs \ {p} : handler'[q] = handler[q]) /\ faults' = faults
      /\ UNCHANGED <<brand, cafe, stored, pictures>>
      /\ document' = Append(document, d)
  BY FilesMoved DEF Finish, DocumentInsert
<1>2. document \in Seq(Document) /\ d \in Document
  BY <1>0 DEF BrandsIInv, BrandsTablesOK, BrandsHandlerOK, In, Document
<1>3. /\ DOMAIN document' = DOMAIN document \cup {Len(document) + 1}
      /\ \A i \in DOMAIN document : document'[i] = document[i]
  <2> HIDE DEF d
  <2> QED BY <1>1, <1>2, Appended
<1>4. PicturesOK' BY <1>1 DEF FilesIInv, PicturesOK
<1>5. ASSUME NEW q \in Procs PROVE FilesHandlerOK(handler[q])'
  <2>1. CASE q = p BY <1>1, <2>1 DEF FilesHandlerOK, NoRequest
  <2>2. CASE q # p
    <3>1. handler[q].pc # "document_insert" BY <1>0, <2>2 DEF FilesIInv, FilesPairOK, In
    <3> QED BY <1>1, <1>3, <2>2, <3>1 DEF FilesIInv, FilesHandlerOK
  <2> QED BY <2>1, <2>2
<1>6. \A q, r \in Procs : FilesPairOK(q, r)'
  BY FilesEnded DEF DocumentInsert, Finish, Become
<1>7. FilesMatchRows'
  <2>1. \A q \in Procs : handler[q].pc \in {"document_delete", "picture_store", "brand_write"} => handler'[q] = handler[q]
    BY <1>0, <1>1 DEF In
  <2> QED BY <1>0, <1>1, <1>3, <2>1 DEF FilesIInv, FilesMatchRows, In, IsDocument, getDocumentDownloadUrl, getPictureUrl
<1> QED BY <1>1, <1>4, <1>5, <1>6, <1>7 DEF FilesIInv

\* A file that is deleted is that of a document in the table, not of one on its way.
LEMMA FilesDocumentUnstore ==
  ASSUME BrandsIInv, FilesIInv, NEW p \in Procs, DeleteDocumentFile(p)
  PROVE  FilesIInv'
<1> DEFINE id == handler[p].id
<1>1. /\ handler'[p].pc = "document_delete" /\ handler'[p].id = id
      /\ (\A q \in Procs \ {p} : handler'[q] = handler[q]) /\ faults' = faults
      /\ UNCHANGED <<brand, document, cafe, pictures>>
      /\ stored' \subseteq stored /\ stored \subseteq stored' \cup {<<"document", id>>}
      /\ In(p, "document_unstore")
  <2>1. "id" \in DOMAIN handler[p] BY DEF DeleteDocumentFile, FilesIInv, FilesHandlerOK, In
  <2> QED BY <2>1, FilesWent DEF DeleteDocumentFile
<1>2. id \in DOMAIN document
  BY <1>1 DEF FilesIInv, FilesHandlerOK, In
<1>3. id # Len(document) + 1
  <2>1. document \in Seq(Document) BY DEF BrandsIInv, BrandsTablesOK
  <2> QED BY <1>2, <2>1
<1>4. PicturesOK' BY <1>1 DEF FilesIInv, PicturesOK
<1>5. ASSUME NEW q \in Procs PROVE FilesHandlerOK(handler[q])'
  <2>1. CASE q = p BY <1>1, <1>2, <2>1 DEF FilesHandlerOK
  <2>2. CASE q # p
    <3>1. <<"document", Len(document) + 1>> \in stored => <<"document", Len(document) + 1>> \in stored'
      BY <1>1, <1>3
    <3>2. \A k \in PictureKinds : \A n : <<k, n>> \in stored => <<k, n>> \in stored'
      BY <1>1 DEF PictureKinds
    <3> QED BY <1>1, <2>2, <3>1, <3>2 DEF FilesIInv, FilesHandlerOK
  <2> QED BY <2>1, <2>2
<1>6. ASSUME NEW q \in Procs, NEW r \in Procs PROVE FilesPairOK(q, r)'
  BY <1>1 DEF FilesIInv, FilesPairOK, In
<1>7. FilesMatchRows'
  <2>1. \A q \in Procs : handler[q].pc \in {"document_delete", "picture_store", "brand_write"} => handler'[q] = handler[q]
    BY <1>1 DEF In
  <2>2. \A k \in PictureKinds : \A n : <<k, n>> \in stored => <<k, n>> \in stored'
    BY <1>1 DEF PictureKinds
  <2>3. ASSUME NEW i \in DOMAIN document, <<"document", i>> \in stored, <<"document", i>> \notin stored'
        PROVE  In(p, "document_delete")' /\ handler'[p].id = i
    BY <1>1, <2>3 DEF In
  <2> QED BY <1>1, <2>1, <2>2, <2>3
          DEF FilesIInv, FilesMatchRows, In, IsDocument, getDocumentDownloadUrl, getPictureUrl, PictureKinds
<1> QED BY <1>1, <1>4, <1>5, <1>6, <1>7 DEF FilesIInv

LEMMA FilesDocumentDelete ==
  ASSUME BrandsIInv, FilesIInv, NEW p \in Procs, DeleteDocumentRow(p)
  PROVE  FilesIInv'
<1> DEFINE id == handler[p].id
<1>1. /\ handler'[p] = NoRequest /\ (\A q \in Procs \ {p} : handler'[q] = handler[q]) /\ faults' = faults
      /\ UNCHANGED <<brand, cafe, stored, pictures>> /\ In(p, "document_delete")
      /\ document' = [document EXCEPT ![id].deleted = TRUE]
  BY FilesMoved DEF Finish, DeleteDocumentRow
<1>2. id \in DOMAIN document BY <1>1 DEF FilesIInv, FilesHandlerOK, In
<1>3. document \in Seq(Document) BY DEF BrandsIInv, BrandsTablesOK
<1>4. /\ DOMAIN document' = DOMAIN document /\ Len(document') = Len(document)
      /\ document'[id].deleted
      /\ \A i \in DOMAIN document \ {id} : document'[i] = document[i]
  <2> DEFINE d == [document[id] EXCEPT !.deleted = TRUE]
  <2>1. document' = [document EXCEPT ![id] = d] BY <1>1
  <2>2. document[id] \in Document BY <1>2, <1>3
  <2>3. d.deleted BY <2>2 DEF Document
  <2>4. d \in Document BY <2>2 DEF Document
  <2> HIDE DEF d
  <2> QED BY <1>2, <1>3, <2>1, <2>3, <2>4
<1>5. PicturesOK' BY <1>1 DEF FilesIInv, PicturesOK
<1>6. ASSUME NEW q \in Procs PROVE FilesHandlerOK(handler[q])'
  <2>1. CASE q = p BY <1>1, <2>1 DEF FilesHandlerOK, NoRequest
  <2>2. CASE q # p BY <1>1, <1>4, <2>2 DEF FilesIInv, FilesHandlerOK
  <2> QED BY <2>1, <2>2
<1>7. \A q, r \in Procs : FilesPairOK(q, r)'
  BY FilesEnded DEF DeleteDocumentRow, Finish, Become
<1>8. FilesMatchRows'
  <2>1. \A q \in Procs : handler[q].pc \in {"picture_store", "brand_write"} => handler'[q] = handler[q]
    BY <1>1 DEF In
  <2>2. \A q \in Procs : In(q, "document_delete") => handler[q].id = id \/ handler'[q] = handler[q]
    BY <1>1
  <2> QED BY <1>1, <1>4, <2>1, <2>2 DEF FilesIInv, FilesMatchRows, In, IsDocument, getDocumentDownloadUrl, getPictureUrl
<1> QED BY <1>1, <1>5, <1>6, <1>7, <1>8 DEF FilesIInv

\* A picture that is deleted was its brand's: no other brand links to it, and no
\* handler is about to.
LEMMA FilesPictureDelete ==
  ASSUME BrandsIInv, FilesIInv, NEW p \in Procs, PictureDelete(p)
  PROVE  FilesIInv'
<1> DEFINE h == handler[p]
<1>0. In(p, "picture_delete") /\ FilesHandlerOK(h)
  BY DEF PictureDelete, FilesIInv
<1>1. /\ handler'[p].pc = "picture_store" /\ handler'[p].kind = h.kind /\ handler'[p].brand = h.brand
      /\ (\A q \in Procs \ {p} : handler'[q] = handler[q]) /\ faults' = faults
      /\ UNCHANGED <<brand, document, cafe, pictures>>
      /\ stored' \subseteq stored /\ stored \subseteq stored' \cup {<<h.kind, h.old>>}
  <2>1. {"kind", "brand"} \subseteq DOMAIN h BY <1>0 DEF FilesHandlerOK, In
  <2> QED BY <2>1, FilesWent DEF PictureDelete
<1>2. /\ h.brand \in BrandIds /\ h.kind \in PictureKinds
      /\ \A b \in BrandIds \ {h.brand} : brand[b][h.kind] # h.old
  BY <1>0 DEF FilesHandlerOK, In
<1>3. \A n : <<"document", n>> \in stored => <<"document", n>> \in stored'
  BY <1>1, <1>2 DEF PictureKinds
<1>4. PicturesOK' BY <1>1 DEF FilesIInv, PicturesOK
<1>5. ASSUME NEW q \in Procs PROVE FilesHandlerOK(handler[q])'
  <2>1. CASE q = p BY <1>1, <1>2, <2>1 DEF FilesHandlerOK
  <2>2. CASE q # p
    <3> DEFINE g == handler[q]
    <3>1. handler'[q] = g /\ FilesHandlerOK(g) BY <1>1, <2>2 DEF FilesIInv
    <3>2. ASSUME g.pc = "brand_write", NEW k \in PictureKinds \cap DOMAIN g.new
          PROVE  <<k, g.new[k]>> \in stored'
      <4>1. h.kind = k => h.old # g.new[k]
        BY <1>0, <3>2 DEF FilesIInv, FilesPairOK, In
      <4>2. <<k, g.new[k]>> \in stored BY <3>1, <3>2 DEF FilesHandlerOK
      <4> QED BY <1>1, <4>1, <4>2
    <3> HIDE DEF g
    <3> QED BY <1>1, <1>3, <3>1, <3>2 DEF FilesHandlerOK
  <2> QED BY <2>1, <2>2
<1>6. ASSUME NEW q \in Procs, NEW r \in Procs PROVE FilesPairOK(q, r)'
  BY <1>1 DEF FilesIInv, FilesPairOK, In
<1>7. FilesMatchRows'
  <2> SUFFICES ASSUME faults = 0 PROVE FilesMatchRows' BY <1>1 DEF FilesMatchRows
  <2>1. \A q \in Procs : handler[q].pc \in {"document_delete", "picture_store", "brand_write"} => handler'[q] = handler[q]
    BY <1>0, <1>1 DEF In
  <2>2. ASSUME NEW i \in DOMAIN document, IsDocument(i)
        PROVE  <<"document", i>> \in stored' \/ \E q \in Procs : In(q, "document_delete")' /\ handler'[q].id = i
    BY <1>3, <2>1, <2>2 DEF FilesIInv, FilesMatchRows, In, getDocumentDownloadUrl
  <2>3. ASSUME NEW b \in BrandIds, NEW k \in PictureKinds, brand[b][k] # 0
        PROVE  \/ <<k, brand[b][k]>> \in stored'
               \/ \E q \in Procs : /\ \/ In(q, "picture_store")' /\ handler'[q].kind = k
                                      \/ In(q, "brand_write")' /\ k \in DOMAIN handler'[q].new
                                   /\ handler'[q].brand = b
    <3>1. CASE k = h.kind /\ brand[b][k] = h.old
      <4>1. b = h.brand BY <1>2, <3>1
      <4> QED BY <1>1, <3>1, <4>1 DEF In
    <3>2. CASE ~(k = h.kind /\ brand[b][k] = h.old)
      <4>1. <<k, brand[b][k]>> \in stored => <<k, brand[b][k]>> \in stored'
        BY <1>1, <3>2
      <4>2. \/ <<k, brand[b][k]>> \in stored
            \/ \E q \in Procs : /\ \/ In(q, "picture_store") /\ handler[q].kind = k
                                   \/ In(q, "brand_write") /\ k \in DOMAIN handler[q].new
                                /\ handler[q].brand = b
        BY <2>3 DEF FilesIInv, FilesMatchRows, getPictureUrl, PictureKinds
      <4> QED BY <2>1, <4>1, <4>2 DEF In
    <3> QED BY <3>1, <3>2
  <2> QED BY <1>1, <2>2, <2>3 DEF FilesMatchRows, IsDocument, getDocumentDownloadUrl, getPictureUrl, PictureKinds
<1> QED BY <1>1, <1>4, <1>5, <1>6, <1>7 DEF FilesIInv

\* The new picture has a number no brand and no handler has.
LEMMA FilesPictureStore ==
  ASSUME BrandsIInv, FilesIInv, NEW p \in Procs, PictureStore(p)
  PROVE  FilesIInv'
<1> DEFINE h == handler[p]
<1> DEFINE n == pictures + 1
<1> DEFINE next == [pc |-> "brand_write", brand |-> h.brand, new |-> [f \in {h.kind} |-> n]]
<1>0. In(p, "picture_store") /\ h.kind \in PictureKinds /\ h.brand \in BrandIds
  BY DEF PictureStore, FilesIInv, FilesHandlerOK, In
<1>1. /\ handler'[p] = next
      /\ (\A q \in Procs \ {p} : handler'[q] = handler[q]) /\ faults' = faults
      /\ UNCHANGED <<brand, document, cafe>>
      /\ pictures' = n /\ stored' = stored \cup {<<h.kind, n>>}
  BY FilesMoved DEF PictureStore
<1>2. /\ pictures \in Nat
      /\ \A b \in BrandIds, k \in PictureKinds : brand[b][k] \in 0..pictures
  BY DEF FilesIInv, PicturesOK
<1>3. PicturesOK' BY <1>1, <1>2 DEF FilesIInv, PicturesOK
<1>4. /\ handler'[p].pc = "brand_write" /\ handler'[p].brand = h.brand
      /\ DOMAIN handler'[p].new = {h.kind} /\ handler'[p].new[h.kind] = n
  BY <1>1
<1>5. ASSUME NEW q \in Procs PROVE FilesHandlerOK(handler[q])'
  <2>1. CASE q = p
    <3>1. \A b \in BrandIds : brand[b][h.kind] # n BY <1>0, <1>2
    <3> QED BY <1>0, <1>1, <1>2, <1>4, <2>1, <3>1 DEF FilesHandlerOK
  <2>2. CASE q # p
    <3>1. FilesHandlerOK(handler[q]) /\ handler'[q] = handler[q] BY <1>1, <2>2 DEF FilesIInv
    <3>2. 1..pictures \subseteq 1..pictures' BY <1>1, <1>2
    <3>3. stored \subseteq stored' BY <1>1
    <3> QED BY <1>1, <3>1, <3>2, <3>3 DEF FilesHandlerOK
  <2> QED BY <2>1, <2>2
<1>6. ASSUME NEW q \in Procs, NEW r \in Procs PROVE FilesPairOK(q, r)'
  <2>1. CASE q # p /\ r # p BY <1>1, <2>1 DEF FilesIInv, FilesPairOK, In
  <2>2. CASE q = p /\ r # p
    <3>1. FilesHandlerOK(handler[r]) /\ handler'[r] = handler[r] BY <1>1, <2>2 DEF FilesIInv
    <3>2. ASSUME In(r, "brand_write")', h.kind \in DOMAIN handler'[r].new PROVE handler'[r].new[h.kind] # n
      <4> DEFINE k == h.kind
      <4>1. k \in PictureKinds /\ k \in DOMAIN handler[r].new /\ handler[r].pc = "brand_write" BY <1>0, <3>1, <3>2 DEF In
      <4> HIDE DEF k
      <4>2. handler[r].new[k] \in 1..pictures BY <3>1, <4>1 DEF FilesHandlerOK
      <4>3. handler[r].new[k] # n BY <1>2, <4>2
      <4> QED BY <3>1, <4>3 DEF k
    <3>3. In(r, "picture_delete")' => handler'[r].old # n
      BY <1>2, <3>1 DEF FilesHandlerOK, In
    <3> QED BY <1>4, <2>2, <3>2, <3>3 DEF FilesPairOK, In
  <2>3. CASE q # p /\ r = p
    <3>1. FilesHandlerOK(handler[q]) /\ handler'[q] = handler[q] BY <1>1, <2>3 DEF FilesIInv
    <3>2. ASSUME In(q, "brand_write")', h.kind \in DOMAIN handler'[q].new PROVE handler'[q].new[h.kind] # n
      <4> DEFINE k == h.kind
      <4>1. k \in PictureKinds /\ k \in DOMAIN handler[q].new /\ handler[q].pc = "brand_write" BY <1>0, <3>1, <3>2 DEF In
      <4> HIDE DEF k
      <4>2. handler[q].new[k] \in 1..pictures BY <3>1, <4>1 DEF FilesHandlerOK
      <4>3. handler[q].new[k] # n BY <1>2, <4>2
      <4> QED BY <3>1, <4>3 DEF k
    <3> QED BY <1>4, <2>3, <3>2 DEF FilesPairOK, In
  <2>4. CASE q = p /\ r = p BY <1>4, <2>4 DEF FilesPairOK, In
  <2> QED BY <2>1, <2>2, <2>3, <2>4
<1>7. FilesMatchRows'
  <2>1. \A q \in Procs : handler[q].pc \in {"document_delete", "brand_write"} => handler'[q] = handler[q]
    BY <1>0, <1>1 DEF In
  <2>2. \A q \in Procs : In(q, "picture_store") =>
          \/ In(q, "picture_store")' /\ handler'[q] = handler[q]
          \/ In(q, "brand_write")' /\ handler[q].kind \in DOMAIN handler'[q].new /\ handler'[q].brand = handler[q].brand
    BY <1>1, <1>4 DEF In
  <2> QED BY <1>1, <2>1, <2>2 DEF FilesIInv, FilesMatchRows, In, IsDocument, getDocumentDownloadUrl, getPictureUrl
<1> QED BY <1>1, <1>3, <1>5, <1>6, <1>7 DEF FilesIInv

-----------------------------------------------------------------------------
(* The requests, which only read.                                            *)

LEMMA FilesBrandRequest ==
  ASSUME BrandsIInv, FilesIInv, NEW p \in Procs, NEW w, BrandRequest(p, w) \/ VerdictRequest(p, w)
  PROVE  FilesIInv'
<1> DEFINE Plain(h) == /\ h.pc = "brand_write" /\ h.brand \in BrandIds
                       /\ DOMAIN h.new \cap PictureKinds = {}
<1>1. ASSUME NEW h, Idle(p), Become(p, h), UNCHANGED bvars, Plain(h) PROVE FilesIInv'
  BY <1>1, FilesReadStep DEF FilesHandlerOK
<1>2. ASSUME NEW b \in BrandIds, BrandCreate(w, b) PROVE FilesIInv'
  BY <1>2, FilesBrandCreate
<1>3. ASSUME NEW b \in BrandIds, NEW new, DOMAIN new \cap PictureKinds = {},
             Idle(p), Become(p, [pc |-> "brand_write", brand |-> b, new |-> new]), UNCHANGED bvars
      PROVE  FilesIInv'
  BY <1>1, <1>3
<1>4. ASSUME NEW b \in BrandIds, BrandUpdateRead(p, w, b, 1) PROVE FilesIInv'
  <2>1. DOMAIN [settings |-> [brand[b].settings EXCEPT !.theme = 1]] \cap PictureKinds = {}
    BY DEF PictureKinds
  <2> QED BY <1>3, <1>4, <2>1 DEF BrandUpdateRead
<1>5. ASSUME NEW b \in BrandIds, NEW withSettings \in BOOLEAN, BrandCustomizeRead(p, w, b, withSettings, 1)
      PROVE  FilesIInv'
  <2> DEFINE new == IF withSettings THEN [settings |-> [brand[b].settings EXCEPT !.theme = 1]] ELSE << >>
  <2>1. DOMAIN new \cap PictureKinds = {} BY DEF PictureKinds
  <2> QED BY <1>3, <1>5, <2>1 DEF BrandCustomizeRead
<1>6. ASSUME NEW b \in BrandIds, BrandRemoveRead(p, w, b) PROVE FilesIInv'
  <2>1. DOMAIN [deleted |-> TRUE] \cap PictureKinds = {} BY DEF PictureKinds
  <2> QED BY <1>3, <1>6, <2>1 DEF BrandRemoveRead
<1>7. ASSUME NEW b \in BrandIds, VerifyRead(p, w, b) PROVE FilesIInv'
  <2>1. DOMAIN [status |-> "ACTIVE", isVerified |-> TRUE] \cap PictureKinds = {} BY DEF PictureKinds
  <2> QED BY <1>3, <1>7, <2>1 DEF VerifyRead
<1>8. ASSUME NEW b \in BrandIds, NEW reason \in BOOLEAN, RejectRead(p, w, b, reason) PROVE FilesIInv'
  <2> DEFINE new == IF reason
                    THEN [status |-> "REJECTED", isVerified |-> FALSE,
                          settings |-> [brand[b].settings EXCEPT !.reason = "rejected"]]
                    ELSE [status |-> "REJECTED", isVerified |-> FALSE]
  <2>1. DOMAIN new \cap PictureKinds = {} BY DEF PictureKinds
  <2> QED BY <1>3, <1>8, <2>1 DEF RejectRead
<1>9. ASSUME NEW b \in BrandIds, NEW reason \in BOOLEAN, SuspendRead(p, w, b, reason) PROVE FilesIInv'
  <2> DEFINE new == IF reason
                    THEN [status |-> "SUSPENDED",
                          settings |-> [brand[b].settings EXCEPT !.reason = "suspended"]]
                    ELSE [status |-> "SUSPENDED"]
  <2>1. DOMAIN new \cap PictureKinds = {} BY DEF PictureKinds
  <2> QED BY <1>3, <1>9, <2>1 DEF SuspendRead
<1> QED BY <1>2, <1>4, <1>5, <1>6, <1>7, <1>8, <1>9 DEF BrandRequest, VerdictRequest

LEMMA FilesFileRequest ==
  ASSUME BrandsIInv, FilesIInv, NEW p \in Procs, NEW w,
         DocumentRequest(p, w) \/ PictureRequest(p, w) \/ CafeRequest(p, w)
  PROVE  FilesIInv'
<1>1. ASSUME NEW b \in BrandIds, NEW type \in DocumentTypes, DocumentRead(p, w, b, type) PROVE FilesIInv'
  <2>1. FilesHandlerOK([pc |-> "document_store", brand |-> b, type |-> type]) BY DEF FilesHandlerOK
  <2> QED BY <1>1, <2>1, FilesReadStep DEF DocumentRead
<1>2. ASSUME NEW i \in DOMAIN document, VerifyDocumentRead(p, w, i) PROVE FilesIInv'
  <2>1. FilesHandlerOK([pc |-> "document_verify", id |-> i]) BY DEF FilesHandlerOK
  <2> QED BY <1>2, <2>1, FilesReadStep DEF VerifyDocumentRead
<1>3. ASSUME NEW i \in DOMAIN document, DeleteDocumentRead(p, w, i) PROVE FilesIInv'
  <2>1. FilesHandlerOK([pc |-> "document_unstore", id |-> i]) BY DEF FilesHandlerOK
  <2> QED BY <1>3, <2>1, FilesReadStep DEF DeleteDocumentRead
<1>4. ASSUME NEW b \in BrandIds, NEW k \in PictureKinds, PictureRead(p, w, b, k) PROVE FilesIInv'
  <2> DEFINE h == [pc |-> IF brand[b][k] = 0 THEN "picture_store" ELSE "picture_delete",
                   brand |-> b, kind |-> k, old |-> brand[b][k]]
  <2>1. brand[b][k] # 0 =>
          /\ brand[b][k] \in 1..pictures
          /\ \A c \in BrandIds \ {b} : brand[c][k] # brand[b][k]
    BY DEF FilesIInv, PicturesOK
  <2>2. FilesHandlerOK(h) BY <2>1 DEF FilesHandlerOK
  <2> QED BY <1>4, <2>2, FilesReadStep DEF PictureRead
<1>5. ASSUME NEW b \in BrandIds, CafeCreateRead(p, w, b) PROVE FilesIInv'
  <2>1. FilesHandlerOK([pc |-> "cafe_insert", brand |-> b]) BY DEF FilesHandlerOK
  <2> QED BY <1>5, <2>1, FilesReadStep DEF CafeCreateRead
<1>6. ASSUME NEW i \in DOMAIN cafe, NEW b \in BrandIds, CafeUpdateRead(p, w, i, b) PROVE FilesIInv'
  <2>1. FilesHandlerOK([pc |-> "cafe_move", id |-> i, brand |-> b]) BY DEF FilesHandlerOK
  <2> QED BY <1>6, <2>1, FilesReadStep DEF CafeUpdateRead
<1>7. ASSUME NEW i \in DOMAIN cafe, CafeRemoveRead(p, w, i) PROVE FilesIInv'
  <2>1. FilesHandlerOK([pc |-> "cafe_remove", id |-> i]) BY DEF FilesHandlerOK
  <2> QED BY <1>7, <2>1, FilesReadStep DEF CafeRemoveRead
<1> QED BY <1>1, <1>2, <1>3, <1>4, <1>5, <1>6, <1>7
        DEF DocumentRequest, PictureRequest, CafeRequest, uploadLogo, uploadBanner, PictureKinds

LEMMA FilesContinue ==
  ASSUME BrandsIInv, FilesIInv, NEW p \in Procs, BrandContinue(p)
  PROVE  FilesIInv'
<1>1. CASE CafeInsert(p) \/ CafeUpdateWrite(p) \/ CafeRemoveWrite(p)
  <2>1. /\ Finish(p) /\ UNCHANGED <<brand, document, stored, pictures>>
        /\ handler[p].pc \in {"cafe_insert", "cafe_move", "cafe_remove"}
    BY <1>1 DEF CafeInsert, CafeUpdateWrite, CafeRemoveWrite, In
  <2> QED BY <2>1, FilesEndStep
<1>2. CASE VerifyDocumentWrite(p)
  <2> DEFINE i == handler[p].id
  <2> DEFINE d == [document[i] EXCEPT !.isVerified = TRUE]
  <2>1. document \in Seq(Document) BY DEF BrandsIInv, BrandsTablesOK
  <2>2. /\ Finish(p) /\ UNCHANGED <<brand, stored, pictures>> /\ handler[p].pc = "document_verify"
        /\ document' = document \/ document' = [document EXCEPT ![i] = d]
    BY <1>2 DEF VerifyDocumentWrite, In
  <2>3. i \in DOMAIN document BY <2>2 DEF FilesIInv, FilesHandlerOK
  <2>4. d \in Document /\ d.deleted = document[i].deleted
    <3>1. document[i] \in Document BY <2>1, <2>3
    <3> QED BY <3>1 DEF Document
  <2> HIDE DEF d
  <2>5. /\ DOMAIN document' = DOMAIN document /\ Len(document') = Len(document)
        /\ \A j \in DOMAIN document : document'[j].deleted = document[j].deleted
    BY <2>1, <2>2, <2>3, <2>4
  <2> QED BY <2>2, <2>5, FilesEndStep
<1> QED BY <1>1, <1>2, FilesBrandWrite, FilesDocumentStore, FilesDocumentInsert, FilesDocumentUnstore,
           FilesDocumentDelete, FilesPictureDelete, FilesPictureStore DEF BrandContinue

LEMMA FilesInitially == BrandsInit /\ RequestsInit => FilesIInv
<1> SUFFICES ASSUME BrandsInit, RequestsInit PROVE FilesIInv OBVIOUS
<1>1. PicturesOK
  <2>1. \A b \in BrandIds : brand[b] = NoBrand BY DEF BrandsInit
  <2>2. NoBrand = [f \in DOMAIN NoBrand |-> NoBrand[f]] BY DEF NoBrand
  <2>3. \A k \in PictureKinds : NoBrand[k] = 0
    <3>1. NoBrand["logo"] = 0 /\ NoBrand["banner"] = 0 BY DEF NoBrand
    <3> QED BY <3>1 DEF PictureKinds
  <2> QED BY <2>1, <2>2, <2>3 DEF BrandsInit, PicturesOK
<1>2. \A p \in Procs : handler[p] = NoRequest BY DEF RequestsInit
<1>3. \A p \in Procs : FilesHandlerOK(handler[p])
  <2>1. FilesHandlerOK(NoRequest) BY DEF FilesHandlerOK, NoRequest
  <2> QED BY <1>2, <2>1
<1>4. \A p, q \in Procs : FilesPairOK(p, q) BY <1>2 DEF FilesPairOK, NoRequest, In
<1>5. FilesMatchRows
  <2>1. \A b \in BrandIds : brand[b]["logo"] = 0 /\ brand[b]["banner"] = 0 BY DEF BrandsInit, NoBrand
  <2>2. DOMAIN document = {} BY DEF BrandsInit
  <2> QED BY <2>1, <2>2 DEF FilesMatchRows
<1> QED BY <1>1, <1>3, <1>4, <1>5 DEF FilesIInv, RequestsInit

LEMMA FilesInductive == BrandsIInv /\ FilesIInv /\ [BrandsNext]_<<bvars, rvars>> => FilesIInv'
<1> SUFFICES ASSUME BrandsIInv, FilesIInv, [BrandsNext]_<<bvars, rvars>> PROVE FilesIInv' OBVIOUS
<1>1. CASE BrandsNext
  <2>1. ASSUME NEW p \in Procs, Dies(p), UNCHANGED bvars PROVE FilesIInv' BY <2>1, FilesDiesStep
  <2> QED BY <1>1, <2>1, FilesBrandRequest, FilesFileRequest, FilesContinue DEF BrandsNext
<1>2. CASE UNCHANGED <<bvars, rvars>>
  BY <1>2 DEF FilesIInv, PicturesOK, FilesHandlerOK, FilesPairOK, FilesMatchRows, In, IsDocument,
             getDocumentDownloadUrl, getPictureUrl, bvars, rvars
<1> QED BY <1>1, <1>2

\* uploadDocument, deleteDocument, uploadLogo and uploadBanner cross the storage
\* and the tables without a transaction: unless a handler was cut short, a link
\* leads to its file, or a handler on its way is about to replace the link.
THEOREM FilesFollowRows == BrandsSpec => []FilesMatchRows
<1>1. BrandsInit /\ RequestsInit => BrandsIInv /\ FilesIInv
  BY BrandsInitially, FilesInitially
<1>2. BrandsIInv /\ FilesIInv /\ [BrandsNext]_<<bvars, rvars>> => BrandsIInv' /\ FilesIInv'
  BY BrandsInductive, FilesInductive
<1>3. FilesIInv => FilesMatchRows
  BY DEF FilesIInv
<1> QED BY <1>1, <1>2, <1>3, PTL DEF BrandsSpec

-----------------------------------------------------------------------------
(* Accounts and rows.                                                        *)

\* A row of k was deleted, or a handler that has deleted the account is about to
\* delete one.
Gone(k) ==
  \/ \E j \in DOMAIN rows : rows[j].keycloakId = k /\ rows[j].deleted
  \/ \E p \in Procs : In(p, "soft_delete") /\ rows[handler[p].row].keycloakId = k

\* Somebody with the rights to do it has undone k, or k has its account.
Linked(k) == k \in outside \/ HasAccount(k) \/ Gone(k)

Worker(i, k) == rows[i].kind # "USER" /\ rows[i].keycloakId = k
LiveUser(i, k) == rows[i].kind = "USER" /\ ~rows[i].deleted /\ rows[i].keycloakId = k

ChangesOK(i, new) ==
  /\ "keycloakId" \notin DOMAIN new /\ "deleted" \notin DOMAIN new
  /\ "kind" \in DOMAIN new => rows[i].kind # "USER" /\ new["kind"] \in WorkerRoles
  /\ "email" \in DOMAIN new => new["email"] \in Emails
  /\ "brand" \in DOMAIN new => new["brand"] \in Owners
  /\ "cafe" \in DOMAIN new => new["cafe"] \in CafeIds

\* What a handler in flight may rely on.
AccountsHandlerOK(h) ==
  /\ "pc" \in DOMAIN h
  /\ h.pc \in {"check_rows", "delete_account", "cafe_delete"} => "row" \in DOMAIN h
  /\ h.pc = "find_user" => {"keycloakId", "email"} \subseteq DOMAIN h
  /\ h.pc \in {"check_rows", "create_account", "create_row"} => h.row \in NewRows
  /\ h.pc \in {"create_row", "find_user", "create_user"} => h.keycloakId \in ever
  /\ h.pc \in {"find_user", "create_user", "email"} => h.email \in Emails
  /\ h.pc = "create_row" /\ h.row.kind # "USER" => \A i \in DOMAIN rows : ~Worker(i, h.keycloakId)
  /\ h.pc \in {"email", "update_worker", "delete_account", "soft_delete", "cafe_delete", "deactivate"} =>
       h.row \in DOMAIN rows
  /\ h.pc = "deactivate" => rows[h.row].deleted
  /\ h.pc = "update_worker" => ChangesOK(h.row, h.new)

AccountsTablesOK ==
  /\ handler = [p \in Procs |-> handler[p]]
  /\ faults \in Nat
  /\ account \in [KeycloakIds -> Emails \cup {""}]
  /\ outside \subseteq ever /\ ever \subseteq KeycloakIds
  /\ \A k \in KeycloakIds \ ever : ~HasAccount(k)
  /\ rows \in Seq(Row)
  /\ \A i \in DOMAIN rows : rows[i].keycloakId \in ever

\* An account is never two workers, nor is anyone about to make it that.
WorkersOK ==
  /\ \A i, j \in DOMAIN rows : rows[i].kind # "USER" /\ Worker(j, rows[i].keycloakId) => i = j
  /\ \A p, q \in Procs :
       In(p, "create_row") /\ In(q, "create_row") /\ handler[p].keycloakId = handler[q].keycloakId => p = q

\* While no two requests have met, nobody is about to make an account two users.
AloneOK ==
  ~raced =>
    /\ \A p, q \in Procs : ~Idle(p) /\ ~Idle(q) => p = q
    /\ \A p \in Procs : In(p, "create_user") \/ (In(p, "create_row") /\ handler[p].row.kind = "USER") =>
         \A i \in DOMAIN rows : ~LiveUser(i, handler[p].keycloakId)
    /\ \A i, j \in DOMAIN rows : LiveUser(i, rows[i].keycloakId) /\ LiveUser(j, rows[i].keycloakId) => i = j

\* Unless a handler was cut short: an account has a row or a handler that is about
\* to insert it, and whoever has a row, or is about to get one, is linked.
LinksOK ==
  faults = 0 =>
    /\ \A k \in KeycloakIds \ outside : HasAccount(k) =>
         \/ \E i \in DOMAIN rows : rows[i].keycloakId = k
         \/ \E p \in Procs : In(p, "create_row") /\ handler[p].keycloakId = k
    /\ \A i \in DOMAIN rows : Linked(rows[i].keycloakId)
    /\ \A p \in Procs : handler[p].pc \in {"create_row", "find_user", "create_user"} => Linked(handler[p].keycloakId)

AccountsIInv ==
  /\ AccountsTablesOK
  /\ \A p \in Procs : AccountsHandlerOK(handler[p])
  /\ WorkersOK /\ AloneOK /\ LinksOK

-----------------------------------------------------------------------------
(* What the invariant says of the answers.                                   *)

LEMMA AtMostOne ==
  ASSUME NEW S, \A x, y \in S : x = y
  PROVE  IsFiniteSet(S) /\ Cardinality(S) \in {0, 1} /\ (Cardinality(S) = 0 <=> S = {})
<1>1. CASE S = {} BY <1>1, FS_EmptySet
<1>2. CASE S # {}
  <2>1. PICK x \in S : S = {x} BY <1>2
  <2>2. IsFiniteSet({x}) /\ Cardinality({x}) = 1 BY FS_Singleton
  <2>3. S # {} BY <1>2
  <2> QED BY <2>1, <2>2, <2>3
<1> QED BY <1>1, <1>2

LEMMA AnswersAgree ==
  ASSUME rows \in Seq(Row),
         \A k \in KeycloakIds : \A i, j \in LiveWorkers(k) : i = j,
         ~raced => \A k \in KeycloakIds : \A i, j \in LiveUsers(k) : i = j
  PROVE  \A k \in KeycloakIds :
           /\ Cardinality(LiveWorkers(k)) <= 1
           /\ ~raced => Cardinality(LiveUsers(k)) <= 1
           /\ \A offered \in Offers(k) :
                /\ \A i \in offered : loginSelect(k, i) = {i} /\ getMe(k, i) = {i}
                /\ offered # {} => refreshToken(k) # {}
                /\ Cardinality(offered) = 1 => offered \subseteq getMe(k, 0)
<1>0. \A i \in DOMAIN rows : i # 0
  <2>1. DOMAIN rows = 1..Len(rows) /\ Len(rows) \in Nat OBVIOUS
  <2> QED BY <2>1
<1>3. ASSUME NEW k \in KeycloakIds
      PROVE  /\ IsFiniteSet(LiveWorkers(k)) /\ Cardinality(LiveWorkers(k)) \in {0, 1}
             /\ Cardinality(LiveWorkers(k)) = 0 <=> LiveWorkers(k) = {}
  <2>1. \A i, j \in LiveWorkers(k) : i = j
    OBVIOUS
  <2> QED BY <2>1, AtMostOne
<1>4. ASSUME NEW k \in KeycloakIds, ~raced PROVE Cardinality(LiveUsers(k)) <= 1
  <2>1. \A i, j \in LiveUsers(k) : i = j
    BY <1>4
  <2> QED BY <2>1, AtMostOne
<1>5. ASSUME NEW k \in KeycloakIds, NEW offered \in Offers(k)
      PROVE  /\ \A i \in offered : loginSelect(k, i) = {i} /\ getMe(k, i) = {i}
             /\ offered # {} => refreshToken(k) # {}
             /\ Cardinality(offered) = 1 => offered \subseteq getMe(k, 0)
  <2>1. PICK u \in IF LiveUsers(k) = {} THEN {0} ELSE LiveUsers(k) :
          offered = LiveWorkers(k) \cup (IF u = 0 THEN {} ELSE {u})
    BY <1>5 DEF Offers
  <2>2. LiveUsers(k) \cup LiveWorkers(k) \subseteq LiveRows /\ LiveRows \subseteq DOMAIN rows /\ 0 \notin LiveUsers(k)
    BY <1>0 DEF LiveUsers, LiveWorkers, LiveRows
  <2>3. offered \subseteq LiveUsers(k) \cup LiveWorkers(k)
    BY <2>1
  <2>4. ASSUME NEW i \in offered PROVE loginSelect(k, i) = {i} /\ getMe(k, i) = {i}
    <3>1. i \in LiveRows /\ i \in DOMAIN rows /\ rows[i].keycloakId = k /\ i # 0
      BY <1>0, <2>2, <2>3 DEF LiveUsers, LiveWorkers
    <3>2. loginSelect(k, i) = {i} BY <3>1 DEF loginSelect
    <3> QED BY <3>1, <3>2 DEF getMe
  <2>5. offered # {} => refreshToken(k) # {}
    BY <2>3 DEF refreshToken
  <2>6. ASSUME Cardinality(offered) = 1 PROVE offered \subseteq getMe(k, 0)
    <3>1. CASE LiveUsers(k) = {}
      <4>1. offered = LiveWorkers(k) BY <2>1, <3>1
      <4> QED BY <2>6, <3>1, <4>1 DEF getMe
    <3>2. CASE LiveUsers(k) # {}
      <4>1. u \in LiveUsers(k) /\ u # 0 /\ offered = LiveWorkers(k) \cup {u} BY <2>1, <2>2, <3>2
      <4>2. u \notin LiveWorkers(k) BY <4>1 DEF LiveUsers, LiveWorkers
      <4>3. Cardinality(offered) = Cardinality(LiveWorkers(k)) + 1
        BY <1>3, <4>1, <4>2, FS_AddElement
      <4>4. Cardinality(LiveWorkers(k)) = 0 BY <1>3, <2>6, <4>3
      <4>5. offered = {u} BY <1>3, <4>1, <4>4
      <4> QED BY <3>2, <4>1, <4>4, <4>5 DEF getMe
    <3> QED BY <3>1, <3>2
  <2> QED BY <2>4, <2>5, <2>6
<1>6. \A k \in KeycloakIds : Cardinality(LiveWorkers(k)) <= 1 BY <1>3
<1> QED BY <1>4, <1>5, <1>6

LEMMA AccountsInvImplies == AccountsIInv => AccountsAgree
<1> SUFFICES ASSUME AccountsIInv PROVE AccountsAgree OBVIOUS
<1>0. rows \in Seq(Row) BY DEF AccountsIInv, AccountsTablesOK
<1>1. ASSUME faults = 0, NEW k \in KeycloakIds \ outside, HasAccount(k)
      PROVE  \/ \E i \in DOMAIN rows : rows[i].keycloakId = k
             \/ \E p \in Procs : In(p, "create_row") /\ handler[p].keycloakId = k
  BY <1>1 DEF AccountsIInv, LinksOK
<1>2. ASSUME faults = 0, NEW i \in LiveRows, rows[i].keycloakId \notin outside
      PROVE  \/ HasAccount(rows[i].keycloakId)
             \/ \E j \in DOMAIN rows : rows[j].keycloakId = rows[i].keycloakId /\ rows[j].deleted
             \/ \E p \in Procs : In(p, "soft_delete") /\ rows[handler[p].row].keycloakId = rows[i].keycloakId
  BY <1>2 DEF AccountsIInv, LinksOK, LiveRows, Linked, Gone
<1>3. \A k \in KeycloakIds : \A i, j \in LiveWorkers(k) : i = j
  BY DEF AccountsIInv, WorkersOK, LiveWorkers, LiveRows, IsUser, Worker
<1>4. ~raced => \A k \in KeycloakIds : \A i, j \in LiveUsers(k) : i = j
  BY DEF AccountsIInv, AloneOK, LiveUsers, LiveRows, IsUser, LiveUser
<1> QED BY <1>0, <1>1, <1>2, <1>3, <1>4, AnswersAgree DEF AccountsAgree

-----------------------------------------------------------------------------
(* What every step keeps.                                                    *)

\* Rows keep whose they are, and are never restored.
RowsKept ==
  \A i \in DOMAIN rows :
    /\ i \in DOMAIN rows'
    /\ rows'[i].keycloakId = rows[i].keycloakId
    /\ rows'[i].kind = "USER" <=> rows[i].kind = "USER"
    /\ rows[i].deleted => rows'[i].deleted

\* Whoever is linked stays so.
LEMMA LinkedStays ==
  ASSUME AccountsIInv, RowsKept, outside \subseteq outside',
         \A q \in Procs : In(q, "soft_delete") => handler'[q] = handler[q] \/ rows'[handler[q].row].deleted,
         \A k \in KeycloakIds : HasAccount(k) => HasAccount(k)' \/ Linked(k)',
         NEW k \in KeycloakIds, Linked(k)
  PROVE  Linked(k)'
<1>1. CASE k \in outside BY <1>1 DEF Linked
<1>2. CASE HasAccount(k) BY <1>2 DEF Linked
<1>3. ASSUME NEW j \in DOMAIN rows, rows[j].keycloakId = k, rows[j].deleted PROVE Linked(k)'
  BY <1>3 DEF RowsKept, Linked, Gone
<1>4. ASSUME NEW q \in Procs, In(q, "soft_delete"), rows[handler[q].row].keycloakId = k PROVE Linked(k)'
  <2> DEFINE i == handler[q].row
  <2>1. i \in DOMAIN rows BY <1>4 DEF AccountsIInv, AccountsHandlerOK, In
  <2>2. i \in DOMAIN rows' /\ rows'[i].keycloakId = k BY <1>4, <2>1 DEF RowsKept
  <2>3. CASE handler'[q] = handler[q] BY <1>4, <2>2, <2>3 DEF Linked, Gone, In
  <2>4. CASE rows'[i].deleted BY <2>2, <2>4 DEF Linked, Gone
  <2> QED BY <1>4, <2>3, <2>4
<1> QED BY <1>1, <1>2, <1>3, <1>4 DEF Linked, Gone

\* A handler's slot, when it takes a step.
LEMMA AccountsMoved ==
  ASSUME AccountsIInv, NEW p \in Procs, NEW h, Become(p, h)
  PROVE  /\ handler'[p] = h /\ (\A q \in Procs \ {p} : handler'[q] = handler[q])
         /\ handler' = [q \in Procs |-> handler'[q]] /\ faults' = faults
BY DEF AccountsIInv, AccountsTablesOK, Become

\* What the other handlers rely on stays.
LEMMA OthersRely ==
  ASSUME AccountsIInv, RowsKept, DOMAIN rows' = DOMAIN rows, ever \subseteq ever',
         NEW q \in Procs, handler'[q] = handler[q]
  PROVE  AccountsHandlerOK(handler[q])'
<1>1. AccountsHandlerOK(handler[q]) BY DEF AccountsIInv
<1>2. \A i \in DOMAIN rows : \A k : Worker(i, k)' <=> Worker(i, k)
  BY DEF RowsKept, Worker
<1>3. \A i \in DOMAIN rows : \A new : ChangesOK(i, new) => ChangesOK(i, new)'
  BY DEF RowsKept, ChangesOK
<1>4. \A i \in DOMAIN rows : rows[i].deleted => rows'[i].deleted
  BY DEF RowsKept
<1>5. \A h : AccountsHandlerOK(h) => AccountsHandlerOK(h)'
  BY <1>2, <1>3, <1>4 DEF AccountsHandlerOK
<1> QED BY <1>1, <1>5

\* A step of a handler that inserts no row: if each clause below holds of what the
\* step leaves, the invariant does.
LEMMA HandlerStep ==
  ASSUME AccountsIInv, NEW p \in Procs, NEW h, Become(p, h),
         RowsKept, DOMAIN rows' = DOMAIN rows, ever \subseteq ever', outside \subseteq outside',
         AccountsTablesOK', AccountsHandlerOK(h)',
         \A k \in KeycloakIds : HasAccount(k) => HasAccount(k)' \/ Linked(k)',
         \A k \in KeycloakIds \ outside' : HasAccount(k)' => HasAccount(k) \/ (h.pc = "create_row" /\ h.keycloakId = k),
         handler[p].pc = "soft_delete" => rows'[handler[p].row].deleted,
         handler[p].pc # "create_row",
         h.pc = "create_row" => h.keycloakId \notin ever,
         faults = 0 /\ h.pc \in {"create_row", "find_user", "create_user"} => Linked(h.keycloakId)',
         raced => raced',
         ~raced' => ~Idle(p) \/ h.pc = "idle" \/ \A q \in Procs \ {p} : Idle(q),
         ~raced' /\ (h.pc = "create_user" \/ (h.pc = "create_row" /\ h.row.kind = "USER")) =>
           \A i \in DOMAIN rows : ~LiveUser(i, h.keycloakId)'
  PROVE  AccountsIInv'
<1>1. handler'[p] = h /\ (\A q \in Procs \ {p} : handler'[q] = handler[q]) /\ faults' = faults
  BY AccountsMoved
<1>2. \A q \in Procs : AccountsHandlerOK(handler[q])'
  BY <1>1, OthersRely
<1>3. \A q \in Procs \ {p} : \A label : In(q, label)' <=> In(q, label)
  BY <1>1 DEF In
<1>4. WorkersOK'
  <2>1. ASSUME NEW i \in DOMAIN rows, NEW j \in DOMAIN rows,
               rows'[i].kind # "USER", Worker(j, rows[i].keycloakId)'
        PROVE  i = j
    BY <2>1 DEF AccountsIInv, WorkersOK, RowsKept, Worker
  <2>2. ASSUME NEW q \in Procs \ {p}, In(q, "create_row") PROVE handler[q].keycloakId \in ever
    BY <2>2 DEF AccountsIInv, AccountsHandlerOK, In
  <2>3. ASSUME NEW q \in Procs, NEW r \in Procs, In(q, "create_row")', In(r, "create_row")',
               handler'[q].keycloakId = handler'[r].keycloakId
        PROVE  q = r
    <3>1. CASE q # p /\ r # p BY <1>1, <1>3, <2>3, <3>1 DEF AccountsIInv, WorkersOK
    <3>2. CASE q = p /\ r # p BY <1>1, <1>3, <2>2, <2>3, <3>2 DEF In
    <3>3. CASE q # p /\ r = p BY <1>1, <1>3, <2>2, <2>3, <3>3 DEF In
    <3> QED BY <3>1, <3>2, <3>3
  <2> QED BY <2>1, <2>3 DEF WorkersOK
<1>5. AloneOK'
  <2> SUFFICES ASSUME ~raced' PROVE AloneOK' BY DEF AloneOK
  <2>0. ~raced OBVIOUS
  <2>1. \A i \in DOMAIN rows : \A k : LiveUser(i, k)' => LiveUser(i, k)
    BY DEF RowsKept, LiveUser
  <2>2. \A q, r \in Procs : ~Idle(q)' /\ ~Idle(r)' => q = r
    <3>1. \A q, r \in Procs : ~Idle(q) /\ ~Idle(r) => q = r BY <2>0 DEF AccountsIInv, AloneOK
    <3>2. \A q \in Procs \ {p} : Idle(q)' <=> Idle(q) BY <1>1 DEF Idle
    <3>3. Idle(p)' <=> h.pc = "idle" BY <1>1 DEF Idle
    <3> QED BY <3>1, <3>2, <3>3
  <2>3. ASSUME NEW q \in Procs, In(q, "create_user")' \/ (In(q, "create_row")' /\ handler'[q].row.kind = "USER"),
               NEW i \in DOMAIN rows
        PROVE  ~LiveUser(i, handler[q].keycloakId)'
    <3>1. CASE q = p BY <1>1, <2>3, <3>1 DEF In
    <3>2. CASE q # p
      <4>1. In(q, "create_user") \/ (In(q, "create_row") /\ handler[q].row.kind = "USER")
        BY <1>1, <1>3, <2>3, <3>2
      <4>2. ~LiveUser(i, handler[q].keycloakId)
        BY <2>0, <4>1 DEF AccountsIInv, AloneOK
      <4>3. handler'[q] = handler[q] BY <1>1, <3>2
      <4> QED BY <4>2, <4>3 DEF LiveUser, RowsKept
    <3> QED BY <3>1, <3>2
  <2>4. \A i, j \in DOMAIN rows : LiveUser(i, rows[i].keycloakId)' /\ LiveUser(j, rows[i].keycloakId)' => i = j
    <3>1. \A i, j \in DOMAIN rows : LiveUser(i, rows[i].keycloakId) /\ LiveUser(j, rows[i].keycloakId) => i = j
      BY <2>0 DEF AccountsIInv, AloneOK
    <3> QED BY <3>1 DEF LiveUser, RowsKept
  <2> QED BY <2>2, <2>3, <2>4 DEF AloneOK
<1>6. LinksOK'
  <2> SUFFICES ASSUME faults = 0 PROVE LinksOK' BY <1>1 DEF LinksOK
  <2>0. ASSUME NEW k \in KeycloakIds, Linked(k) PROVE Linked(k)'
    <3>1. \A q \in Procs : In(q, "soft_delete") => handler'[q] = handler[q] \/ rows'[handler[q].row].deleted
      BY <1>1 DEF In
    <3> QED BY <2>0, <3>1, LinkedStays
  <2>1. ASSUME NEW k \in KeycloakIds \ outside', HasAccount(k)'
        PROVE  \/ \E i \in DOMAIN rows : rows'[i].keycloakId = k
               \/ \E q \in Procs : In(q, "create_row")' /\ handler'[q].keycloakId = k
    <3>1. CASE h.pc = "create_row" /\ h.keycloakId = k BY <1>1, <3>1 DEF In
    <3>2. CASE HasAccount(k)
      <4>1. \/ \E i \in DOMAIN rows : rows[i].keycloakId = k
            \/ \E q \in Procs : In(q, "create_row") /\ handler[q].keycloakId = k
        BY <3>2 DEF AccountsIInv, LinksOK
      <4>2. \A q \in Procs : In(q, "create_row") => q # p BY DEF In
      <4> QED BY <1>1, <1>3, <4>1, <4>2 DEF RowsKept
    <3> QED BY <2>1, <3>1, <3>2
  <2>2. ASSUME NEW i \in DOMAIN rows PROVE Linked(rows[i].keycloakId)'
    <3>1. PICK k \in KeycloakIds : k = rows[i].keycloakId /\ Linked(k)
      BY DEF AccountsIInv, AccountsTablesOK, LinksOK
    <3>2. k = rows'[i].keycloakId BY <3>1 DEF RowsKept
    <3>3. Linked(k)' BY <2>0, <3>1
    <3> QED BY <3>2, <3>3
  <2>3. ASSUME NEW q \in Procs, handler'[q].pc \in {"create_row", "find_user", "create_user"}
        PROVE  Linked(handler[q].keycloakId)'
    <3>1. CASE q = p BY <1>1, <2>3, <3>1
    <3>2. CASE q # p
      <4>0. handler'[q] = handler[q] BY <1>1, <3>2
      <4>1. PICK k \in KeycloakIds : k = handler[q].keycloakId /\ Linked(k)
        <5>1. handler[q].keycloakId \in ever /\ Linked(handler[q].keycloakId)
          BY <2>3, <4>0 DEF AccountsIInv, AccountsHandlerOK, LinksOK
        <5> QED BY <5>1 DEF AccountsIInv, AccountsTablesOK
      <4>2. Linked(k)' BY <2>0, <4>1
      <4> QED BY <4>0, <4>1, <4>2
    <3> QED BY <3>1, <3>2
  <2> QED BY <2>1, <2>2, <2>3 DEF LinksOK
<1> QED BY <1>2, <1>4, <1>5, <1>6 DEF AccountsIInv

-----------------------------------------------------------------------------
(* The steps that only read.                                                 *)

LEMMA AccountsReadStep ==
  ASSUME AccountsIInv, NEW p \in Procs, NEW h, Become(p, h), UNCHANGED <<account, rows, ever, outside>>,
         handler[p].pc \notin {"soft_delete", "create_row"}, h.pc # "create_row", AccountsHandlerOK(h),
         faults = 0 /\ h.pc \in {"find_user", "create_user"} => Linked(h.keycloakId),
         raced => raced',
         ~raced' => ~Idle(p) \/ h.pc = "idle" \/ \A q \in Procs \ {p} : Idle(q),
         ~raced' /\ h.pc = "create_user" => \A i \in DOMAIN rows : ~LiveUser(i, h.keycloakId)
  PROVE  AccountsIInv'
<1>1. handler' = [q \in Procs |-> handler'[q]] /\ faults' = faults
      /\ handler'[p] = h /\ \A q \in Procs \ {p} : handler'[q] = handler[q]
  BY AccountsMoved
<1>2. RowsKept BY DEF RowsKept
<1>3. AccountsTablesOK' BY <1>1 DEF AccountsIInv, AccountsTablesOK, HasAccount
<1>4. AccountsHandlerOK(h)'
  <2>1. \A i \in DOMAIN rows : \A k : Worker(i, k)' <=> Worker(i, k) BY DEF Worker
  <2>2. \A i \in DOMAIN rows : \A new : ChangesOK(i, new) => ChangesOK(i, new)' BY DEF ChangesOK
  <2> QED BY <2>1, <2>2 DEF AccountsHandlerOK
<1>5. \A k \in KeycloakIds : HasAccount(k)' <=> HasAccount(k) BY DEF HasAccount
<1>6. ASSUME faults = 0, h.pc \in {"find_user", "create_user"} PROVE Linked(h.keycloakId)'
  <2>1. h.keycloakId \in ever /\ Linked(h.keycloakId) BY <1>6 DEF AccountsHandlerOK
  <2>2. h.keycloakId \in KeycloakIds BY <2>1 DEF AccountsIInv, AccountsTablesOK
  <2>3. \A q \in Procs : In(q, "soft_delete") => handler'[q] = handler[q] BY <1>1 DEF In
  <2> QED BY <1>2, <1>5, <2>1, <2>2, <2>3, LinkedStays
<1>7. DOMAIN rows' = DOMAIN rows /\ ever \subseteq ever' /\ outside \subseteq outside' OBVIOUS
<1>8. /\ \A k \in KeycloakIds : HasAccount(k) => HasAccount(k)' \/ Linked(k)'
      /\ \A k \in KeycloakIds \ outside' : HasAccount(k)' => HasAccount(k) \/ (h.pc = "create_row" /\ h.keycloakId = k)
  BY <1>5
<1>9. /\ handler[p].pc = "soft_delete" => rows'[handler[p].row].deleted
      /\ handler[p].pc # "create_row"
      /\ h.pc = "create_row" => h.keycloakId \notin ever
      /\ faults = 0 /\ h.pc \in {"create_row", "find_user", "create_user"} => Linked(h.keycloakId)'
  BY <1>6
<1>10. ~raced' /\ (h.pc = "create_user" \/ (h.pc = "create_row" /\ h.row.kind = "USER")) =>
         \A i \in DOMAIN rows : ~LiveUser(i, h.keycloakId)'
  BY DEF LiveUser
<1> QED BY <1>2, <1>3, <1>4, <1>7, <1>8, <1>9, <1>10, HandlerStep

\* A request that begins.
LEMMA BeginStep ==
  ASSUME AccountsIInv, NEW p \in Procs, NEW h, Idle(p), BeginRequest(p, h),
         h.pc \notin {"create_row", "create_user"}, AccountsHandlerOK(h),
         h.pc = "find_user" => Linked(h.keycloakId)
  PROVE  AccountsIInv'
<1>1. handler[p].pc \notin {"soft_delete", "create_row"} BY DEF Idle
<1>2. raced => raced' BY DEF BeginRequest
<1>3. ~raced' => \A q \in Procs \ {p} : Idle(q) BY DEF BeginRequest
<1> QED BY <1>1, <1>2, <1>3, AccountsReadStep DEF BeginRequest

\* A request that ends without having written.
LEMMA AccountsEndStep ==
  ASSUME AccountsIInv, NEW p \in Procs, Finish(p), UNCHANGED avars,
         handler[p].pc \notin {"soft_delete", "create_row"}
  PROVE  AccountsIInv'
<1>1. AccountsHandlerOK(NoRequest) BY DEF AccountsHandlerOK, NoRequest
<1>2. NoRequest.pc = "idle" BY DEF NoRequest
<1>3. UNCHANGED <<account, rows, ever, outside>> /\ raced' = raced BY DEF avars
<1> QED BY <1>1, <1>2, <1>3, AccountsReadStep DEF Finish

LEMMA BeginSteps ==
  ASSUME AccountsIInv, NEW p \in Procs,
         \/ \E row \in NewRows : RegisterBegins(p, row)
         \/ \E c \in CafeIds, email \in Emails : inviteWorker(p, c, email)
         \/ \E k \in KeycloakIds : SyncReads(p, k)
         \/ \E by, i \in DOMAIN rows, new \in Changes : UpdateBegins(p, by, i, new)
         \/ \E i \in DOMAIN rows, email \in Emails : UpdateEmailBegins(p, i, email)
         \/ \E by, i \in DOMAIN rows : DeleteBegins(p, by, i)
         \/ \E i \in DOMAIN rows : deleteAdmin(p, i) \/ CafeDeleteBegins(p, i)
  PROVE  AccountsIInv'
<1>1. ASSUME NEW row \in NewRows, RegisterBegins(p, row) PROVE AccountsIInv'
  <2>1. AccountsHandlerOK([pc |-> "check_rows", row |-> row]) BY DEF AccountsHandlerOK
  <2> QED BY <1>1, <2>1, BeginStep DEF RegisterBegins
<1>2. ASSUME NEW c \in CafeIds, NEW email \in Emails, inviteWorker(p, c, email) PROVE AccountsIInv'
  <2> DEFINE row == [kind |-> "WORKER", email |-> email, brand |-> CafeBrand[c], cafe |-> c]
  <2>1. row \in NewRows BY DEF NewRows, WorkerRoles, Owners
  <2> HIDE DEF row
  <2>2. AccountsHandlerOK([pc |-> "create_account", row |-> row]) BY <2>1 DEF AccountsHandlerOK
  <2>3. Idle(p) /\ BeginRequest(p, [pc |-> "create_account", row |-> row]) BY <1>2 DEF inviteWorker, row
  <2> QED BY <2>2, <2>3, BeginStep
<1>3. ASSUME NEW k \in KeycloakIds, SyncReads(p, k) PROVE AccountsIInv'
  <2>1. k \in ever /\ account[k] \in Emails
    BY <1>3 DEF SyncReads, HasAccount, AccountsIInv, AccountsTablesOK
  <2>2. AccountsHandlerOK([pc |-> "find_user", keycloakId |-> k, email |-> account[k]])
    BY <2>1 DEF AccountsHandlerOK
  <2> QED BY <1>3, <2>2, BeginStep DEF SyncReads, Linked
<1>4. ASSUME NEW by \in DOMAIN rows, NEW i \in DOMAIN rows, NEW new \in Changes, UpdateBegins(p, by, i, new)
      PROVE  AccountsIInv'
  <2>1. ChangesOK(i, new) BY <1>4 DEF UpdateBegins, IsUser, Changes, ChangesOK
  <2>2. AccountsHandlerOK([pc |-> "update_worker", row |-> i, new |-> new]) BY <2>1 DEF AccountsHandlerOK
  <2> QED BY <1>4, <2>2, BeginStep DEF UpdateBegins
<1>5. ASSUME NEW i \in DOMAIN rows, NEW email \in Emails, UpdateEmailBegins(p, i, email) PROVE AccountsIInv'
  <2>1. ChangesOK(i, [email |-> email]) BY DEF ChangesOK
  <2>2. AccountsHandlerOK([pc |-> "update_worker", row |-> i, new |-> [email |-> email]])
    BY <2>1 DEF AccountsHandlerOK
  <2> QED BY <1>5, <2>2, BeginStep DEF UpdateEmailBegins
<1>6. ASSUME NEW by \in DOMAIN rows, NEW i \in DOMAIN rows, DeleteBegins(p, by, i) PROVE AccountsIInv'
  <2>1. AccountsHandlerOK([pc |-> "delete_account", row |-> i]) BY DEF AccountsHandlerOK
  <2> QED BY <1>6, <2>1, BeginStep DEF DeleteBegins
<1>7. ASSUME NEW i \in DOMAIN rows, deleteAdmin(p, i) PROVE AccountsIInv'
  <2>1. AccountsHandlerOK([pc |-> "soft_delete", row |-> i]) BY DEF AccountsHandlerOK
  <2> QED BY <1>7, <2>1, BeginStep DEF deleteAdmin
<1>8. ASSUME NEW i \in DOMAIN rows, CafeDeleteBegins(p, i) PROVE AccountsIInv'
  <2>1. AccountsHandlerOK([pc |-> "cafe_delete", row |-> i]) BY DEF AccountsHandlerOK
  <2> QED BY <1>8, <2>1, BeginStep DEF CafeDeleteBegins
<1> QED BY <1>1, <1>2, <1>3, <1>4, <1>5, <1>6, <1>7, <1>8

LEMMA ReadSteps ==
  ASSUME AccountsIInv, NEW p \in Procs, CheckRows(p) \/ FindUser(p)
  PROVE  AccountsIInv'
<1> DEFINE h == handler[p]
<1>0. AccountsHandlerOK(h) BY DEF AccountsIInv
<1>1. CASE CheckRows(p)
  <2>1. h.pc = "check_rows" /\ UNCHANGED avars
        /\ (Finish(p) \/ Become(p, [h EXCEPT !.pc = "create_account"]))
    BY <1>1 DEF CheckRows, In, ReadRows, Finish
  <2>2. CASE Finish(p) BY <2>1, <2>2, AccountsEndStep
  <2>3. CASE Become(p, [h EXCEPT !.pc = "create_account"])
    <3> DEFINE g == [h EXCEPT !.pc = "create_account"]
    <3>1. g.pc = "create_account" /\ "pc" \in DOMAIN g /\ g.row = h.row
      BY <1>0, <2>1 DEF AccountsHandlerOK
    <3> HIDE DEF g
    <3>2. AccountsHandlerOK(g) BY <1>0, <2>1, <3>1 DEF AccountsHandlerOK
    <3>3. ~Idle(p) /\ Become(p, g) BY <2>1, <2>3 DEF Idle, g
    <3> QED BY <2>1, <3>1, <3>2, <3>3, AccountsReadStep DEF avars
  <2> QED BY <2>1, <2>2, <2>3
<1>2. CASE FindUser(p)
  <2>0. h.pc = "find_user" /\ UNCHANGED avars /\ ~Idle(p) BY <1>2 DEF FindUser, In, ReadRows, Idle
  <2>1. \/ LiveUsers(h.keycloakId) = {} /\ Become(p, [h EXCEPT !.pc = "create_user"])
        \/ Finish(p)
        \/ \E i \in LiveUsers(h.keycloakId) : Become(p, [pc |-> "email", row |-> i, email |-> h.email])
    BY <1>2 DEF FindUser, ReadRows, Finish
  <2>2. CASE Finish(p) BY <2>0, <2>2, AccountsEndStep
  <2>3. ASSUME NEW i \in LiveUsers(h.keycloakId), Become(p, [pc |-> "email", row |-> i, email |-> h.email])
        PROVE  AccountsIInv'
    <3>1. i \in DOMAIN rows BY <2>3 DEF LiveUsers, LiveRows
    <3>2. AccountsHandlerOK([pc |-> "email", row |-> i, email |-> h.email])
      BY <1>0, <2>0, <3>1 DEF AccountsHandlerOK
    <3> QED BY <2>0, <2>3, <3>2, AccountsReadStep DEF avars
  <2>4. CASE LiveUsers(h.keycloakId) = {} /\ Become(p, [h EXCEPT !.pc = "create_user"])
    <3> DEFINE g == [h EXCEPT !.pc = "create_user"]
    <3>1. g.pc = "create_user" /\ "pc" \in DOMAIN g /\ g.keycloakId = h.keycloakId /\ g.email = h.email
      BY <1>0, <2>0 DEF AccountsHandlerOK
    <3> HIDE DEF g
    <3>2. AccountsHandlerOK(g) BY <1>0, <2>0, <3>1 DEF AccountsHandlerOK
    <3>3. Become(p, g) BY <2>4 DEF g
    <3>4. \A i \in DOMAIN rows : ~LiveUser(i, g.keycloakId)
      BY <2>4, <3>1 DEF LiveUsers, LiveRows, IsUser, LiveUser
    <3>5. faults = 0 => Linked(g.keycloakId) BY <2>0, <3>1 DEF AccountsIInv, LinksOK
    <3>6. UNCHANGED <<account, rows, ever, outside>> /\ raced' = raced BY <2>0 DEF avars
    <3> QED BY <2>0, <3>1, <3>2, <3>3, <3>4, <3>5, <3>6, AccountsReadStep
  <2> QED BY <2>1, <2>2, <2>3, <2>4
<1> QED BY <1>1, <1>2

-----------------------------------------------------------------------------
(* The steps that write.                                                     *)

\* A row that is written in place keeps whose it is.
LEMMA RowWriteStep ==
  ASSUME AccountsIInv, NEW p \in Procs, NEW h, Become(p, h), UNCHANGED <<account, ever, outside, raced>>,
         NEW i \in DOMAIN rows, NEW row \in Row, rows' = [rows EXCEPT ![i] = row],
         row.keycloakId = rows[i].keycloakId, row.kind = "USER" <=> rows[i].kind = "USER",
         rows[i].deleted => row.deleted,
         h = NoRequest \/ (h.pc = "deactivate" /\ h.row = i /\ "pc" \in DOMAIN h /\ row.deleted),
         ~Idle(p), handler[p].pc # "create_row",
         handler[p].pc = "soft_delete" => handler[p].row = i /\ row.deleted
  PROVE  AccountsIInv'
<1>0. rows \in Seq(Row) BY DEF AccountsIInv, AccountsTablesOK
<1>1. rows' \in Seq(Row) /\ DOMAIN rows' = DOMAIN rows /\ rows'[i] = row
      /\ \A j \in DOMAIN rows \ {i} : rows'[j] = rows[j]
  BY <1>0
<1>2. RowsKept BY <1>1 DEF RowsKept
<1>3. handler' = [q \in Procs |-> handler'[q]] /\ faults' = faults BY AccountsMoved
<1>4. AccountsTablesOK'
  <2>1. \A j \in DOMAIN rows' : rows'[j].keycloakId \in ever'
    BY <1>1, <1>2 DEF RowsKept, AccountsIInv, AccountsTablesOK
  <2> QED BY <1>1, <1>3, <2>1 DEF AccountsIInv, AccountsTablesOK, HasAccount
<1>5. h.pc \in {"idle", "deactivate"} BY DEF NoRequest
<1>6. AccountsHandlerOK(h)'
  <2>1. CASE h = NoRequest
    <3>1. "pc" \in DOMAIN h /\ h.pc = "idle" BY <2>1 DEF NoRequest
    <3> QED BY <3>1 DEF AccountsHandlerOK
  <2>2. CASE h # NoRequest BY <1>1, <2>2 DEF AccountsHandlerOK
  <2> QED BY <2>1, <2>2
<1>7. \A k \in KeycloakIds : HasAccount(k)' <=> HasAccount(k) BY DEF HasAccount
<1>8. ever \subseteq ever' /\ outside \subseteq outside' /\ (raced => raced') OBVIOUS
<1>9. handler[p].pc = "soft_delete" => rows'[handler[p].row].deleted BY <1>1
<1>10. /\ h.pc = "create_row" => h.keycloakId \notin ever
       /\ faults = 0 /\ h.pc \in {"create_row", "find_user", "create_user"} => Linked(h.keycloakId)'
       /\ ~raced' /\ (h.pc = "create_user" \/ (h.pc = "create_row" /\ h.row.kind = "USER")) =>
            \A j \in DOMAIN rows : ~LiveUser(j, h.keycloakId)'
  BY <1>5
<1>11. /\ \A k \in KeycloakIds : HasAccount(k) => HasAccount(k)' \/ Linked(k)'
       /\ \A k \in KeycloakIds \ outside' : HasAccount(k)' => HasAccount(k) \/ (h.pc = "create_row" /\ h.keycloakId = k)
  BY <1>7
<1> QED BY <1>1, <1>2, <1>4, <1>6, <1>8, <1>9, <1>10, <1>11, HandlerStep

LEMMA RowWriteSteps ==
  ASSUME AccountsIInv, NEW p \in Procs, updateEmail(p) \/ UpdateWorker(p) \/ softDelete(p) \/ CafeDelete(p)
  PROVE  AccountsIInv'
<1> DEFINE h == handler[p]
<1> DEFINE i == h.row
<1>0. AccountsHandlerOK(h) BY DEF AccountsIInv
<1>1. /\ i \in DOMAIN rows /\ rows[i] \in Row /\ ~Idle(p)
      /\ h.pc \in {"email", "update_worker", "soft_delete", "cafe_delete"}
      /\ UNCHANGED <<account, ever, outside, raced>>
  <2>1. h.pc \in {"email", "update_worker", "soft_delete", "cafe_delete"}
        /\ UNCHANGED <<account, ever, outside, raced>>
    BY DEF updateEmail, UpdateWorker, softDelete, CafeDelete, In
  <2>2. i \in DOMAIN rows /\ ~Idle(p) BY <1>0, <2>1 DEF AccountsHandlerOK, Idle
  <2>3. rows \in Seq(Row) BY DEF AccountsIInv, AccountsTablesOK
  <2> QED BY <2>1, <2>2, <2>3
<1>2. CASE updateEmail(p)
  <2> DEFINE row == [rows[i] EXCEPT !.email = h.email]
  <2>1. h.pc = "email" /\ Become(p, NoRequest) /\ rows' = [rows EXCEPT ![i] = row]
    BY <1>2 DEF updateEmail, In, Finish
  <2>2. h.email \in Emails BY <1>0, <2>1 DEF AccountsHandlerOK
  <2>3. row \in Row /\ row.keycloakId = rows[i].keycloakId /\ row.kind = rows[i].kind
        /\ row.deleted = rows[i].deleted
    BY <1>1, <2>2 DEF Row
  <2> HIDE DEF row, i
  <2> QED BY <1>1, <2>1, <2>3, RowWriteStep
<1>3. CASE UpdateWorker(p)
  <2> DEFINE row == [f \in DOMAIN rows[i] |-> IF f \in DOMAIN h.new THEN h.new[f] ELSE rows[i][f]]
  <2>1. h.pc = "update_worker" /\ Become(p, NoRequest) /\ rows' = [rows EXCEPT ![i] = row]
    BY <1>3 DEF UpdateWorker, In, Finish
  <2>2. ChangesOK(i, h.new) BY <1>0, <2>1 DEF AccountsHandlerOK
  <2>3. DOMAIN rows[i] = {"kind", "keycloakId", "email", "brand", "cafe", "deleted"}
    BY <1>1 DEF Row
  <2>4. /\ row.keycloakId = rows[i].keycloakId /\ row.deleted = rows[i].deleted
        /\ row.kind = "USER" <=> rows[i].kind = "USER"
    BY <2>2, <2>3 DEF ChangesOK, WorkerRoles
  <2>5. row \in Row
    <3>1. row.kind \in {"USER"} \cup WorkerRoles BY <1>1, <2>2, <2>3 DEF ChangesOK, Row
    <3>2. row.email \in Emails BY <1>1, <2>2, <2>3 DEF ChangesOK, Row
    <3>3. row.brand \in Owners \cup {""} BY <1>1, <2>2, <2>3 DEF ChangesOK, Row
    <3>4. row.cafe \in CafeIds \cup {""} BY <1>1, <2>2, <2>3 DEF ChangesOK, Row
    <3>5. row.keycloakId \in KeycloakIds /\ row.deleted \in BOOLEAN BY <1>1, <2>4 DEF Row
    <3>6. row = [kind |-> row.kind, keycloakId |-> row.keycloakId, email |-> row.email,
                 brand |-> row.brand, cafe |-> row.cafe, deleted |-> row.deleted]
      BY <2>3
    <3> HIDE DEF row
    <3> QED BY <3>1, <3>2, <3>3, <3>4, <3>5, <3>6 DEF Row
  <2> HIDE DEF row, i
  <2> QED BY <1>1, <2>1, <2>4, <2>5, RowWriteStep
<1>4. CASE softDelete(p) \/ CafeDelete(p)
  <2> DEFINE row == [rows[i] EXCEPT !.deleted = TRUE]
  <2>1. row \in Row /\ row.keycloakId = rows[i].keycloakId /\ row.kind = rows[i].kind /\ row.deleted
    BY <1>1 DEF Row
  <2>2. rows' = [rows EXCEPT ![i] = row] BY <1>4 DEF softDelete, CafeDelete
  <2>3. CASE softDelete(p)
    <3>1. Become(p, NoRequest) BY <2>3 DEF softDelete, Finish
    <3> HIDE DEF row
    <3> QED BY <1>1, <2>1, <2>2, <3>1, RowWriteStep
  <2>4. CASE CafeDelete(p)
    <3> DEFINE g == [h EXCEPT !.pc = "deactivate"]
    <3>1. Become(p, g) /\ h.pc = "cafe_delete" BY <2>4 DEF CafeDelete, In
    <3>2. g.pc = "deactivate" /\ g.row = i /\ "pc" \in DOMAIN g
      BY <1>0, <3>1 DEF AccountsHandlerOK
    <3> HIDE DEF row, g
    <3> QED BY <1>1, <2>1, <2>2, <3>1, <3>2, RowWriteStep
  <2> QED BY <1>4, <2>3, <2>4
<1> QED BY <1>2, <1>3, <1>4

\* Keycloak gives an id that nobody has.
LEMMA CreateUserStep ==
  ASSUME AccountsIInv, NEW p \in Procs, createUser(p)
  PROVE  AccountsIInv'
<1>r. PICK row : row = handler[p].row OBVIOUS
<1>0. In(p, "create_account") /\ row \in NewRows
  BY <1>r DEF createUser, AccountsIInv, AccountsHandlerOK, In
<1>1. CASE Finish(p) /\ UNCHANGED avars
  BY <1>0, <1>1, AccountsEndStep DEF In
<1>2. ASSUME NEW k \in KeycloakIds \ ever, account' = [account EXCEPT ![k] = row.email], ever' = ever \cup {k},
             Become(p, [pc |-> "create_row", row |-> row, keycloakId |-> k]), UNCHANGED <<rows, outside, raced>>
      PROVE  AccountsIInv'
  <2>h. PICK h : h = [pc |-> "create_row", row |-> row, keycloakId |-> k] OBVIOUS
  <2>1. row.email \in Emails /\ row.email # "" BY <1>0, AccountsAssumption DEF NewRows
  <2>2. \A i \in DOMAIN rows : rows[i].keycloakId # k
    BY <1>2 DEF AccountsIInv, AccountsTablesOK
  <2>3. account \in [KeycloakIds -> Emails \cup {""}] /\ ~HasAccount(k)
    BY <1>2 DEF AccountsIInv, AccountsTablesOK
  <2>4. HasAccount(k)' /\ \A j \in KeycloakIds \ {k} : HasAccount(j)' <=> HasAccount(j)
    BY <1>2, <2>1, <2>3 DEF HasAccount
  <2>5. RowsKept BY <1>2 DEF RowsKept
  <2>6. AccountsTablesOK'
    <3>1. handler' = [q \in Procs |-> handler'[q]] /\ faults' = faults BY <1>2, AccountsMoved
    <3>2. account' \in [KeycloakIds -> Emails \cup {""}] BY <1>2, <2>1, <2>3
    <3>3. \A j \in KeycloakIds \ ever' : ~HasAccount(j)' BY <1>2, <2>4 DEF AccountsIInv, AccountsTablesOK
    <3> QED BY <1>2, <3>1, <3>2, <3>3 DEF AccountsIInv, AccountsTablesOK
  <2>7. "pc" \in DOMAIN h /\ h.pc = "create_row" /\ h.row = row /\ h.keycloakId = k BY <2>h
  <2>8. AccountsHandlerOK(h)'
    BY <1>0, <1>2, <2>2, <2>7 DEF AccountsHandlerOK, Worker
  <2>9. /\ \A j \in KeycloakIds : HasAccount(j) => HasAccount(j)' \/ Linked(j)'
        /\ \A j \in KeycloakIds \ outside' : HasAccount(j)' => HasAccount(j) \/ (h.pc = "create_row" /\ h.keycloakId = j)
    BY <2>3, <2>4, <2>7
  <2>10. Linked(h.keycloakId)' BY <2>4, <2>7 DEF Linked
  <2>11. \A i \in DOMAIN rows : ~LiveUser(i, h.keycloakId)' BY <1>2, <2>2, <2>7 DEF LiveUser
  <2>12. ~Idle(p) /\ handler[p].pc \notin {"soft_delete", "create_row"} BY <1>0 DEF In, Idle
  <2>13. /\ DOMAIN rows' = DOMAIN rows /\ ever \subseteq ever' /\ outside \subseteq outside' /\ (raced => raced')
         /\ h.keycloakId \notin ever /\ Become(p, h)
    BY <1>2, <2>7, <2>h
  <2> QED BY <2>5, <2>6, <2>8, <2>9, <2>10, <2>11, <2>12, <2>13, HandlerStep
<1> QED BY <1>1, <1>2, <1>r DEF createUser

\* The account goes first and the row after it, or the row first.
LEMMA UnlinkSteps ==
  ASSUME AccountsIInv, NEW p \in Procs, deleteUser(p) \/ Deactivate(p)
  PROVE  AccountsIInv'
<1>i. PICK i : i = handler[p].row OBVIOUS
<1>k. PICK k : k = rows[i].keycloakId OBVIOUS
<1>0. AccountsHandlerOK(handler[p]) /\ handler[p].pc \in {"delete_account", "deactivate"}
      /\ i \in DOMAIN rows /\ k \in KeycloakIds
  <2>1. AccountsHandlerOK(handler[p]) /\ handler[p].pc \in {"delete_account", "deactivate"}
    BY DEF AccountsIInv, deleteUser, Deactivate, In
  <2>2. i \in DOMAIN rows BY <1>i, <2>1 DEF AccountsHandlerOK
  <2> QED BY <1>k, <2>1, <2>2 DEF AccountsIInv, AccountsTablesOK
<1>1. CASE Finish(p) /\ UNCHANGED avars
  BY <1>0, <1>1, AccountsEndStep
<1>2. ASSUME NEW h, Become(p, h), account' = [account EXCEPT ![k] = ""], UNCHANGED <<rows, ever, outside, raced>>,
             \/ h = NoRequest /\ rows[i].deleted
             \/ "pc" \in DOMAIN h /\ h.pc = "soft_delete" /\ h.row = i
      PROVE  AccountsIInv'
  <2>1. account \in [KeycloakIds -> Emails \cup {""}] BY DEF AccountsIInv, AccountsTablesOK
  <2>2. \A j \in KeycloakIds : HasAccount(j)' <=> HasAccount(j) /\ j # k
    BY <1>0, <1>2, <2>1 DEF HasAccount
  <2>3. handler' = [q \in Procs |-> handler'[q]] /\ faults' = faults /\ handler'[p] = h
    BY <1>2, AccountsMoved
  <2>4. "pc" \in DOMAIN h /\ h.pc \in {"idle", "soft_delete"}
    <3>1. "pc" \in DOMAIN NoRequest /\ NoRequest.pc = "idle" BY DEF NoRequest
    <3> QED BY <1>2, <3>1
  <2>5. Gone(k)'
    <3>1. CASE rows[i].deleted BY <1>0, <1>2, <1>k, <3>1 DEF Gone
    <3>2. CASE h.pc = "soft_delete" /\ h.row = i BY <1>0, <1>2, <1>k, <2>3, <3>2 DEF Gone, In
    <3> QED BY <1>2, <3>1, <3>2
  <2>6. RowsKept BY <1>2 DEF RowsKept
  <2>7. AccountsTablesOK'
    <3>1. account' \in [KeycloakIds -> Emails \cup {""}] BY <1>2, <2>1
    <3>2. \A j \in KeycloakIds \ ever' : ~HasAccount(j)' BY <1>2, <2>2 DEF AccountsIInv, AccountsTablesOK
    <3> QED BY <1>2, <2>3, <3>1, <3>2 DEF AccountsIInv, AccountsTablesOK
  <2>8. AccountsHandlerOK(h)'
    <3>0. NoRequest.pc = "idle" BY DEF NoRequest
    <3>1. h.pc = "soft_delete" => h.row \in DOMAIN rows' BY <1>0, <1>2, <3>0
    <3> QED BY <2>4, <3>1 DEF AccountsHandlerOK
  <2>9. /\ \A j \in KeycloakIds : HasAccount(j) => HasAccount(j)' \/ Linked(j)'
        /\ \A j \in KeycloakIds \ outside' : HasAccount(j)' => HasAccount(j) \/ (h.pc = "create_row" /\ h.keycloakId = j)
    <3>1. Linked(k)' BY <2>5 DEF Linked
    <3>2. ASSUME NEW j \in KeycloakIds, HasAccount(j) PROVE HasAccount(j)' \/ Linked(j)'
      <4>1. CASE j = k BY <3>1, <4>1
      <4>2. CASE j # k BY <2>2, <3>2, <4>2
      <4> QED BY <4>1, <4>2
    <3> QED BY <2>2, <3>2
  <2>10. /\ DOMAIN rows' = DOMAIN rows /\ ever \subseteq ever' /\ outside \subseteq outside' /\ (raced => raced')
         /\ ~Idle(p) /\ handler[p].pc \notin {"soft_delete", "create_row"}
    BY <1>0, <1>2 DEF Idle
  <2>11. h.pc \notin {"create_row", "find_user", "create_user"} BY <2>4
  <2> QED BY <1>2, <2>6, <2>7, <2>8, <2>9, <2>10, <2>11, HandlerStep
<1>3. ASSUME deleteUser(p), HasAccount(k), account' = [account EXCEPT ![k] = ""],
             Become(p, [handler[p] EXCEPT !.pc = "soft_delete"]), UNCHANGED <<rows, ever, outside, raced>>
      PROVE  AccountsIInv'
  <2>h. PICK h : h = [handler[p] EXCEPT !.pc = "soft_delete"] OBVIOUS
  <2>1. handler[p].pc = "delete_account" BY <1>3 DEF deleteUser, In
  <2>2. "pc" \in DOMAIN h /\ h.pc = "soft_delete" /\ h.row = i
    BY <1>0, <1>i, <2>1, <2>h DEF AccountsHandlerOK
  <2>3. Become(p, h) BY <1>3, <2>h
  <2> QED BY <1>2, <1>3, <2>2, <2>3
<1>4. ASSUME Deactivate(p), account' = [account EXCEPT ![k] = ""] PROVE AccountsIInv'
  <2>1. rows[i].deleted BY <1>0, <1>4, <1>i DEF Deactivate, In, AccountsHandlerOK
  <2> QED BY <1>2, <1>4, <2>1 DEF Deactivate, Finish
<1>5. ASSUME Deactivate(p), account' = account PROVE AccountsIInv'
  BY <1>1, <1>5 DEF Deactivate, avars
<1> QED BY <1>1, <1>3, <1>4, <1>5, <1>i, <1>k DEF deleteUser, Deactivate

\* A row that is inserted belongs to whoever the handler created or found.
LEMMA InsertStep ==
  ASSUME AccountsIInv, NEW p \in Procs, NEW row \in Row, InsertRow(p, row), NEW k, k = row.keycloakId,
         handler[p].pc \in {"create_row", "create_user"}, handler[p].keycloakId = k, ~row.deleted,
         row.kind # "USER" => handler[p].pc = "create_row" /\ handler[p].row.kind # "USER",
         row.kind = "USER" /\ handler[p].pc = "create_row" => handler[p].row.kind = "USER"
  PROVE  AccountsIInv'
<1> DEFINE n == Len(rows) + 1
<1>0. rows \in Seq(Row) /\ AccountsHandlerOK(handler[p]) BY DEF AccountsIInv, AccountsTablesOK
<1>1. /\ handler'[p] = NoRequest /\ (\A q \in Procs \ {p} : handler'[q] = handler[q]) /\ faults' = faults
      /\ handler' = [q \in Procs |-> handler'[q]]
      /\ UNCHANGED <<account, ever, outside, raced>>
  BY AccountsMoved DEF InsertRow, Finish
<1>2. /\ rows' \in Seq(Row) /\ DOMAIN rows' = DOMAIN rows \cup {n} /\ rows'[n] = row /\ n \notin DOMAIN rows
      /\ \A i \in DOMAIN rows : rows'[i] = rows[i]
  BY <1>0 DEF InsertRow
<1>3. RowsKept BY <1>2 DEF RowsKept
<1>4. k \in ever /\ k \in KeycloakIds BY <1>0 DEF AccountsHandlerOK, AccountsIInv, AccountsTablesOK
<1>5. AccountsTablesOK'
  <2>1. \A i \in DOMAIN rows' : rows'[i].keycloakId \in ever'
    BY <1>1, <1>2, <1>4 DEF AccountsIInv, AccountsTablesOK
  <2> QED BY <1>1, <1>2, <2>1 DEF AccountsIInv, AccountsTablesOK, HasAccount
<1>6. \A label : In(p, label)' => label = "idle"
  <2>1. NoRequest.pc = "idle" BY DEF NoRequest
  <2> QED BY <1>1, <2>1 DEF In
<1> HIDE DEF n
<1>7. ASSUME NEW q \in Procs PROVE AccountsHandlerOK(handler[q])'
  <2>1. CASE q = p
    <3>1. "pc" \in DOMAIN NoRequest /\ NoRequest.pc = "idle" BY DEF NoRequest
    <3> QED BY <1>1, <2>1, <3>1 DEF AccountsHandlerOK
  <2>2. CASE q # p
    <3>1. PICK h : h = handler[q] /\ h = handler'[q] BY <1>1, <2>2
    <3>2. AccountsHandlerOK(h) BY <3>1 DEF AccountsIInv
    <3>3. h.pc = "create_row" /\ h.row.kind # "USER" => \A i \in DOMAIN rows' : ~Worker(i, h.keycloakId)'
      <4> SUFFICES ASSUME h.pc = "create_row", h.row.kind # "USER"
                   PROVE  \A i \in DOMAIN rows' : ~Worker(i, h.keycloakId)'
        OBVIOUS
      <4>1. \A i \in DOMAIN rows : ~Worker(i, h.keycloakId) BY <3>2 DEF AccountsHandlerOK
      <4>2. row.kind # "USER" => h.keycloakId # k
        BY <2>2, <3>1 DEF AccountsIInv, WorkersOK, In
      <4> QED BY <1>2, <4>1, <4>2 DEF Worker
    <3>4. \A i \in DOMAIN rows : i \in DOMAIN rows' /\ rows'[i] = rows[i] BY <1>2
    <3>5. \A i \in DOMAIN rows : \A new : ChangesOK(i, new) => ChangesOK(i, new)' BY <3>4 DEF ChangesOK
    <3>6. AccountsHandlerOK(h)' BY <1>1, <3>2, <3>3, <3>4, <3>5 DEF AccountsHandlerOK
    <3> QED BY <3>1, <3>6
  <2> QED BY <2>1, <2>2
<1>8. WorkersOK'
  <2>1. row.kind # "USER" => \A i \in DOMAIN rows : ~Worker(i, k)
    BY <1>0 DEF AccountsHandlerOK
  <2>2. ASSUME NEW i \in DOMAIN rows', NEW j \in DOMAIN rows', rows'[i].kind # "USER", Worker(j, rows[i].keycloakId)'
        PROVE  i = j
    <3>1. CASE i \in DOMAIN rows /\ j \in DOMAIN rows
      BY <1>2, <2>2, <3>1 DEF AccountsIInv, WorkersOK, Worker
    <3>2. CASE i = n /\ j \in DOMAIN rows BY <1>2, <2>1, <2>2, <3>2 DEF Worker
    <3>3. CASE i \in DOMAIN rows /\ j = n BY <1>2, <2>1, <2>2, <3>3 DEF Worker
    <3> QED BY <1>2, <3>1, <3>2, <3>3
  <2>3. \A q, r \in Procs :
          In(q, "create_row")' /\ In(r, "create_row")' /\ handler'[q].keycloakId = handler'[r].keycloakId => q = r
    BY <1>1, <1>6 DEF AccountsIInv, WorkersOK, In
  <2> QED BY <2>2, <2>3 DEF WorkersOK
<1>9. AloneOK'
  <2> SUFFICES ASSUME ~raced PROVE AloneOK' BY <1>1 DEF AloneOK
  <2>1. \A q \in Procs : Idle(q)'
    <3>1. ~Idle(p) BY DEF Idle
    <3>2. \A q \in Procs \ {p} : Idle(q) BY <3>1 DEF AccountsIInv, AloneOK
    <3>3. NoRequest.pc = "idle" BY DEF NoRequest
    <3> QED BY <1>1, <3>2, <3>3 DEF Idle
  <2>2. row.kind = "USER" => \A i \in DOMAIN rows : ~LiveUser(i, k)
    BY DEF AccountsIInv, AloneOK, In
  <2>3. ASSUME NEW i \in DOMAIN rows', NEW j \in DOMAIN rows',
               LiveUser(i, rows[i].keycloakId)', LiveUser(j, rows[i].keycloakId)'
        PROVE  i = j
    <3>1. CASE i \in DOMAIN rows /\ j \in DOMAIN rows
      BY <1>2, <2>3, <3>1 DEF AccountsIInv, AloneOK, LiveUser
    <3>2. CASE i = n /\ j \in DOMAIN rows BY <1>2, <2>2, <2>3, <3>2 DEF LiveUser
    <3>3. CASE i \in DOMAIN rows /\ j = n BY <1>2, <2>2, <2>3, <3>3 DEF LiveUser
    <3> QED BY <1>2, <3>1, <3>2, <3>3
  <2> QED BY <2>1, <2>3 DEF AloneOK, Idle, In
<1>10. LinksOK'
  <2> SUFFICES ASSUME faults = 0 PROVE LinksOK' BY <1>1 DEF LinksOK
  <2>0. ASSUME NEW j \in KeycloakIds, Linked(j) PROVE Linked(j)'
    <3>1. \A q \in Procs : In(q, "soft_delete") => handler'[q] = handler[q] BY <1>1 DEF In
    <3>2. \A m \in KeycloakIds : HasAccount(m) => HasAccount(m)' BY <1>1 DEF HasAccount
    <3> QED BY <1>1, <1>3, <2>0, <3>1, <3>2, LinkedStays
  <2>1. ASSUME NEW j \in KeycloakIds \ outside', HasAccount(j)'
        PROVE  \/ \E i \in DOMAIN rows' : rows'[i].keycloakId = j
               \/ \E q \in Procs : In(q, "create_row")' /\ handler'[q].keycloakId = j
    <3>1. \/ \E i \in DOMAIN rows : rows[i].keycloakId = j
          \/ \E q \in Procs : In(q, "create_row") /\ handler[q].keycloakId = j
      BY <1>1, <2>1 DEF AccountsIInv, LinksOK, HasAccount
    <3>2. ASSUME NEW q \in Procs, In(q, "create_row"), handler[q].keycloakId = j
          PROVE  \/ rows'[n].keycloakId = j /\ n \in DOMAIN rows'
                 \/ In(q, "create_row")' /\ handler'[q].keycloakId = j
      BY <1>1, <1>2, <3>2 DEF In
    <3> QED BY <1>2, <3>1, <3>2
  <2>2. ASSUME NEW i \in DOMAIN rows' PROVE Linked(rows[i].keycloakId)'
    <3>1. CASE i = n
      <4>1. Linked(k) BY DEF AccountsIInv, LinksOK
      <4>2. Linked(k)' BY <1>4, <2>0, <4>1
      <4> QED BY <1>2, <3>1, <4>2
    <3>2. CASE i \in DOMAIN rows
      <4>1. PICK j \in KeycloakIds : j = rows[i].keycloakId /\ Linked(j)
        BY <3>2 DEF AccountsIInv, AccountsTablesOK, LinksOK
      <4>2. Linked(j)' BY <2>0, <4>1
      <4> QED BY <1>2, <3>2, <4>1, <4>2
    <3> QED BY <1>2, <3>1, <3>2
  <2>3. ASSUME NEW q \in Procs, handler'[q].pc \in {"create_row", "find_user", "create_user"}
        PROVE  Linked(handler[q].keycloakId)'
    <3>1. q # p BY <1>6, <2>3 DEF In
    <3>2. handler'[q] = handler[q] BY <1>1, <3>1
    <3>3. PICK j \in KeycloakIds : j = handler[q].keycloakId /\ Linked(j)
      <4>1. handler[q].keycloakId \in ever /\ Linked(handler[q].keycloakId)
        BY <2>3, <3>2 DEF AccountsIInv, AccountsHandlerOK, LinksOK
      <4> QED BY <4>1 DEF AccountsIInv, AccountsTablesOK
    <3>4. Linked(j)' BY <2>0, <3>3
    <3> QED BY <3>2, <3>3, <3>4
  <2> QED BY <2>1, <2>2, <2>3 DEF LinksOK
<1> QED BY <1>5, <1>7, <1>8, <1>9, <1>10 DEF AccountsIInv

LEMMA InsertSteps ==
  ASSUME AccountsIInv, NEW p \in Procs, CreateRow(p) \/ CreateUserRow(p)
  PROVE  AccountsIInv'
<1>h. PICK h : h = handler[p] OBVIOUS
<1>0. AccountsHandlerOK(h) BY <1>h DEF AccountsIInv
<1>1. CASE CreateRow(p)
  <2>r. PICK row : row = [kind |-> h.row.kind, keycloakId |-> h.keycloakId, email |-> h.row.email,
                          brand |-> h.row.brand, cafe |-> h.row.cafe, deleted |-> FALSE]
    OBVIOUS
  <2>1. h.pc = "create_row" /\ InsertRow(p, row) BY <1>1, <1>h, <2>r DEF CreateRow, In
  <2>2. h.row \in NewRows /\ h.keycloakId \in KeycloakIds
    BY <1>0, <2>1 DEF AccountsHandlerOK, AccountsIInv, AccountsTablesOK
  <2>3. row \in Row BY <2>2, <2>r DEF NewRows, Row
  <2>4. row.keycloakId = h.keycloakId /\ ~row.deleted /\ row.kind = h.row.kind BY <2>r
  <2> QED BY <1>h, <2>1, <2>3, <2>4, InsertStep
<1>2. CASE CreateUserRow(p)
  <2>r. PICK row : row = [kind |-> "USER", keycloakId |-> h.keycloakId, email |-> h.email,
                          brand |-> "", cafe |-> "", deleted |-> FALSE]
    OBVIOUS
  <2>1. h.pc = "create_user" /\ InsertRow(p, row) BY <1>2, <1>h, <2>r DEF CreateUserRow, In
  <2>2. h.email \in Emails /\ h.keycloakId \in KeycloakIds
    BY <1>0, <2>1 DEF AccountsHandlerOK, AccountsIInv, AccountsTablesOK
  <2>3. row \in Row BY <2>2, <2>r DEF Row
  <2>4. row.keycloakId = h.keycloakId /\ ~row.deleted /\ row.kind = "USER" BY <2>r
  <2> QED BY <1>h, <2>1, <2>3, <2>4, InsertStep
<1> QED BY <1>1, <1>2

\* What Keycloak does by itself is remembered as done outside.
LEMMA KeycloakSteps ==
  ASSUME AccountsIInv, NEW k \in KeycloakIds, KeycloakStep(k)
  PROVE  AccountsIInv'
<1>0. account \in [KeycloakIds -> Emails \cup {""}] BY DEF AccountsIInv, AccountsTablesOK
<1>1. /\ UNCHANGED <<rows, raced, handler, faults>>
      /\ ever \subseteq ever' /\ outside \subseteq outside' /\ outside' \subseteq ever' /\ ever' \subseteq KeycloakIds
      /\ account' \in [KeycloakIds -> Emails \cup {""}]
      /\ \A j \in KeycloakIds : HasAccount(j) => HasAccount(j)' \/ j \in outside'
      /\ \A j \in KeycloakIds \ outside' : HasAccount(j)' => HasAccount(j)
      /\ \A j \in KeycloakIds \ ever' : ~HasAccount(j)'
  <2>1. outside \subseteq ever /\ ever \subseteq KeycloakIds /\ \A j \in KeycloakIds \ ever : ~HasAccount(j)
    BY DEF AccountsIInv, AccountsTablesOK
  <2>2. ASSUME NEW email \in Emails \cup {""}, account' = [account EXCEPT ![k] = email]
        PROVE  /\ account' \in [KeycloakIds -> Emails \cup {""}]
               /\ HasAccount(k)' <=> email # ""
               /\ \A j \in KeycloakIds \ {k} : HasAccount(j)' <=> HasAccount(j)
    BY <1>0, <2>2 DEF HasAccount
  <2>3. CASE \E email \in Emails : KeycloakRegisters(k, email)
    BY <2>1, <2>2, <2>3 DEF KeycloakRegisters, rvars
  <2>4. CASE \E email \in Emails : KeycloakRenames(k, email)
    <3>1. \A email \in Emails : email # "" BY AccountsAssumption
    <3> QED BY <2>1, <2>2, <2>4, <3>1 DEF KeycloakRenames, rvars
  <2>5. CASE KeycloakDeletes(k)
    BY <2>1, <2>2, <2>5 DEF KeycloakDeletes, rvars
  <2> QED BY <2>3, <2>4, <2>5 DEF KeycloakStep
<1>2. AccountsTablesOK' BY <1>1 DEF AccountsIInv, AccountsTablesOK
<1>3. ASSUME NEW q \in Procs PROVE AccountsHandlerOK(handler[q])'
  <2>1. RowsKept BY <1>1 DEF RowsKept
  <2> QED BY <1>1, <2>1, OthersRely
<1>4. WorkersOK' BY <1>1 DEF AccountsIInv, WorkersOK, Worker, In
<1>5. AloneOK' BY <1>1 DEF AccountsIInv, AloneOK, LiveUser, In, Idle
<1>6. LinksOK'
  <2>1. ASSUME NEW j \in KeycloakIds, Linked(j) PROVE Linked(j)'
    BY <1>1, <2>1 DEF Linked, Gone, In
  <2> SUFFICES ASSUME faults = 0 PROVE LinksOK' BY <1>1 DEF LinksOK
  <2>2. ASSUME NEW i \in DOMAIN rows PROVE Linked(rows[i].keycloakId)'
    <3>1. PICK j \in KeycloakIds : j = rows[i].keycloakId /\ Linked(j)
      BY DEF AccountsIInv, AccountsTablesOK, LinksOK
    <3>2. Linked(j)' BY <2>1, <3>1
    <3> QED BY <1>1, <3>1, <3>2
  <2>3. ASSUME NEW q \in Procs, handler[q].pc \in {"create_row", "find_user", "create_user"}
        PROVE  Linked(handler[q].keycloakId)'
    <3>1. PICK j \in KeycloakIds : j = handler[q].keycloakId /\ Linked(j)
      <4>1. handler[q].keycloakId \in ever /\ Linked(handler[q].keycloakId)
        BY <2>3 DEF AccountsIInv, AccountsHandlerOK, LinksOK
      <4> QED BY <4>1 DEF AccountsIInv, AccountsTablesOK
    <3>2. Linked(j)' BY <2>1, <3>1
    <3> QED BY <1>1, <3>1, <3>2
  <2>4. ASSUME NEW j \in KeycloakIds \ outside', HasAccount(j)'
        PROVE  \/ \E i \in DOMAIN rows : rows[i].keycloakId = j
               \/ \E q \in Procs : In(q, "create_row") /\ handler[q].keycloakId = j
    BY <1>1, <2>4 DEF AccountsIInv, LinksOK
  <2> QED BY <1>1, <2>2, <2>3, <2>4 DEF LinksOK, In
<1> QED BY <1>2, <1>3, <1>4, <1>5, <1>6 DEF AccountsIInv

\* A handler that is cut short: nothing is promised of the links any more.
LEMMA AccountsDiesStep ==
  ASSUME AccountsIInv, NEW p \in Procs, Dies(p), UNCHANGED avars
  PROVE  AccountsIInv'
<1>1. /\ handler'[p] = NoRequest /\ (\A q \in Procs \ {p} : handler'[q] = handler[q])
      /\ handler' = [q \in Procs |-> handler'[q]]
      /\ UNCHANGED <<account, rows, ever, outside, raced>>
  BY DEF Dies, AccountsIInv, AccountsTablesOK, avars
<1>2. faults' \in Nat /\ faults' # 0
  <2>1. faults \in Nat BY DEF AccountsIInv, AccountsTablesOK
  <2>2. faults' = faults + 1 BY DEF Dies
  <2> QED BY <2>1, <2>2
<1>3. "pc" \in DOMAIN NoRequest /\ NoRequest.pc = "idle" BY DEF NoRequest
<1>4. AccountsTablesOK' BY <1>1, <1>2 DEF AccountsIInv, AccountsTablesOK, HasAccount
<1>5. ASSUME NEW q \in Procs PROVE AccountsHandlerOK(handler[q])'
  <2>1. CASE q = p BY <1>1, <1>3, <2>1 DEF AccountsHandlerOK
  <2>2. CASE q # p
    <3>1. RowsKept BY <1>1 DEF RowsKept
    <3> QED BY <1>1, <2>2, <3>1, OthersRely
  <2> QED BY <2>1, <2>2
<1>6. WorkersOK' BY <1>1, <1>3 DEF AccountsIInv, WorkersOK, Worker, In
<1>7. AloneOK' BY <1>1, <1>3 DEF AccountsIInv, AloneOK, LiveUser, In, Idle
<1>8. LinksOK' BY <1>2 DEF LinksOK
<1> QED BY <1>4, <1>5, <1>6, <1>7, <1>8 DEF AccountsIInv

LEMMA AccountsInitially == AccountsInit /\ RequestsInit => AccountsIInv
<1> SUFFICES ASSUME AccountsInit, RequestsInit PROVE AccountsIInv OBVIOUS
<1> DEFINE seed == [kind |-> "SYSTEM_ADMIN", keycloakId |-> Root, email |-> RootEmail,
                    brand |-> "", cafe |-> "", deleted |-> FALSE]
<1>0. RootEmail \in Emails /\ RootEmail # "" BY AccountsAssumption DEF RootEmail
<1>1. seed \in Row BY <1>0, AccountsAssumption DEF Row, WorkerRoles
<1>2. rows = <<seed>> BY DEF AccountsInit
<1>r. seed.keycloakId = Root /\ seed.kind # "USER" OBVIOUS
<1> HIDE DEF seed
<1>3. rows \in Seq(Row) /\ DOMAIN rows = {1} /\ rows[1] = seed BY <1>1, <1>2
<1>4. \A p \in Procs : handler[p] = NoRequest BY DEF RequestsInit
<1>5. "pc" \in DOMAIN NoRequest /\ NoRequest.pc = "idle" BY DEF NoRequest
<1>6. \A k \in KeycloakIds : HasAccount(k) <=> k = Root
  BY <1>0, AccountsAssumption DEF AccountsInit, HasAccount
<1>7. AccountsTablesOK
  <2>1. account \in [KeycloakIds -> Emails \cup {""}] BY <1>0 DEF AccountsInit
  <2>2. outside = {} /\ ever = {Root} BY DEF AccountsInit
  <2>3. handler = [p \in Procs |-> handler[p]] /\ faults = 0 BY DEF RequestsInit
  <2> QED BY <1>3, <1>6, <1>r, <2>1, <2>2, <2>3, AccountsAssumption DEF AccountsTablesOK
<1>8. \A p \in Procs : AccountsHandlerOK(handler[p]) BY <1>4, <1>5 DEF AccountsHandlerOK
<1>9. WorkersOK BY <1>3, <1>4, <1>5 DEF WorkersOK, In
<1>10. AloneOK BY <1>3, <1>4, <1>5 DEF AloneOK, In, Idle
<1>11. LinksOK
  <2>1. Linked(Root) BY <1>6, AccountsAssumption DEF Linked
  <2> QED BY <1>3, <1>4, <1>5, <1>6, <1>r, <2>1 DEF LinksOK
<1> QED BY <1>7, <1>8, <1>9, <1>10, <1>11 DEF AccountsIInv

LEMMA AccountsInductive == AccountsIInv /\ [AccountsNext]_<<avars, rvars>> => AccountsIInv'
<1> SUFFICES ASSUME AccountsIInv, [AccountsNext]_<<avars, rvars>> PROVE AccountsIInv' OBVIOUS
<1>1. ASSUME NEW p \in Procs, RegisterRequest(p) \/ LoginRequest(p) \/ AdminRequest(p) \/ DeleteRequest(p)
      PROVE  AccountsIInv'
  BY <1>1, BeginSteps, ReadSteps, RowWriteSteps, CreateUserStep, UnlinkSteps, InsertSteps
     DEF RegisterRequest, LoginRequest, AdminRequest, DeleteRequest
<1>2. CASE UNCHANGED <<avars, rvars>>
  <2>1. UNCHANGED <<account, rows, ever, outside, raced, handler, faults>> BY <1>2 DEF avars, rvars
  <2>2. \A q \in Procs : AccountsHandlerOK(handler[q])'
    <3>1. RowsKept BY <2>1 DEF RowsKept
    <3> QED BY <2>1, <3>1, OthersRely
  <2>3. AccountsTablesOK' BY <2>1 DEF AccountsIInv, AccountsTablesOK, HasAccount
  <2>4. WorkersOK' /\ AloneOK'
    BY <2>1 DEF AccountsIInv, WorkersOK, AloneOK, Worker, LiveUser, In, Idle
  <2>5. LinksOK'
    <3>1. \A k : Linked(k)' <=> Linked(k) BY <2>1 DEF Linked, Gone, HasAccount, In
    <3>2. LinksOK BY DEF AccountsIInv
    <3> QED BY <2>1, <3>1, <3>2 DEF LinksOK, HasAccount, In
  <2> QED BY <2>2, <2>3, <2>4, <2>5 DEF AccountsIInv
<1> QED BY <1>1, <1>2, KeycloakSteps, AccountsDiesStep DEF AccountsNext

\* register, inviteWorker, login, updateWorker and the deletions cross Keycloak
\* and the tables with no transaction: what the two then say of each other, and
\* what a sign-in is answered with, whatever requests meet and whatever Keycloak
\* does by itself.
THEOREM AccountsAndRowsAgree == AccountsSpec => []AccountsAgree
BY AccountsInitially, AccountsInductive, AccountsInvImplies, PTL DEF AccountsSpec

-----------------------------------------------------------------------------
(* The types of brands, and the bound on pictures.                           *)

BrandSettings == [reason : {"", "rejected", "suspended"}, theme : 0..1]

\* What may be written over a brand.
PartOfBrand(new) ==
  /\ "status" \in DOMAIN new => new["status"] \in Status
  /\ "isVerified" \in DOMAIN new => new["isVerified"] \in BOOLEAN
  /\ "deleted" \in DOMAIN new => new["deleted"] \in BOOLEAN
  /\ "settings" \in DOMAIN new => new["settings"] \in BrandSettings
  /\ "logo" \in DOMAIN new => new["logo"] \in Nat
  /\ "banner" \in DOMAIN new => new["banner"] \in Nat

Uploads(h) == h.pc \in {"picture_delete", "picture_store"}
Uploading == {q \in Procs : Uploads(handler[q])}

BrandsHandlerTyped(h) ==
  /\ h.pc = "brand_write" => h.brand \in BrandIds /\ PartOfBrand(h.new)
  /\ Uploads(h) => h.brand \in BrandIds /\ h.kind \in {"logo", "banner"}

\* The pictures that are on their way have their room.
BrandsTypesOK ==
  /\ handler = [p \in Procs |-> handler[p]]
  /\ brand \in [BrandIds -> Brand]
  /\ pictures \in Nat /\ pictures + Cardinality(Uploading) <= MaxPictures
  /\ \A p \in Procs : BrandsHandlerTyped(handler[p])

LEMMA PartOfBrandWritten ==
  ASSUME NEW row \in Brand, NEW new, PartOfBrand(new)
  PROVE  [f \in DOMAIN row |-> IF f \in DOMAIN new THEN new[f] ELSE row[f]] \in Brand
<1> DEFINE w == [f \in DOMAIN row |-> IF f \in DOMAIN new THEN new[f] ELSE row[f]]
<1>1. DOMAIN row = {"status", "isVerified", "deleted", "settings", "logo", "banner"}
  BY DEF Brand
<1>2. w = [f \in DOMAIN row |-> w[f]] /\ \A f \in DOMAIN row : w[f] = IF f \in DOMAIN new THEN new[f] ELSE row[f]
  OBVIOUS
<1> HIDE DEF w
<1>3. w["status"] \in Status /\ w["isVerified"] \in BOOLEAN /\ w["deleted"] \in BOOLEAN
  BY <1>1, <1>2 DEF PartOfBrand, Brand
<1>4. w["settings"] \in BrandSettings /\ w["logo"] \in Nat /\ w["banner"] \in Nat
  BY <1>1, <1>2 DEF PartOfBrand, Brand, BrandSettings
<1>5. w \in Brand
  BY <1>1, <1>2, <1>3, <1>4 DEF Brand, BrandSettings
<1> QED BY <1>5 DEF w

LEMMA UploadingIsFinite == \A S \in SUBSET Procs : IsFiniteSet(S) /\ Cardinality(S) \in Nat
BY BrandsAssumption, FS_Subset, FS_CardinalityType

\* One handler takes a step; the pictures stored and those on their way keep to
\* the bound when none sets out, or there was room for one.
LEMMA BrandsTypesKept ==
  ASSUME BrandsTypesOK, NEW p \in Procs, NEW h, handler' = [handler EXCEPT ![p] = h], BrandsHandlerTyped(h),
         brand' \in [BrandIds -> Brand],
         \/ pictures' = pictures /\ (Uploads(h) => Uploads(handler[p]))
         \/ pictures' = pictures /\ pictures + Cardinality(Uploading) < MaxPictures
         \/ pictures' = pictures + 1 /\ Uploads(handler[p]) /\ ~Uploads(h)
  PROVE  BrandsTypesOK'
<1>1. handler' = [q \in Procs |-> handler'[q]] /\ handler'[p] = h /\ \A q \in Procs \ {p} : handler'[q] = handler[q]
  BY DEF BrandsTypesOK
<1>2. \A q \in Procs : BrandsHandlerTyped(handler'[q])
  BY <1>1 DEF BrandsTypesOK
<1>3. \A q \in Procs : BrandsHandlerTyped(handler[q])'
  BY <1>2 DEF BrandsHandlerTyped, PartOfBrand, Uploads
<1>4. \A q \in Procs : Uploads(handler[q])' <=> Uploads(handler'[q])
  BY DEF Uploads
<1>5. Uploading' = {q \in Procs : Uploads(handler'[q])}
  BY <1>4 DEF Uploading
<1>6. Uploading \subseteq Procs /\ Uploading' \subseteq Procs
  BY <1>5 DEF Uploading
<1>7. /\ IsFiniteSet(Uploading) /\ Cardinality(Uploading) \in Nat
      /\ IsFiniteSet(Uploading') /\ Cardinality(Uploading') \in Nat
  BY <1>6, UploadingIsFinite
<1>8. pictures \in Nat /\ MaxPictures \in Nat /\ pictures + Cardinality(Uploading) <= MaxPictures
  BY BrandsAssumption DEF BrandsTypesOK
<1>9. pictures' \in Nat /\ pictures' + Cardinality(Uploading') <= MaxPictures
  <2>1. CASE pictures' = pictures /\ (Uploads(h) => Uploads(handler[p]))
    <3>1. Uploading' \subseteq Uploading
      BY <1>1, <1>5, <2>1 DEF Uploading
    <3>2. Cardinality(Uploading') <= Cardinality(Uploading)
      BY <1>7, <3>1, FS_Subset
    <3> QED BY <1>7, <1>8, <2>1, <3>2
  <2>2. CASE pictures' = pictures /\ pictures + Cardinality(Uploading) < MaxPictures
    <3>1. Uploading' \subseteq Uploading \cup {p}
      BY <1>1, <1>5 DEF Uploading
    <3>2. IsFiniteSet(Uploading \cup {p}) /\ Cardinality(Uploading \cup {p}) <= Cardinality(Uploading) + 1
      <4>1. /\ IsFiniteSet(Uploading \cup {p})
            /\ Cardinality(Uploading \cup {p}) = IF p \in Uploading THEN Cardinality(Uploading) ELSE Cardinality(Uploading) + 1
        BY <1>7, FS_AddElement
      <4> QED BY <1>7, <4>1
    <3>3. Cardinality(Uploading') <= Cardinality(Uploading \cup {p}) /\ Cardinality(Uploading \cup {p}) \in Nat
      BY <3>1, <3>2, FS_Subset, FS_CardinalityType
    <3> QED BY <1>7, <1>8, <2>2, <3>2, <3>3
  <2>3. CASE pictures' = pictures + 1 /\ Uploads(handler[p]) /\ ~Uploads(h)
    <3>1. Uploading' = Uploading \ {p} /\ p \in Uploading
      BY <1>1, <1>5, <2>3 DEF Uploading
    <3>2. Cardinality(Uploading \ {p}) = Cardinality(Uploading) - 1
      BY <1>7, <3>1, FS_RemoveElement
    <3> QED BY <1>7, <1>8, <2>3, <3>1, <3>2
  <2> QED BY <2>1, <2>2, <2>3
<1> QED BY <1>1, <1>3, <1>9 DEF BrandsTypesOK

LEMMA BrandsTypesRead ==
  ASSUME BrandsTypesOK, NEW p \in Procs, NEW h, Become(p, h), BrandsHandlerTyped(h), ~Uploads(h), UNCHANGED bvars
  PROVE  BrandsTypesOK'
BY BrandsTypesKept DEF BrandsTypesOK, Become, bvars

LEMMA BrandIdle == BrandsHandlerTyped(NoRequest) /\ ~Uploads(NoRequest)
BY DEF BrandsHandlerTyped, Uploads, NoRequest

\* A handler that goes on to write a brand.
LEMMA BrandsTypesVerdict ==
  ASSUME BrandsTypesOK, NEW p \in Procs, NEW b \in BrandIds, NEW new, PartOfBrand(new), UNCHANGED bvars,
         Become(p, [pc |-> "brand_write", brand |-> b, new |-> new])
  PROVE  BrandsTypesOK'
<1> DEFINE h == [pc |-> "brand_write", brand |-> b, new |-> new]
<1>1. BrandsHandlerTyped(h) /\ ~Uploads(h)
  BY DEF BrandsHandlerTyped, Uploads
<1> QED BY <1>1, BrandsTypesRead

\* One that goes on with something else.
LEMMA BrandsTypesOther ==
  ASSUME BrandsTypesOK, NEW p \in Procs, NEW h, Become(p, h), UNCHANGED bvars,
         h.pc \notin {"brand_write", "picture_delete", "picture_store"}
  PROVE  BrandsTypesOK'
BY BrandsTypesRead DEF BrandsHandlerTyped, Uploads

LEMMA BrandRequestTypes ==
  ASSUME BrandsTypesOK, NEW p \in Procs, NEW w \in Admins, BrandRequest(p, w) \/ VerdictRequest(p, w)
  PROVE  BrandsTypesOK'
<1>1. \A b \in BrandIds : brand[b] \in Brand /\ brand[b].settings \in BrandSettings
  BY DEF BrandsTypesOK, Brand, BrandSettings
<1>2. \A b \in BrandIds : /\ [brand[b].settings EXCEPT !.theme = 1] \in BrandSettings
                          /\ [brand[b].settings EXCEPT !.reason = "rejected"] \in BrandSettings
                          /\ [brand[b].settings EXCEPT !.reason = "suspended"] \in BrandSettings
  <2>1. \A s \in BrandSettings : [s EXCEPT !.theme = 1] \in BrandSettings
    <3> SUFFICES ASSUME NEW s \in BrandSettings PROVE [s EXCEPT !.theme = 1] \in BrandSettings
      OBVIOUS
    <3>1. 1 \in 0..1
      OBVIOUS
    <3>2. PICK themes : themes = 0..1
      OBVIOUS
    <3>3. s \in [reason : {"", "rejected", "suspended"}, theme : themes] /\ 1 \in themes
      BY <3>1, <3>2, Zenon DEF BrandSettings
    <3>4. [s EXCEPT !.theme = 1] \in [reason : {"", "rejected", "suspended"}, theme : themes]
      BY <3>3
    <3> QED BY <3>2, <3>4, Zenon DEF BrandSettings
  <2>2. \A s \in BrandSettings : [s EXCEPT !.reason = "rejected"] \in BrandSettings
    BY DEF BrandSettings
  <2>3. \A s \in BrandSettings : [s EXCEPT !.reason = "suspended"] \in BrandSettings
    BY DEF BrandSettings
  <2> QED BY <1>1, <2>1, <2>2, <2>3
<1>3. ASSUME NEW b \in BrandIds, BrandCreate(w, b) PROVE BrandsTypesOK'
  <2>1. brand' = [brand EXCEPT ![b].status = "PENDING"] /\ UNCHANGED <<pictures, handler>>
    BY <1>3 DEF BrandCreate, rvars
  <2>2. [brand[b] EXCEPT !.status = "PENDING"] \in Brand
    BY <1>1 DEF Brand, Status
  <2>3. brand' \in [BrandIds -> Brand]
    BY <2>1, <2>2 DEF BrandsTypesOK
  <2>4. handler' = [handler EXCEPT ![p] = handler[p]] /\ BrandsHandlerTyped(handler[p])
    BY <2>1 DEF BrandsTypesOK
  <2> QED BY <2>1, <2>3, <2>4, BrandsTypesKept
<1>4. ASSUME NEW b \in BrandIds, BrandUpdateRead(p, w, b, 1) PROVE BrandsTypesOK'
  <2>1. PartOfBrand([settings |-> [brand[b].settings EXCEPT !.theme = 1]])
    BY <1>2 DEF PartOfBrand
  <2> QED BY <1>4, <2>1, BrandsTypesVerdict DEF BrandUpdateRead
<1>5. ASSUME NEW b \in BrandIds, NEW withSettings \in BOOLEAN, BrandCustomizeRead(p, w, b, withSettings, 1) PROVE BrandsTypesOK'
  <2> DEFINE new == IF withSettings THEN [settings |-> [brand[b].settings EXCEPT !.theme = 1]] ELSE << >>
  <2>1. PartOfBrand(new)
    <3>1. CASE withSettings
      <4>1. PartOfBrand([settings |-> [brand[b].settings EXCEPT !.theme = 1]])
        BY <1>2 DEF PartOfBrand
      <4> QED BY <3>1, <4>1
    <3>2. CASE ~withSettings
      BY <3>2 DEF PartOfBrand
    <3> QED BY <3>1, <3>2
  <2> QED BY <1>5, <2>1, BrandsTypesVerdict DEF BrandCustomizeRead
<1>6. ASSUME NEW b \in BrandIds, BrandRemoveRead(p, w, b) PROVE BrandsTypesOK'
  <2>1. PartOfBrand([deleted |-> TRUE])
    BY DEF PartOfBrand
  <2> QED BY <1>6, <2>1, BrandsTypesVerdict DEF BrandRemoveRead
<1>7. ASSUME NEW b \in BrandIds, VerifyRead(p, w, b) PROVE BrandsTypesOK'
  <2>1. PartOfBrand([status |-> "ACTIVE", isVerified |-> TRUE])
    BY DEF PartOfBrand, Status
  <2> QED BY <1>7, <2>1, BrandsTypesVerdict DEF VerifyRead
<1>8. ASSUME NEW b \in BrandIds, NEW reason \in BOOLEAN, RejectRead(p, w, b, reason) PROVE BrandsTypesOK'
  <2> DEFINE new == IF reason
                    THEN [status |-> "REJECTED", isVerified |-> FALSE,
                          settings |-> [brand[b].settings EXCEPT !.reason = "rejected"]]
                    ELSE [status |-> "REJECTED", isVerified |-> FALSE]
  <2>1. PartOfBrand(new)
    BY <1>2 DEF PartOfBrand, Status
  <2> QED BY <1>8, <2>1, BrandsTypesVerdict DEF RejectRead
<1>9. ASSUME NEW b \in BrandIds, NEW reason \in BOOLEAN, SuspendRead(p, w, b, reason) PROVE BrandsTypesOK'
  <2> DEFINE new == IF reason
                    THEN [status |-> "SUSPENDED", settings |-> [brand[b].settings EXCEPT !.reason = "suspended"]]
                    ELSE [status |-> "SUSPENDED"]
  <2>1. PartOfBrand(new)
    BY <1>2 DEF PartOfBrand, Status
  <2> QED BY <1>9, <2>1, BrandsTypesVerdict DEF SuspendRead
<1> QED BY <1>3, <1>4, <1>5, <1>6, <1>7, <1>8, <1>9 DEF BrandRequest, VerdictRequest

LEMMA PictureRequestTypes ==
  ASSUME BrandsTypesOK, NEW p \in Procs, NEW w \in Admins, PictureRequest(p, w)
  PROVE  BrandsTypesOK'
<1>1. PICK b \in BrandIds, kind \in {"logo", "banner"} : PictureRead(p, w, b, kind)
  BY DEF PictureRequest, uploadLogo, uploadBanner
<1> DEFINE h == [pc |-> IF brand[b][kind] = 0 THEN "picture_store" ELSE "picture_delete",
                 brand |-> b, kind |-> kind, old |-> brand[b][kind]]
<1>2. Become(p, h) /\ UNCHANGED bvars /\ pictures + Cardinality(Uploading) < MaxPictures
  BY <1>1 DEF PictureRead, Uploading, Uploads
<1>3. BrandsHandlerTyped(h)
  BY DEF BrandsHandlerTyped, Uploads
<1>4. handler' = [handler EXCEPT ![p] = h] /\ brand' \in [BrandIds -> Brand] /\ pictures' = pictures
  BY <1>2 DEF Become, bvars, BrandsTypesOK
<1> HIDE DEF h
<1> QED BY <1>2, <1>3, <1>4, BrandsTypesKept

LEMMA OtherRequestTypes ==
  ASSUME BrandsTypesOK, NEW p \in Procs, NEW w \in Admins, DocumentRequest(p, w) \/ CafeRequest(p, w)
  PROVE  BrandsTypesOK'
BY BrandsTypesOther DEF DocumentRequest, DocumentRead, VerifyDocumentRead, DeleteDocumentRead,
   CafeRequest, CafeCreateRead, CafeUpdateRead, CafeRemoveRead

LEMMA BrandContinueTypes ==
  ASSUME BrandsTypesOK, NEW p \in Procs, BrandContinue(p)
  PROVE  BrandsTypesOK'
<1> DEFINE h == handler[p]
<1>1. BrandsHandlerTyped(h) /\ brand \in [BrandIds -> Brand]
  BY DEF BrandsTypesOK
<1>2. ASSUME Finish(p), brand' \in [BrandIds -> Brand], UNCHANGED pictures PROVE BrandsTypesOK'
  BY <1>2, BrandIdle, BrandsTypesKept DEF Finish, Become
<1>3. CASE BrandWrite(p)
  <2>1. h.brand \in BrandIds /\ PartOfBrand(h.new)
    BY <1>1, <1>3 DEF BrandWrite, In, BrandsHandlerTyped
  <2> DEFINE row == brand[h.brand]
             written == [f \in DOMAIN row |-> IF f \in DOMAIN h.new THEN h.new[f] ELSE row[f]]
  <2>2. written \in Brand
    BY <1>1, <2>1, PartOfBrandWritten
  <2>3. brand' = [brand EXCEPT ![h.brand] = written]
    BY <1>3 DEF BrandWrite
  <2>4. brand' \in [BrandIds -> Brand]
    <3> HIDE DEF written
    <3> QED BY <1>1, <2>1, <2>2, <2>3
  <2> QED BY <1>2, <1>3, <2>4 DEF BrandWrite
<1>4. CASE DocumentStore(p) \/ DeleteDocumentFile(p)
  <2>1. PICK label \in {"document_insert", "document_delete"} :
          handler' = [handler EXCEPT ![p] = [h EXCEPT !.pc = label]] /\ UNCHANGED <<brand, pictures>>
    BY <1>4 DEF DocumentStore, DeleteDocumentFile, Goto
  <2> DEFINE k == [h EXCEPT !.pc = label]
  <2>2. k.pc = label \/ k.pc = h.pc
    OBVIOUS
  <2>3. h.pc \in {"document_store", "document_unstore"}
    BY <1>4 DEF DocumentStore, DeleteDocumentFile, In
  <2>4. BrandsHandlerTyped(k) /\ ~Uploads(k)
    <3> HIDE DEF k
    <3> QED BY <2>2, <2>3 DEF BrandsHandlerTyped, Uploads
  <2> HIDE DEF k
  <2>5. handler' = [handler EXCEPT ![p] = k]
    BY <2>1 DEF k
  <2> QED BY <1>1, <2>1, <2>4, <2>5, BrandsTypesKept
<1>5. CASE DocumentInsert(p) \/ VerifyDocumentWrite(p) \/ DeleteDocumentRow(p)
  BY <1>1, <1>2, <1>5 DEF DocumentInsert, VerifyDocumentWrite, DeleteDocumentRow
<1>6. CASE PictureDelete(p)
  <2> DEFINE k == [h EXCEPT !.pc = "picture_store"]
  <2>1. Uploads(h) /\ h.brand \in BrandIds /\ h.kind \in {"logo", "banner"}
    BY <1>1, <1>6 DEF PictureDelete, In, Uploads, BrandsHandlerTyped
  <2>2. k.pc \in {"picture_store", "picture_delete"} /\ k.brand = h.brand /\ k.kind = h.kind
    BY <1>6 DEF PictureDelete, In
  <2>3. BrandsHandlerTyped(k)
    <3> HIDE DEF k
    <3> QED BY <2>1, <2>2 DEF BrandsHandlerTyped, Uploads
  <2>4. handler' = [handler EXCEPT ![p] = k] /\ UNCHANGED <<brand, pictures>>
    BY <1>6 DEF PictureDelete, Goto
  <2> HIDE DEF k
  <2> QED BY <1>1, <2>1, <2>3, <2>4, BrandsTypesKept
<1>7. CASE PictureStore(p)
  <2> DEFINE new == [f \in {h.kind} |-> pictures + 1]
             k == [pc |-> "brand_write", brand |-> h.brand, new |-> new]
  <2>1. Uploads(h) /\ h.brand \in BrandIds /\ h.kind \in {"logo", "banner"}
    BY <1>1, <1>7 DEF PictureStore, In, Uploads, BrandsHandlerTyped
  <2>2. pictures + 1 \in Nat
    BY DEF BrandsTypesOK
  <2>3. PartOfBrand(new)
    BY <2>1, <2>2 DEF PartOfBrand
  <2>4. BrandsHandlerTyped(k) /\ ~Uploads(k)
    <3> HIDE DEF new
    <3> QED BY <2>1, <2>3 DEF BrandsHandlerTyped, Uploads
  <2>5. handler' = [handler EXCEPT ![p] = k] /\ UNCHANGED brand /\ pictures' = pictures + 1
    BY <1>7 DEF PictureStore, Become
  <2> HIDE DEF k
  <2> QED BY <1>1, <2>1, <2>4, <2>5, BrandsTypesKept
<1>8. CASE CafeInsert(p) \/ CafeUpdateWrite(p) \/ CafeRemoveWrite(p)
  BY <1>1, <1>2, <1>8 DEF CafeInsert, CafeUpdateWrite, CafeRemoveWrite
<1> QED BY <1>3, <1>4, <1>5, <1>6, <1>7, <1>8 DEF BrandContinue

LEMMA NoBrandIsABrand == NoBrand \in Brand
BY DEF NoBrand, Brand, Status

LEMMA BrandsTypesInitially == BrandsInit /\ RequestsInit => BrandsTypesOK
<1> SUFFICES ASSUME BrandsInit, RequestsInit PROVE BrandsTypesOK
  OBVIOUS
<1>1. Uploading = {}
  BY DEF RequestsInit, NoRequest, Uploading, Uploads
<1>2. Cardinality(Uploading) = 0
  BY <1>1, FS_EmptySet
<1>3. \A p \in Procs : BrandsHandlerTyped(handler[p])
  BY BrandIdle DEF RequestsInit
<1>4. pictures = 0 /\ MaxPictures \in Nat
  BY BrandsAssumption DEF BrandsInit
<1> QED BY <1>2, <1>3, <1>4, NoBrandIsABrand DEF BrandsInit, RequestsInit, BrandsTypesOK

LEMMA BrandsTypesInductive == BrandsTypesOK /\ [BrandsNext]_<<bvars, rvars>> => BrandsTypesOK'
<1> SUFFICES ASSUME BrandsTypesOK, [BrandsNext]_<<bvars, rvars>> PROVE BrandsTypesOK'
  OBVIOUS
<1>1. CASE UNCHANGED <<bvars, rvars>>
  BY <1>1 DEF bvars, rvars, BrandsTypesOK, Uploading, Uploads, BrandsHandlerTyped, PartOfBrand
<1>2. ASSUME NEW p \in Procs, Dies(p), UNCHANGED bvars PROVE BrandsTypesOK'
  BY <1>2, BrandIdle, BrandsTypesKept DEF Dies, bvars, BrandsTypesOK
<1> QED BY <1>1, <1>2, BrandRequestTypes, PictureRequestTypes, OtherRequestTypes, BrandContinueTypes DEF BrandsNext

LEMMA BrandsTypesInvImplies == BrandsIInv /\ BrandsTypesOK => BrandsTypeOK
<1> SUFFICES ASSUME BrandsIInv, BrandsTypesOK PROVE BrandsTypeOK
  OBVIOUS
<1>1. document \in Seq(Document) /\ cafe \in Seq(Cafe)
  BY DEF BrandsIInv, BrandsTablesOK
<1>2. \A i \in DOMAIN document : document[i] \in Document
  BY <1>1
<1>3. \A i \in DOMAIN cafe : cafe[i].brand \in BrandIds
  <2>1. \A i \in DOMAIN cafe : cafe[i] \in Cafe
    BY <1>1
  <2> QED BY <2>1 DEF Cafe
<1>4. pictures \in 0..MaxPictures
  <2>1. Cardinality(Uploading) \in Nat
    BY UploadingIsFinite DEF Uploading
  <2>2. MaxPictures \in Nat
    BY BrandsAssumption
  <2> QED BY <2>1, <2>2 DEF BrandsTypesOK
<1> QED BY <1>2, <1>3, <1>4 DEF BrandsTypeOK, BrandsTypesOK

\* Brands keep to their statuses and settings, documents and cafes to their
\* brands, and no more pictures are uploaded than there is room for.
THEOREM BrandsAreTyped == BrandsSpec => []BrandsTypeOK
BY BrandsTypesInvImplies, BrandsInitially, BrandsTypesInitially, BrandsInductive, BrandsTypesInductive, PTL
   DEF BrandsSpec

-----------------------------------------------------------------------------
(* The types of guests and tiers.                                            *)

\* What may be written over a guest.
PartOfGuest(new) ==
  /\ "status" \in DOMAIN new => new["status"] \in GuestStatus
  /\ "phone" \in DOMAIN new => new["phone"] \in Phones \cup {Nothing}
  /\ "phoneVerified" \in DOMAIN new => new["phoneVerified"] \in BOOLEAN
  /\ "code" \in DOMAIN new => new["code"] \in 0..MaxCodes
  /\ "expired" \notin DOMAIN new
  /\ "accessCardNumber" \in DOMAIN new => new["accessCardNumber"] \in Cards \cup {Nothing}
  /\ "loyaltyTierId" \in DOMAIN new => new["loyaltyTierId"] \in Tiers \cup {Nothing}
  /\ "userId" \in DOMAIN new => new["userId"] \in Clients \cup {Nothing}

GuestsHandlerTyped(h) ==
  /\ h.pc \in {"guest_insert", "guest_update", "activate", "activation", "tier_change"} => h.guest \in GuestIds
  /\ h.pc = "guest_insert" => h.row \in Guest
  /\ h.pc = "link" => h.user \in Clients
  /\ h.pc \in {"guest_update", "activation"} => PartOfGuest(h.new)
  /\ h.pc = "activation" => h.new["loyaltyTierId"] \in Tiers /\ h.seen.loyaltyTierId \in Tiers \cup {Nothing}
  /\ h.pc \in {"tier_update", "tier_deactivate", "tier_change"} => h.tier \in Tiers
  /\ h.pc = "tier_update" => h.percent \in {1, 2} /\ h.locks \in BOOLEAN /\ h.status \in {Nothing, TRUE, FALSE}
  /\ h.pc = "tier_deactivate" => h.target \in Tiers
  /\ h.pc = "tier_change" => h.from \in Tiers \cup {Nothing}

GuestsTypesOK ==
  /\ handler = [p \in Procs |-> handler[p]]
  /\ guest \in [GuestIds -> Guest]
  /\ GuestsTypeOK
  /\ \A p \in Procs : GuestsHandlerTyped(handler[p])

Moves == [guest : GuestIds, from : Tiers \cup {Nothing}, to : Tiers, reason : {"SCUD", "STAFF"}]

LEMMA NoGuestIsAGuest == NoGuest \in Guest
BY GuestsAssumption DEF NoGuest, Guest, GuestStatus

LEMMA WithIsAGuest ==
  ASSUME NEW row \in Guest, NEW new, PartOfGuest(new)
  PROVE  With(row, new) \in Guest
<1> DEFINE w == With(row, new)
<1>1. w = [f \in DOMAIN row |-> w[f]]
  BY DEF With
<1>2. DOMAIN row = {"status", "phone", "phoneVerified", "code", "expired", "accessCardNumber", "loyaltyTierId", "userId"}
  BY DEF Guest
<1>3. \A f \in DOMAIN row : w[f] = IF f \in DOMAIN new THEN new[f] ELSE row[f]
  BY DEF With
<1>4. /\ w["status"] \in GuestStatus /\ w["phone"] \in Phones \cup {Nothing}
      /\ w["phoneVerified"] \in BOOLEAN /\ w["expired"] \in BOOLEAN
  BY <1>2, <1>3 DEF PartOfGuest, Guest
<1>5. /\ w["code"] \in 0..MaxCodes /\ w["accessCardNumber"] \in Cards \cup {Nothing}
      /\ w["loyaltyTierId"] \in Tiers \cup {Nothing} /\ w["userId"] \in Clients \cup {Nothing}
  BY <1>2, <1>3 DEF PartOfGuest, Guest
<1> HIDE DEF w
<1>6. w \in Guest
  BY <1>1, <1>2, <1>4, <1>5 DEF Guest
<1> QED BY <1>6 DEF w

LEMMA GuestsTypesKept ==
  ASSUME GuestsTypesOK,
         UNCHANGED handler \/ \E p, h : p \in Procs /\ GuestsHandlerTyped(h) /\ handler' = [handler EXCEPT ![p] = h],
         guest' \in [GuestIds -> Guest], tier' \in [Tiers -> Tier], history' \subseteq Moves,
         codes' \in 0..MaxCodes, loose' \subseteq Tiers
  PROVE  GuestsTypesOK'
<1>1. handler' = [p \in Procs |-> handler'[p]] /\ \A p \in Procs : GuestsHandlerTyped(handler'[p])
  BY DEF GuestsTypesOK
<1>2. \A p \in Procs : GuestsHandlerTyped(handler[p])'
  BY <1>1 DEF GuestsHandlerTyped, PartOfGuest
<1>3. GuestsTypeOK'
  BY DEF GuestsTypeOK, Moves
<1> QED BY <1>1, <1>2, <1>3 DEF GuestsTypesOK

LEMMA GuestsTablesTyped ==
  ASSUME GuestsTypesOK
  PROVE  /\ guest \in [GuestIds -> Guest] /\ tier \in [Tiers -> Tier] /\ history \subseteq Moves
         /\ codes \in 0..MaxCodes /\ loose \subseteq Tiers
BY DEF GuestsTypesOK, GuestsTypeOK, Moves

LEMMA GuestsTypesRead ==
  ASSUME GuestsTypesOK, NEW p \in Procs, NEW h, GuestsHandlerTyped(h), Become(p, h), UNCHANGED gvars
  PROVE  GuestsTypesOK'
<1>1. handler' = [handler EXCEPT ![p] = h]
  BY DEF Become
<1>2. UNCHANGED <<guest, tier, history, codes, loose>>
  BY DEF gvars
<1> QED BY <1>1, <1>2, GuestsTablesTyped, GuestsTypesKept

LEMMA NoRequestIsTyped == GuestsHandlerTyped(NoRequest)
BY DEF GuestsHandlerTyped, NoRequest

LEMMA GuestRequestTypes ==
  ASSUME GuestsTypesOK, NEW p \in Procs, GuestRequest(p)
  PROVE  GuestsTypesOK'
<1>0. \A g \in GuestIds : guest[g] \in Guest
  BY GuestsTablesTyped
<1>1. ASSUME NEW g \in GuestIds, NEW written \in WrittenPhones, create(p, g, written) PROVE GuestsTypesOK'
  <2> DEFINE row == [NoGuest EXCEPT !.status = "DRAFT", !.phone = normalizeGuestPhone[written],
                                    !.loyaltyTierId = DefaultTier]
             h == [pc |-> "guest_insert", guest |-> g, row |-> row]
  <2>1. normalizeGuestPhone[written] \in Phones /\ DefaultTier \in Tiers
    BY GuestsAssumption
  <2>2. row \in Guest
    BY <2>1, NoGuestIsAGuest DEF Guest, GuestStatus
  <2>3. GuestsHandlerTyped(h)
    <3> HIDE DEF row
    <3> QED BY <2>2 DEF GuestsHandlerTyped
  <2> QED BY <1>1, <2>3, GuestsTypesRead DEF create
<1>2. ASSUME NEW g \in GuestIds, NEW written \in WrittenPhones \cup {Nothing}, NEW card \in Cards \cup {Nothing},
             NEW status \in {Nothing, "DRAFT", "ACTIVE", "REFUSED"}, UpdateRead(p, g, written, card, status)
      PROVE  GuestsTypesOK'
  <2> DEFINE old == guest[g]
             moves == written # Nothing /\ written # old.phone
             fields == (IF moves THEN {"phone", "phoneVerified", "code"} ELSE {})
                          \cup (IF card # Nothing THEN {"accessCardNumber"} ELSE {})
                          \cup (IF status # Nothing \/ (card # Nothing /\ ~moves) \/ (moves /\ old.status = "ACTIVE")
                                THEN {"status"} ELSE {})
             becomes == CASE status # Nothing -> status
                          [] card # Nothing /\ ~moves -> "ACTIVE"
                          [] moves /\ old.status = "ACTIVE" -> "DRAFT"
                          [] OTHER -> old.status
             new == [f \in fields |->
                       CASE f = "phone" -> normalizeGuestPhone[written] [] f = "phoneVerified" -> FALSE
                         [] f = "code" -> 0 [] f = "accessCardNumber" -> card [] f = "status" -> becomes]
             h == [pc |-> "guest_update", by |-> "update", guest |-> g, seen |-> Seen(g),
                   activate |-> card # Nothing, new |-> new]
  <2>1. Become(p, h) /\ UNCHANGED gvars
    BY <1>2, Zenon DEF UpdateRead
  <2>2. becomes \in GuestStatus
    BY <1>0 DEF Guest, GuestStatus
  <2>3. "phone" \in fields => normalizeGuestPhone[written] \in Phones
    BY GuestsAssumption
  <2>4. fields \subseteq {"phone", "phoneVerified", "code", "accessCardNumber", "status"}
    OBVIOUS
  <2>5. 0 \in 0..MaxCodes
    BY GuestsAssumption
  <2>6. PartOfGuest(new)
    <3> HIDE DEF fields, becomes
    <3>1. DOMAIN new = fields
      OBVIOUS
    <3>2. "status" \in fields => new["status"] = becomes
      OBVIOUS
    <3>3. "phone" \in fields => new["phone"] = normalizeGuestPhone[written]
      OBVIOUS
    <3>4. "phoneVerified" \in fields => new["phoneVerified"] = FALSE
      OBVIOUS
    <3>5. "code" \in fields => new["code"] = 0
      OBVIOUS
    <3>6. "accessCardNumber" \in fields => new["accessCardNumber"] = card
      OBVIOUS
    <3> HIDE DEF new
    <3> QED BY <2>2, <2>3, <2>4, <2>5, <3>1, <3>2, <3>3, <3>4, <3>5, <3>6 DEF PartOfGuest
  <2>7. GuestsHandlerTyped(h)
    <3> HIDE DEF new
    <3> QED BY <2>6 DEF GuestsHandlerTyped
  <2> HIDE DEF h
  <2> QED BY <2>1, <2>7, GuestsTypesRead
<1>3. ASSUME NEW g \in GuestIds, NEW code \in 1..MaxCodes, confirmPhoneVerify(p, g, code) PROVE GuestsTypesOK'
  <2> DEFINE status == IF guest[g].accessCardNumber # Nothing /\ guest[g].status # "REFUSED"
                       THEN "ACTIVE" ELSE guest[g].status
             new == [phoneVerified |-> TRUE, code |-> 0, status |-> status]
             h == [pc |-> "guest_update", by |-> "confirm", guest |-> g, seen |-> Seen(g), activate |-> TRUE, new |-> new]
  <2>1. status \in GuestStatus
    BY <1>0 DEF Guest, GuestStatus
  <2>2. PartOfGuest(new)
    <3> HIDE DEF status
    <3> QED BY <2>1, GuestsAssumption DEF PartOfGuest
  <2>3. GuestsHandlerTyped(h)
    <3> HIDE DEF new
    <3> QED BY <2>2 DEF GuestsHandlerTyped
  <2> QED BY <1>3, <2>3, GuestsTypesRead DEF confirmPhoneVerify
<1>4. ASSUME NEW g \in GuestIds, refuseGuest(p, g) PROVE GuestsTypesOK'
  <2> DEFINE new == [status |-> "REFUSED"]
  <2>1. PartOfGuest(new)
    BY DEF PartOfGuest, GuestStatus
  <2>2. GuestsHandlerTyped([pc |-> "guest_update", by |-> "refuse", guest |-> g, seen |-> Seen(g),
                            new |-> new, activate |-> FALSE])
    <3> HIDE DEF new
    <3> QED BY <2>1 DEF GuestsHandlerTyped
  <2> QED BY <1>4, <2>2, GuestsTypesRead DEF refuseGuest
<1>5. ASSUME NEW g \in GuestIds, restoreGuest(p, g) PROVE GuestsTypesOK'
  <2> DEFINE new == [status |-> IF guest[g].phoneVerified /\ guest[g].accessCardNumber # Nothing
                                THEN "ACTIVE" ELSE "DRAFT"]
  <2>1. PartOfGuest(new)
    BY DEF PartOfGuest, GuestStatus
  <2>2. GuestsHandlerTyped([pc |-> "guest_update", by |-> "restore", guest |-> g, seen |-> Seen(g), activate |-> FALSE,
                            new |-> new])
    <3> HIDE DEF new
    <3> QED BY <2>1 DEF GuestsHandlerTyped
  <2> QED BY <1>5, <2>2, GuestsTypesRead DEF restoreGuest
<1>6. ASSUME NEW u \in Clients, ensureGuestForUser(p, u) PROVE GuestsTypesOK'
  <2>1. GuestsHandlerTyped([pc |-> "link", user |-> u])
    BY DEF GuestsHandlerTyped
  <2> QED BY <1>6, <2>1, GuestsTypesRead DEF ensureGuestForUser
<1> QED BY <1>1, <1>2, <1>3, <1>4, <1>5, <1>6 DEF GuestRequest

LEMMA TierRequestTypes ==
  ASSUME GuestsTypesOK, NEW p \in Procs, TierRequest(p)
  PROVE  GuestsTypesOK'
<1>1. ASSUME NEW t \in Tiers, NEW percent \in {1, 2}, NEW status \in {Nothing, TRUE, FALSE},
             updateTierRead(p, t, percent, status)
      PROVE  GuestsTypesOK'
  <2> DEFINE h == [pc |-> "tier_update", tier |-> t, percent |-> percent,
                   locks |-> percent # tier[t].bonusPercent, status |-> status]
  <2>1. GuestsHandlerTyped(h)
    BY DEF GuestsHandlerTyped
  <2> QED BY <1>1, <2>1, GuestsTypesRead DEF updateTierRead
<1>2. ASSUME NEW t \in Tiers, NEW target \in Tiers, deactivateTierRead(p, t, target) PROVE GuestsTypesOK'
  <2>1. GuestsHandlerTyped([pc |-> "tier_deactivate", tier |-> t, target |-> target])
    BY DEF GuestsHandlerTyped
  <2> QED BY <1>2, <2>1, GuestsTypesRead DEF deactivateTierRead
<1>3. ASSUME NEW g \in GuestIds, NEW t \in Tiers, changeGuestTierRead(p, g, t) PROVE GuestsTypesOK'
  <2>1. guest[g].loyaltyTierId \in Tiers \cup {Nothing}
    BY GuestsTablesTyped DEF Guest
  <2>2. GuestsHandlerTyped([pc |-> "tier_change", guest |-> g, tier |-> t, from |-> guest[g].loyaltyTierId])
    BY <2>1 DEF GuestsHandlerTyped
  <2> QED BY <1>3, <2>2, GuestsTypesRead DEF changeGuestTierRead
<1> QED BY <1>1, <1>2, <1>3 DEF TierRequest

\* A handler that writes, and ends.
LEMMA GuestsTypesWrite ==
  ASSUME GuestsTypesOK, NEW p \in Procs, Finish(p),
         guest' \in [GuestIds -> Guest], tier' \in [Tiers -> Tier], history' \subseteq Moves,
         loose' \subseteq Tiers, UNCHANGED codes
  PROVE  GuestsTypesOK'
<1>1. \E q, h : q \in Procs /\ GuestsHandlerTyped(h) /\ handler' = [handler EXCEPT ![q] = h]
  BY NoRequestIsTyped DEF Finish, Become
<1>2. codes' \in 0..MaxCodes
  BY GuestsTablesTyped
<1> QED BY <1>1, <1>2, GuestsTypesKept

LEMMA LateIsATier == \A t \in Tiers : Late(t) \subseteq Tiers
BY DEF Late

LEMMA GuestContinueTypes ==
  ASSUME GuestsTypesOK, NEW p \in Procs, GuestContinue(p)
  PROVE  GuestsTypesOK'
<1> DEFINE h == handler[p]
<1>1. GuestsHandlerTyped(h)
  BY DEF GuestsTypesOK
<1>2. CASE GuestInsert(p)
  <2>1. h.guest \in GuestIds /\ h.row \in Guest
    BY <1>1, <1>2 DEF GuestInsert, In, GuestsHandlerTyped
  <2>2. guest' \in [GuestIds -> Guest]
    BY <1>2, <2>1, GuestsTablesTyped DEF GuestInsert
  <2>3. loose' \subseteq Tiers
    BY <1>2, LateIsATier, GuestsAssumption, GuestsTablesTyped DEF GuestInsert
  <2> QED BY <1>2, <2>2, <2>3, GuestsTypesWrite, GuestsTablesTyped DEF GuestInsert
<1>3. CASE linkUserByPhone(p)
  <2> DEFINE u == h.user
             new == [userId |-> u]
             row == [NoGuest EXCEPT !.status = "ACTIVE", !.phone = ClientPhone[u], !.userId = u,
                                    !.phoneVerified = TRUE, !.loyaltyTierId = DefaultTier]
  <2>1. u \in Clients
    BY <1>1, <1>3 DEF linkUserByPhone, In, GuestsHandlerTyped
  <2>2. ClientPhone[u] \in Phones \cup {Nothing} /\ DefaultTier \in Tiers
    BY <2>1, GuestsAssumption
  <2>3. row \in Guest
    BY <2>1, <2>2, NoGuestIsAGuest DEF Guest, GuestStatus
  <2>4. PartOfGuest(new)
    BY <2>1 DEF PartOfGuest
  <2>5. \A g \in GuestIds : /\ GuestsHandlerTyped([pc |-> "guest_update", by |-> "link", guest |-> g, seen |-> Seen(g),
                                                   new |-> new, activate |-> FALSE])
                            /\ GuestsHandlerTyped([pc |-> "guest_insert", guest |-> g, row |-> row])
    <3> HIDE DEF row, new
    <3> QED BY <2>3, <2>4 DEF GuestsHandlerTyped
  <2>6. \E k : GuestsHandlerTyped(k) /\ Become(p, k)
    <3> HIDE DEF row
    <3>1. \/ Finish(p)
          \/ \E g \in GuestIds : Become(p, [pc |-> "guest_update", by |-> "link", guest |-> g, seen |-> Seen(g),
                                            new |-> new, activate |-> FALSE])
          \/ \E g \in GuestIds : Become(p, [pc |-> "guest_insert", guest |-> g, row |-> row])
      BY <1>3 DEF linkUserByPhone, row
    <3> HIDE DEF new
    <3> QED BY <2>5, <3>1, NoRequestIsTyped DEF Finish
  <2> QED BY <1>3, <2>6, GuestsTypesRead DEF linkUserByPhone
<1>4. CASE GuestWrite(p)
  <2>1. h.guest \in GuestIds /\ PartOfGuest(h.new)
    BY <1>1, <1>4 DEF GuestWrite, In, GuestsHandlerTyped
  <2>2. With(guest[h.guest], h.new) \in Guest
    BY <2>1, GuestsTablesTyped, WithIsAGuest
  <2>3. guest' = guest \/ guest' = [guest EXCEPT ![h.guest] = With(guest[h.guest], h.new)]
    BY <1>4 DEF GuestWrite, Update
  <2>4. guest' \in [GuestIds -> Guest]
    BY <2>1, <2>2, <2>3, GuestsTablesTyped
  <2>5. GuestsHandlerTyped([pc |-> "activate", guest |-> h.guest])
    BY <2>1 DEF GuestsHandlerTyped
  <2>6. \E q, k : q \in Procs /\ GuestsHandlerTyped(k) /\ handler' = [handler EXCEPT ![q] = k]
    BY <1>4, <2>5, NoRequestIsTyped DEF GuestWrite, Finish, Become
  <2>7. UNCHANGED <<tier, history, codes, loose>>
    BY <1>4 DEF GuestWrite
  <2> QED BY <2>4, <2>6, <2>7, GuestsTablesTyped, GuestsTypesKept
<1>5. CASE ActivateRead(p)
  <2> DEFINE g == h.guest
             new == [status |-> StatusAfterScud(guest[g]),
                     loyaltyTierId |-> IF guest[g].loyaltyTierId = Nothing THEN DefaultTier
                                       ELSE guest[g].loyaltyTierId]
             k == [pc |-> "activation", by |-> "activation", guest |-> g, seen |-> Seen(g), new |-> new]
  <2>1. g \in GuestIds
    BY <1>1, <1>5 DEF ActivateRead, In, GuestsHandlerTyped
  <2>2. guest[g].loyaltyTierId \in Tiers \cup {Nothing} /\ guest[g].status \in GuestStatus
    BY <2>1, GuestsTablesTyped DEF Guest
  <2>3. PartOfGuest(new) /\ new["loyaltyTierId"] \in Tiers
    BY <2>2, GuestsAssumption DEF PartOfGuest, StatusAfterScud, GuestStatus
  <2>4. Seen(g).loyaltyTierId \in Tiers \cup {Nothing}
    BY <2>2 DEF Seen
  <2>5. GuestsHandlerTyped(k)
    <3> HIDE DEF new
    <3> QED BY <2>1, <2>3, <2>4 DEF GuestsHandlerTyped
  <2>6. Become(p, k) \/ Finish(p)
    BY <1>5, Zenon DEF ActivateRead
  <2>7. UNCHANGED gvars
    BY <1>5 DEF ActivateRead
  <2> HIDE DEF k
  <2> QED BY <2>5, <2>6, <2>7, NoRequestIsTyped, GuestsTypesRead DEF Finish
<1>6. CASE ActivateCommit(p)
  <2>1. /\ h.guest \in GuestIds /\ PartOfGuest(h.new)
        /\ h.new["loyaltyTierId"] \in Tiers /\ h.seen.loyaltyTierId \in Tiers \cup {Nothing}
    BY <1>1, <1>6 DEF ActivateCommit, In, GuestsHandlerTyped
  <2>2. With(guest[h.guest], h.new) \in Guest
    BY <2>1, GuestsTablesTyped, WithIsAGuest
  <2>3. guest' \in [GuestIds -> Guest]
    BY <1>6, <2>1, <2>2, GuestsTablesTyped DEF ActivateCommit
  <2>4. history' \subseteq Moves
    <3>1. [guest |-> h.guest, from |-> h.seen.loyaltyTierId, to |-> h.new["loyaltyTierId"], reason |-> "SCUD"] \in Moves
      BY <2>1 DEF Moves
    <3> QED BY <1>6, <3>1, GuestsTablesTyped DEF ActivateCommit
  <2>5. loose' \subseteq Tiers
    BY <1>6, <2>1, LateIsATier, GuestsTablesTyped DEF ActivateCommit
  <2> QED BY <1>6, <2>3, <2>4, <2>5, GuestsTypesWrite, GuestsTablesTyped DEF ActivateCommit
<1>7. CASE updateTierWrite(p)
  <2>1. /\ h.tier \in Tiers /\ h.percent \in {1, 2} /\ h.locks \in BOOLEAN
        /\ h.status = Nothing \/ h.status = TRUE \/ h.status = FALSE
    BY <1>1, <1>7 DEF updateTierWrite, In, GuestsHandlerTyped
  <2> DEFINE isActive == IF h.status = Nothing THEN tier[h.tier].isActive ELSE h.status
             locked == tier[h.tier].locked \/ h.locks
  <2>2. tier[h.tier] \in Tier
    BY <2>1, GuestsTablesTyped
  <2>3. isActive \in BOOLEAN /\ locked \in BOOLEAN
    BY <2>1, <2>2 DEF Tier
  <2>4. tier' = [tier EXCEPT ![h.tier] = [isActive |-> isActive, bonusPercent |-> h.percent, locked |-> locked]]
    BY <1>7 DEF updateTierWrite
  <2>5. tier' \in [Tiers -> Tier]
    <3> HIDE DEF isActive, locked
    <3> QED BY <2>1, <2>3, <2>4, GuestsTablesTyped DEF Tier
  <2>6. loose' \subseteq Tiers
    BY <1>7, <2>1, GuestsTablesTyped DEF updateTierWrite
  <2> QED BY <1>7, <2>5, <2>6, GuestsTypesWrite, GuestsTablesTyped DEF updateTierWrite
<1>8. CASE deactivateTierCommit(p)
  <2>1. h.tier \in Tiers /\ h.target \in Tiers
    BY <1>1, <1>8 DEF deactivateTierCommit, In, GuestsHandlerTyped
  <2>2. \A g \in GuestIds : [guest[g] EXCEPT !.loyaltyTierId = h.target] \in Guest
    BY <2>1, GuestsTablesTyped DEF Guest
  <2>3. guest' \in [GuestIds -> Guest]
    BY <1>8, <2>2, GuestsTablesTyped DEF deactivateTierCommit
  <2>4. tier' \in [Tiers -> Tier]
    BY <1>8, <2>1, GuestsTablesTyped DEF deactivateTierCommit, Tier
  <2>5. loose' \subseteq Tiers
    BY <1>8, <2>1, LateIsATier, GuestsTablesTyped DEF deactivateTierCommit
  <2> QED BY <1>8, <2>3, <2>4, <2>5, GuestsTypesWrite, GuestsTablesTyped DEF deactivateTierCommit
<1>9. CASE changeGuestTierCommit(p)
  <2>1. h.guest \in GuestIds /\ h.tier \in Tiers /\ h.from \in Tiers \cup {Nothing}
    BY <1>1, <1>9 DEF changeGuestTierCommit, In, GuestsHandlerTyped
  <2>2. [guest[h.guest] EXCEPT !.loyaltyTierId = h.tier] \in Guest
    BY <2>1, GuestsTablesTyped DEF Guest
  <2>3. guest' \in [GuestIds -> Guest]
    BY <1>9, <2>1, <2>2, GuestsTablesTyped DEF changeGuestTierCommit
  <2>4. history' \subseteq Moves
    BY <1>9, <2>1, GuestsTablesTyped DEF changeGuestTierCommit, Moves
  <2>5. loose' \subseteq Tiers
    BY <1>9, <2>1, LateIsATier, GuestsTablesTyped DEF changeGuestTierCommit
  <2> QED BY <1>9, <2>3, <2>4, <2>5, GuestsTypesWrite, GuestsTablesTyped DEF changeGuestTierCommit
<1> QED BY <1>2, <1>3, <1>4, <1>5, <1>6, <1>7, <1>8, <1>9 DEF GuestContinue

LEMMA ClockTypes ==
  ASSUME GuestsTypesOK,
         \/ \E g \in GuestIds : requestPhoneVerify(g) \/ CodeExpires(g)
         \/ \E t \in Tiers : CooldownEnds(t)
  PROVE  GuestsTypesOK'
<1>1. ASSUME NEW g \in GuestIds, requestPhoneVerify(g) PROVE GuestsTypesOK'
  <2>1. codes + 1 \in 0..MaxCodes
    BY <1>1, GuestsAssumption, GuestsTablesTyped DEF requestPhoneVerify
  <2>2. guest' \in [GuestIds -> Guest]
    BY <1>1, <2>1, GuestsTablesTyped DEF requestPhoneVerify, Guest
  <2> QED BY <1>1, <2>1, <2>2, GuestsTablesTyped, GuestsTypesKept DEF requestPhoneVerify, rvars
<1>2. ASSUME NEW g \in GuestIds, CodeExpires(g) PROVE GuestsTypesOK'
  <2>1. guest' \in [GuestIds -> Guest]
    BY <1>2, GuestsTablesTyped DEF CodeExpires, Guest
  <2> QED BY <1>2, <2>1, GuestsTablesTyped, GuestsTypesKept DEF CodeExpires, rvars
<1>3. ASSUME NEW t \in Tiers, CooldownEnds(t) PROVE GuestsTypesOK'
  <2>1. [tier[t] EXCEPT !.locked = FALSE] \in Tier
    BY GuestsTablesTyped DEF Tier
  <2>2. tier' = [tier EXCEPT ![t] = [tier[t] EXCEPT !.locked = FALSE]]
    BY <1>3 DEF CooldownEnds
  <2>3. tier' \in [Tiers -> Tier]
    BY <2>1, <2>2, GuestsTablesTyped
  <2> QED BY <1>3, <2>3, GuestsTablesTyped, GuestsTypesKept DEF CooldownEnds, rvars
<1> QED BY <1>1, <1>2, <1>3

LEMMA GuestsTypesInitially == GuestsInit /\ RequestsInit => GuestsTypesOK
<1> SUFFICES ASSUME GuestsInit, RequestsInit PROVE GuestsTypesOK
  OBVIOUS
<1>1. guest \in [GuestIds -> Guest] /\ guest \in [GuestIds -> {NoGuest} \cup Guest]
  BY NoGuestIsAGuest DEF GuestsInit
<1>2. tier \in [Tiers -> Tier]
  BY DEF GuestsInit, Tier
<1>3. \A p \in Procs : GuestsHandlerTyped(handler[p])
  BY NoRequestIsTyped DEF RequestsInit
<1>4. codes \in 0..MaxCodes
  BY GuestsAssumption DEF GuestsInit
<1> QED BY <1>1, <1>2, <1>3, <1>4 DEF GuestsInit, RequestsInit, GuestsTypesOK, GuestsTypeOK

LEMMA GuestsTypesInductive == GuestsTypesOK /\ [GuestsNext]_<<gvars, rvars>> => GuestsTypesOK'
<1> SUFFICES ASSUME GuestsTypesOK, [GuestsNext]_<<gvars, rvars>> PROVE GuestsTypesOK'
  OBVIOUS
<1>1. CASE UNCHANGED <<gvars, rvars>>
  BY <1>1, GuestsTablesTyped, GuestsTypesKept DEF gvars, rvars
<1>2. ASSUME NEW p \in Procs, Dies(p), UNCHANGED gvars PROVE GuestsTypesOK'
  BY <1>2, NoRequestIsTyped, GuestsTablesTyped, GuestsTypesKept DEF Dies, gvars
<1> QED BY <1>1, <1>2, GuestRequestTypes, TierRequestTypes, GuestContinueTypes, ClockTypes DEF GuestsNext

\* Guests keep to their statuses, phones, cards and tiers, and the history of a
\* guest's tiers names tiers only (guests.service.ts, loyalty.service.ts).
THEOREM GuestsAreTyped == GuestsSpec => []GuestsTypeOK
<1>1. GuestsTypesOK => GuestsTypeOK
  BY DEF GuestsTypesOK
<1> QED BY GuestsTypesInitially, GuestsTypesInductive, <1>1, PTL DEF GuestsSpec

-----------------------------------------------------------------------------
(* The types of the menu.                                                    *)

NamesOK(entries) == \A x \in DOMAIN entries : entries[x].name \in MenuNames

\* A category that was created is never gone, so an item's category is there; and
\* an export may be imported again, so its items are of categories, of names and
\* at prices of the cafe.
MenuTypesOK ==
  /\ handler = [p \in Procs |-> handler[p]]
  /\ MenuTypeOK
  /\ \A p \in Procs : handler[p].pc = "export" => NamesOK(handler[p].categories)
  /\ NamesOK(exported.menu.categories) /\ NamesOK(exported.menu.items)
  /\ \A i \in DOMAIN exported.menu.items :
       exported.menu.items[i].categoryKey \in Categories /\ exported.menu.items[i].price \in Prices

LEMMA ShownIsAStatus == \A isActive : Shown(isActive) \in MenuStatus /\ Shown(isActive) # "none"
BY DEF Shown, MenuStatus

\* A write of rows of their types that leaves no created category out.
LEMMA MenuWritten ==
  ASSUME MenuTypesOK, UNCHANGED exported, Tear,
         category' \in [Categories -> Category], item' \in [Items -> Item],
         \A k \in Categories : category[k].status # "none" => category'[k].status # "none",
         \A i \in Items : item'[i].status # "none" =>
           \/ category'[item'[i].category].status # "none"
           \/ item[i].status # "none" /\ item'[i].category = item[i].category
  PROVE  MenuTypesOK'
<1>1. \A i \in Items : item'[i].status # "none" => category'[item'[i].category].status # "none"
  BY DEF MenuTypesOK, MenuTypeOK, Item
<1>2. handler' = [p \in Procs |-> handler'[p]]
  BY DEF Tear
<1>3. \A p \in Procs : handler'[p].pc = "export" => NamesOK(handler'[p].categories)
  <2> SUFFICES ASSUME NEW p \in Procs, handler'[p].pc = "export" PROVE NamesOK(handler'[p].categories)
    OBVIOUS
  <2>1. handler[p].pc = "export" /\ handler'[p].categories = handler[p].categories
    BY DEF Tear, In
  <2> QED BY <2>1 DEF MenuTypesOK
<1> QED BY <1>1, <1>2, <1>3 DEF MenuTypesOK, MenuTypeOK

LEMMA MenuEditTypes == ASSUME MenuTypesOK, MenuEdit PROVE MenuTypesOK'
<1> USE ShownIsAStatus DEF MenuTypesOK, MenuTypeOK, Category, Item
<1>1. ASSUME NEW k \in Categories, NEW isActive \in BOOLEAN, NEW name \in MenuNames,
             createCategory(k, isActive, name) \/ updateCategory(k, isActive, name)
      PROVE  MenuTypesOK'
  <2>1. /\ category' = [category EXCEPT ![k] = [status |-> Shown(isActive), name |-> name]]
        /\ UNCHANGED <<item, exported>> /\ Tear
    BY <1>1 DEF createCategory, updateCategory, Edit
  <2> QED BY <2>1, MenuWritten
<1>2. ASSUME NEW k \in Categories, deleteCategory(k) PROVE MenuTypesOK'
  <2>1. /\ category' = [category EXCEPT ![k].status = "off"] /\ UNCHANGED exported /\ Tear
        /\ item' = [i \in Items |-> IF item[i].status # "none" /\ item[i].category = k
                                    THEN [item[i] EXCEPT !.status = "off"] ELSE item[i]]
    BY <1>2 DEF deleteCategory, Edit
  <2>2. /\ category' \in [Categories -> Category]
        /\ \A c \in Categories : category[c].status # "none" => category'[c].status # "none"
    BY <2>1 DEF MenuStatus
  <2>3. \A i \in Items : /\ item'[i] \in Item /\ item'[i].category = item[i].category
                         /\ item'[i].status # "none" => item[i].status # "none"
    BY <2>1 DEF MenuStatus
  <2>4. item' \in [Items -> Item]
    BY <2>1, <2>3
  <2> QED BY <2>1, <2>2, <2>3, <2>4, MenuWritten
<1>3. ASSUME NEW i \in Items, NEW k \in Categories, NEW price \in Prices, NEW isActive \in BOOLEAN,
             NEW name \in MenuNames, createItem(i, k, price, isActive, name) \/ updateItem(i, k, price, isActive, name)
      PROVE  MenuTypesOK'
  <2>1. /\ item' = [item EXCEPT ![i] = [status |-> Shown(isActive), category |-> k, price |-> price, name |-> name]]
        /\ UNCHANGED <<category, exported>> /\ category[k].status # "none" /\ Tear
    BY <1>3 DEF createItem, updateItem, EditItem, Edit
  <2> QED BY <2>1, MenuWritten
<1>4. ASSUME NEW i \in Items, deleteItem(i) PROVE MenuTypesOK'
  <2>1. item' = [item EXCEPT ![i].status = "off"] /\ UNCHANGED <<category, exported>> /\ item[i].status # "none" /\ Tear
    BY <1>4 DEF deleteItem, Edit
  <2> QED BY <2>1, MenuWritten DEF MenuStatus
<1> QED BY <1>1, <1>2, <1>3, <1>4 DEF MenuEdit

\* An item of a document has a category that is there once the document is in.
LEMMA MenuImportTypes ==
  ASSUME MenuTypesOK, NEW mode \in {"merge", "replace"}, NEW menu \in {exported.menu} \cup MenuDocuments,
         importMenu(mode, menu)
  PROVE  MenuTypesOK'
<1>1. /\ category' = CategoriesAfterImport(mode, menu) /\ item' = AfterImport(mode, menu) /\ UNCHANGED exported
      /\ Tear /\ \A i \in itemsIn(menu) : category'[menu.items[i].categoryKey].status # "none"
  BY DEF importMenu
<1>2. \A i \in itemsIn(menu) : /\ menu.items[i].categoryKey \in Categories /\ menu.items[i].price \in Prices
                              /\ menu.items[i].name \in MenuNames
  BY MenuAssumption DEF MenuTypesOK, NamesOK, itemsIn
<1>7. \A k \in categoriesIn(menu) : menu.categories[k].name \in MenuNames
  BY MenuAssumption DEF MenuTypesOK, NamesOK, categoriesIn
<1>3. \A k \in Categories : category'[k] \in Category /\ (category[k].status # "none" => category'[k].status # "none")
  <2> SUFFICES ASSUME NEW k \in Categories
               PROVE  category'[k] \in Category /\ (category[k].status # "none" => category'[k].status # "none")
    OBVIOUS
  <2>1. category'[k] = IF k \in categoriesIn(menu)
                       THEN [status |-> Shown(menu.categories[k].isActive), name |-> menu.categories[k].name]
                       ELSE IF mode = "replace" /\ category[k].status # "none" THEN [category[k] EXCEPT !.status = "off"]
                            ELSE category[k]
    BY <1>1 DEF CategoriesAfterImport
  <2> QED BY <1>7, <2>1, ShownIsAStatus DEF MenuTypesOK, MenuTypeOK, MenuStatus, Category
<1>4. category' \in [Categories -> Category]
  BY <1>1, <1>3 DEF CategoriesAfterImport
<1>5. \A i \in Items : /\ item'[i] \in Item
                       /\ item'[i].status # "none" =>
                            \/ category'[item'[i].category].status # "none"
                            \/ item[i].status # "none" /\ item'[i].category = item[i].category
  <2> SUFFICES ASSUME NEW i \in Items
               PROVE  /\ item'[i] \in Item
                      /\ item'[i].status # "none" =>
                           \/ category'[item'[i].category].status # "none"
                           \/ item[i].status # "none" /\ item'[i].category = item[i].category
    OBVIOUS
  <2>1. CASE i \in itemsIn(menu)
    <3>1. item'[i] = ImportedItem(menu.items[i])
      BY <1>1, <2>1 DEF AfterImport
    <3> QED BY <1>1, <1>2, <2>1, <3>1, ShownIsAStatus DEF Item, ImportedItem
  <2>2. CASE i \notin itemsIn(menu)
    <3>1. item'[i] \in {item[i], [item[i] EXCEPT !.status = "off"]}
          /\ (item'[i] # item[i] => item[i].status # "none")
      BY <1>1, <2>2 DEF AfterImport
    <3> QED BY <3>1 DEF MenuTypesOK, MenuTypeOK, Item, MenuStatus
  <2> QED BY <2>1, <2>2
<1>6. item' \in [Items -> Item]
  BY <1>1, <1>5 DEF AfterImport
<1> QED BY <1>1, <1>3, <1>4, <1>5, <1>6, MenuWritten

LEMMA MenuExportTypes ==
  ASSUME MenuTypesOK, NEW p \in Procs, exportCategories(p) \/ exportItems(p)
  PROVE  MenuTypesOK'
<1>1. CASE exportCategories(p)
  <2>1. /\ handler' = [handler EXCEPT ![p] = [pc |-> "export", whole |-> TRUE, categories |-> CategoriesOf(category)]]
        /\ UNCHANGED mvars
    BY <1>1 DEF exportCategories, Become, CategoriesOf
  <2>2. NamesOK(CategoriesOf(category))
    BY DEF NamesOK, CategoriesOf, MenuTypesOK, MenuTypeOK, Category
  <2> QED BY <2>1, <2>2 DEF mvars, MenuTypesOK, MenuTypeOK
<1>2. CASE exportItems(p)
  <2>1. /\ exported'.menu.items = ItemsOf(item) /\ UNCHANGED <<category, item>>
        /\ exported'.menu.categories = handler[p].categories
        /\ handler' = [handler EXCEPT ![p] = NoRequest] /\ handler[p].pc = "export"
    BY <1>2 DEF exportItems, ItemsOf, Finish, Become, In
  <2>2. \A i \in DOMAIN ItemsOf(item) : /\ ItemsOf(item)[i].categoryKey \in Categories /\ ItemsOf(item)[i].price \in Prices
                                       /\ ItemsOf(item)[i].name \in MenuNames
    BY DEF ItemsOf, MenuTypesOK, MenuTypeOK, Item
  <2>3. NamesOK(exported'.menu.categories) /\ NamesOK(exported'.menu.items)
    BY <2>1, <2>2 DEF MenuTypesOK, NamesOK
  <2>4. \A q \in Procs : handler'[q].pc = "export" => NamesOK(handler'[q].categories)
    BY <2>1 DEF MenuTypesOK, NoRequest
  <2> QED BY <2>1, <2>2, <2>3, <2>4 DEF MenuTypesOK, MenuTypeOK
<1> QED BY <1>1, <1>2

LEMMA MenuTypedAtFirst == MenuInit => MenuTypeOK
<1> SUFFICES ASSUME MenuInit PROVE MenuTypeOK
  OBVIOUS
<1>1. /\ (CHOOSE k \in Categories : TRUE) \in Categories /\ (CHOOSE price \in Prices : TRUE) \in Prices
      /\ (CHOOSE n \in MenuNames \ {""} : TRUE) \in MenuNames
  BY MenuAssumption
<1>2. PICK name : name = CHOOSE n \in MenuNames \ {""} : TRUE
  OBVIOUS
<1>3. /\ category = [k \in Categories |-> [status |-> "none", name |-> name]]
      /\ item = [i \in Items |-> [status |-> "none", category |-> CHOOSE k \in Categories : TRUE,
                                 price |-> CHOOSE price \in Prices : TRUE, name |-> name]]
  BY <1>2 DEF MenuInit
<1> QED BY <1>1, <1>2, <1>3 DEF MenuTypeOK, MenuStatus, Category, Item

LEMMA MenuTypesInitially == MenuInit /\ RequestsInit => MenuTypesOK
<1> SUFFICES ASSUME MenuInit, RequestsInit PROVE MenuTypesOK
  OBVIOUS
<1>1. exported.menu.categories = << >> /\ exported.menu.items = << >>
  BY DEF MenuInit, NoExport
<1>2. NamesOK(exported.menu.categories) /\ NamesOK(exported.menu.items)
  BY <1>1 DEF NamesOK
<1>3. handler = [p \in Procs |-> [pc |-> "idle"]]
  BY DEF RequestsInit, NoRequest
<1> QED BY <1>1, <1>2, <1>3, MenuTypedAtFirst DEF MenuTypesOK

LEMMA MenuTypesInductive == MenuTypesOK /\ [MenuNext]_<<mvars, rvars>> => MenuTypesOK'
<1> SUFFICES ASSUME MenuTypesOK, [MenuNext]_<<mvars, rvars>> PROVE MenuTypesOK'
  OBVIOUS
<1>1. CASE UNCHANGED <<mvars, rvars>>
  BY <1>1 DEF mvars, rvars, MenuTypesOK, MenuTypeOK
<1>4. ASSUME NEW p \in Procs, Dies(p), UNCHANGED mvars PROVE MenuTypesOK'
  <2>1. handler' = [handler EXCEPT ![p] = NoRequest]
    BY <1>4 DEF Dies
  <2> QED BY <1>4, <2>1 DEF mvars, MenuTypesOK, MenuTypeOK, NoRequest
<1>2. CASE MenuEdit
  BY <1>2, MenuEditTypes
<1>3. CASE MenuDocument
  BY <1>3, MenuImportTypes, MenuExportTypes DEF MenuDocument
<1> QED BY <1>1, <1>2, <1>3, <1>4 DEF MenuNext

\* Whatever is edited, exported and imported, every item that was created is of a
\* category that was created (menu.service.ts deletes no row).
THEOREM MenuIsTyped == MenuSpec => []MenuTypeOK
<1>1. MenuTypesOK => MenuTypeOK
  BY DEF MenuTypesOK
<1> QED BY MenuTypesInitially, MenuTypesInductive, <1>1, PTL DEF MenuSpec

-----------------------------------------------------------------------------
(* The types of accounts and rows.                                           *)

\* Rows are only appended, each where there is room.
LEMMA RowsAreBounded ==
  ASSUME AccountsIInv, Len(rows) <= MaxRows, [AccountsNext]_<<avars, rvars>>
  PROVE  Len(rows') <= MaxRows
<1>1. rows \in Seq(Row)
  BY DEF AccountsIInv, AccountsTablesOK
<1>2. ASSUME NEW i, NEW x, rows' = [rows EXCEPT ![i] = x] PROVE Len(rows') = Len(rows)
  BY <1>1, <1>2
<1>3. ASSUME NEW p, NEW row, InsertRow(p, row) PROVE Len(rows') <= MaxRows
  <2> DEFINE S == Row \cup {row}
  <2>1. rows \in Seq(S)
    BY <1>1
  <2>2. Len(Append(rows, row)) = Len(rows) + 1
    BY <2>1
  <2>3. Len(rows) \in Nat
    BY <1>1
  <2>4. MaxRows \in Nat
    BY AccountsAssumption
  <2>5. rows' = Append(rows, row) /\ Len(rows) < MaxRows
    BY <1>3 DEF InsertRow
  <2> QED BY <2>2, <2>3, <2>4, <2>5
<1>4. ASSUME NEW p \in Procs, RegisterRequest(p) \/ LoginRequest(p) PROVE Len(rows') <= MaxRows
  BY <1>2, <1>3, <1>4 DEF RegisterRequest, RegisterBegins, inviteWorker, CheckRows, createUser, CreateRow,
     LoginRequest, SyncReads, FindUser, CreateUserRow, updateEmail, BeginRequest, ReadRows, avars
<1>5. ASSUME NEW p \in Procs, AdminRequest(p) \/ DeleteRequest(p) PROVE Len(rows') <= MaxRows
  BY <1>2, <1>5 DEF AdminRequest, UpdateBegins, UpdateEmailBegins, UpdateWorker, DeleteRequest, DeleteBegins,
     deleteAdmin, CafeDeleteBegins, deleteUser, softDelete, CafeDelete, Deactivate, BeginRequest, avars
<1>6. ASSUME NEW k, KeycloakStep(k) PROVE UNCHANGED rows
  BY <1>6 DEF KeycloakStep, KeycloakRegisters, KeycloakRenames, KeycloakDeletes
<1> QED BY <1>4, <1>5, <1>6 DEF AccountsNext, avars

LEMMA SeedRowFits == AccountsInit => Len(rows) <= MaxRows
<1> SUFFICES ASSUME AccountsInit PROVE Len(rows) <= MaxRows
  OBVIOUS
<1>1. Len(rows) = 1
  BY DEF AccountsInit
<1>2. MaxRows \in Nat /\ MaxRows # 0
  BY AccountsAssumption
<1> QED BY <1>1, <1>2

LEMMA TypedTables == AccountsTablesOK /\ Len(rows) <= MaxRows => AccountsTypeOK
<1> SUFFICES ASSUME AccountsTablesOK, Len(rows) <= MaxRows PROVE AccountsTypeOK
  OBVIOUS
<1>1. rows \in Seq(Row)
  BY DEF AccountsTablesOK
<1>2. \A i \in DOMAIN rows : rows[i] \in Row
  BY <1>1
<1> QED BY <1>2 DEF AccountsTablesOK, AccountsTypeOK

AccountsTypesOK == AccountsIInv /\ Len(rows) <= MaxRows

LEMMA AccountsTypesInvariant ==
  /\ AccountsInit /\ RequestsInit => AccountsTypesOK
  /\ AccountsTypesOK /\ [AccountsNext]_<<avars, rvars>> => AccountsTypesOK'
  /\ AccountsTypesOK => AccountsTypeOK
<1>1. AccountsInit /\ RequestsInit => AccountsTypesOK
  BY SeedRowFits, AccountsInitially DEF AccountsTypesOK
<1>2. AccountsTypesOK /\ [AccountsNext]_<<avars, rvars>> => AccountsTypesOK'
  BY AccountsInductive, RowsAreBounded DEF AccountsTypesOK
<1>3. AccountsTypesOK => AccountsTypeOK
  BY TypedTables DEF AccountsTypesOK, AccountsIInv
<1> QED BY <1>1, <1>2, <1>3

\* An account has an id of its own, and rows never leave the table.
THEOREM AccountsAreTyped == AccountsSpec => []AccountsTypeOK
BY AccountsTypesInvariant, PTL DEF AccountsSpec

-----------------------------------------------------------------------------
(* The network as a whole: the four modules side by side, of which the focus  *)
(* says the one that moves.                                                  *)

BrandsFoci == {"documents", "pictures", "cafes"}
GuestsFoci == {"guests", "tiers"}
AccountsFoci == {"accounts", "workers"}

\* The module that moves keeps its invariant, the others are as they began.
NetworkIInv ==
  /\ IF focus \in BrandsFoci THEN BrandsIInv /\ FilesIInv /\ BrandsTypesOK ELSE BrandsInit
  /\ IF focus \in GuestsFoci THEN GuestsIInv /\ GuestsTypesOK ELSE GuestsInit
  /\ IF focus = "menu" THEN MenuIInv /\ MenuTypesOK ELSE MenuInit
  /\ IF focus \in AccountsFoci THEN AccountsTypesOK ELSE AccountsInit

LEMMA OneModuleMoves ==
  ASSUME [MCNext]_<<bvars, gvars, mvars, avars, rvars, focus>>
  PROVE  /\ focus' = focus
         /\ IF focus \in BrandsFoci THEN [BrandsNext]_<<bvars, rvars>> ELSE UNCHANGED bvars
         /\ IF focus \in GuestsFoci THEN [GuestsNext]_<<gvars, rvars>> ELSE UNCHANGED gvars
         /\ IF focus = "menu" THEN [MenuNext]_<<mvars, rvars>> ELSE UNCHANGED mvars
         /\ IF focus \in AccountsFoci THEN [AccountsNext]_<<avars, rvars>> ELSE UNCHANGED avars
<1>1. BrandsFocus => focus \in BrandsFoci
  BY DEF BrandsFocus, BrandsFoci
<1>2. GuestsFocus => focus \in GuestsFoci
  BY DEF GuestsFocus, GuestsFoci
<1>3. AccountsFocus => focus \in AccountsFoci
  BY DEF AccountsFocus, AccountsFoci
<1>4. CASE UNCHANGED <<bvars, gvars, mvars, avars, rvars, focus>>
  BY <1>4
<1>5. CASE focus' = focus /\ BrandsNext /\ BrandsFocus /\ UNCHANGED <<gvars, mvars, avars>>
  BY <1>1, <1>5 DEF BrandsFoci, GuestsFoci, AccountsFoci
<1>6. CASE focus' = focus /\ GuestsNext /\ GuestsFocus /\ UNCHANGED <<bvars, mvars, avars>>
  BY <1>2, <1>6 DEF BrandsFoci, GuestsFoci, AccountsFoci
<1>7. CASE focus' = focus /\ MenuNext /\ MenuFocus /\ UNCHANGED <<bvars, gvars, avars>>
  BY <1>7 DEF MenuFocus, BrandsFoci, GuestsFoci, AccountsFoci
<1>8. CASE focus' = focus /\ AccountsNext /\ AccountsFocus /\ UNCHANGED <<bvars, gvars, mvars>>
  BY <1>3, <1>8 DEF BrandsFoci, GuestsFoci, AccountsFoci
<1> QED BY <1>4, <1>5, <1>6, <1>7, <1>8 DEF MCNext

LEMMA NetworkInductive ==
  NetworkIInv /\ [MCNext]_<<bvars, gvars, mvars, avars, rvars, focus>> => NetworkIInv'
<1> SUFFICES ASSUME NetworkIInv, [MCNext]_<<bvars, gvars, mvars, avars, rvars, focus>> PROVE NetworkIInv'
  OBVIOUS
<1>1. focus' = focus
  BY OneModuleMoves
<1>2. IF focus \in BrandsFoci THEN (BrandsIInv /\ FilesIInv /\ BrandsTypesOK)' ELSE BrandsInit'
  <2>1. CASE focus \in BrandsFoci
    BY <2>1, OneModuleMoves, BrandsInductive, FilesInductive, BrandsTypesInductive DEF NetworkIInv
  <2>2. CASE focus \notin BrandsFoci
    BY <2>2, OneModuleMoves DEF NetworkIInv, bvars, BrandsInit
  <2> QED BY <2>1, <2>2
<1>3. IF focus \in GuestsFoci THEN (GuestsIInv /\ GuestsTypesOK)' ELSE GuestsInit'
  <2>1. CASE focus \in GuestsFoci
    BY <2>1, OneModuleMoves, GuestsInductive, GuestsTypesInductive DEF NetworkIInv
  <2>2. CASE focus \notin GuestsFoci
    BY <2>2, OneModuleMoves DEF NetworkIInv, gvars, GuestsInit
  <2> QED BY <2>1, <2>2
<1>4. IF focus = "menu" THEN (MenuIInv /\ MenuTypesOK)' ELSE MenuInit'
  <2>1. CASE focus = "menu"
    BY <2>1, OneModuleMoves, MenuInductive, MenuTypesInductive DEF NetworkIInv
  <2>2. CASE focus # "menu"
    BY <2>2, OneModuleMoves DEF NetworkIInv, mvars, MenuInit
  <2> QED BY <2>1, <2>2
<1>5. IF focus \in AccountsFoci THEN AccountsTypesOK' ELSE AccountsInit'
  <2>1. CASE focus \in AccountsFoci
    BY <2>1, OneModuleMoves, AccountsTypesInvariant DEF NetworkIInv
  <2>2. CASE focus \notin AccountsFoci
    BY <2>2, OneModuleMoves DEF NetworkIInv, avars, AccountsInit
  <2> QED BY <2>1, <2>2
<1> QED BY <1>1, <1>2, <1>3, <1>4, <1>5 DEF NetworkIInv, BrandsFoci, GuestsFoci, AccountsFoci

\* What moves keeps its types, and so does what never began to.
LEMMA NetworkIInvTypes == NetworkIInv => NetworkTypeOK
<1> SUFFICES ASSUME NetworkIInv PROVE NetworkTypeOK
  OBVIOUS
<1>1. BrandsTypeOK
  <2>1. BrandsInit => BrandsTypeOK
    BY BrandsAssumption, NoBrandIsABrand DEF BrandsInit, BrandsTypeOK
  <2> QED BY <2>1, BrandsTypesInvImplies DEF NetworkIInv
<1>2. GuestsTypeOK
  <2>1. GuestsInit => GuestsTypeOK
    BY GuestsAssumption DEF GuestsInit, GuestsTypeOK, Tier
  <2> QED BY <2>1 DEF NetworkIInv, GuestsTypesOK
<1>3. MenuTypeOK
  BY MenuTypedAtFirst DEF NetworkIInv, MenuTypesOK
<1>4. AccountsTypeOK
  <2>1. AccountsInit => AccountsTypeOK
    <3> SUFFICES ASSUME AccountsInit PROVE AccountsTypeOK
      OBVIOUS
    <3>1. RootEmail \in Emails /\ Root \in KeycloakIds
      BY AccountsAssumption DEF RootEmail
    <3>2. account \in [KeycloakIds -> Emails \cup {""}] /\ outside = {} /\ ever = {Root}
      BY <3>1 DEF AccountsInit
    <3>3. \A k \in KeycloakIds \ ever : ~HasAccount(k)
      BY <3>2 DEF AccountsInit, HasAccount
    <3>4. \A i \in DOMAIN rows : rows[i] \in Row
      <4> DEFINE seed == [kind |-> "SYSTEM_ADMIN", keycloakId |-> Root, email |-> RootEmail,
                          brand |-> "", cafe |-> "", deleted |-> FALSE]
      <4>1. seed \in Row
        BY <3>1 DEF Row, WorkerRoles
      <4>2. rows = <<seed>>
        BY DEF AccountsInit
      <4> HIDE DEF seed
      <4> QED BY <4>1, <4>2
    <3> QED BY <3>1, <3>2, <3>3, <3>4, SeedRowFits DEF AccountsTypeOK
  <2> QED BY <2>1, AccountsTypesInvariant DEF NetworkIInv
<1> QED BY <1>1, <1>2, <1>3, <1>4 DEF NetworkTypeOK

LEMMA NoBrandAtFirst == NoBrand.status = "NONE" /\ NoBrand["logo"] = 0 /\ NoBrand["banner"] = 0
BY DEF NoBrand

\* So does what the modules promise: where a module does not move there is nothing yet that
\* could break it.
LEMMA NetworkIInvPromises ==
  NetworkIInv => NetworkIsVerified /\ FilesMatchRows /\ GuestTierIsActive /\ ExportRestoresTheMenu /\ AccountsAgree
<1> SUFFICES ASSUME NetworkIInv
             PROVE  NetworkIsVerified /\ FilesMatchRows /\ GuestTierIsActive /\ ExportRestoresTheMenu /\ AccountsAgree
  OBVIOUS
<1>1. NetworkIsVerified
  <2>1. BrandsIInv => NetworkIsVerified
    BY DEF BrandsIInv, NetworkIsVerified, Documented
  <2>2. BrandsInit => DOMAIN cafe = {} /\ \A b \in BrandIds : brand[b].status = "NONE"
    BY NoBrandAtFirst DEF BrandsInit
  <2>3. BrandsInit => NetworkIsVerified
    BY <2>2 DEF NetworkIsVerified
  <2> QED BY <2>1, <2>3 DEF NetworkIInv
<1>2. FilesMatchRows
  <2>1. BrandsInit => DOMAIN document = {} /\ \A b \in BrandIds, kind \in {"logo", "banner"} : brand[b][kind] = 0
    BY NoBrandAtFirst DEF BrandsInit
  <2>2. BrandsInit => FilesMatchRows
    BY <2>1 DEF FilesMatchRows
  <2> QED BY <2>2 DEF NetworkIInv, FilesIInv
<1>3. GuestTierIsActive
  <2>1. GuestsInit => GuestTierIsActive
    BY DEF GuestsInit, NoGuest, GuestTierIsActive
  <2> QED BY <2>1 DEF NetworkIInv, GuestsIInv
<1>4. ExportRestoresTheMenu
  <2>1. MenuInit => ExportRestoresTheMenu
    BY DEF MenuInit, ExportRestoresTheMenu
  <2> QED BY <2>1 DEF NetworkIInv, MenuIInv
<1>5. AccountsAgree
  <2>1. ASSUME AccountsInit PROVE AccountsAgree
    <3> DEFINE seed == [kind |-> "SYSTEM_ADMIN", keycloakId |-> Root, email |-> RootEmail,
                        brand |-> "", cafe |-> "", deleted |-> FALSE]
    <3>1. RootEmail \in Emails /\ RootEmail # "" /\ Root \in KeycloakIds
      BY AccountsAssumption DEF RootEmail
    <3>2. seed \in Row /\ seed.keycloakId = Root
      BY <3>1 DEF Row, WorkerRoles
    <3>3. rows = <<seed>>
      BY <2>1 DEF AccountsInit
    <3> HIDE DEF seed
    <3>4. rows \in Seq(Row) /\ DOMAIN rows = {1} /\ rows[1] = seed
      BY <3>2, <3>3
    <3>5. \A k \in KeycloakIds : HasAccount(k) <=> k = Root
      BY <2>1, <3>1 DEF AccountsInit, HasAccount
    <3>6. \A i, j \in LiveRows : i = j
      BY <3>4 DEF LiveRows
    <3>7. \A k \in KeycloakIds : \A i, j \in LiveWorkers(k) \cup LiveUsers(k) : i = j
      BY <3>6 DEF LiveWorkers, LiveUsers
    <3>8. \A i \in LiveRows : rows[i].keycloakId = Root
      BY <3>2, <3>4 DEF LiveRows
    <3> QED BY <3>1, <3>2, <3>4, <3>5, <3>7, <3>8, AnswersAgree DEF AccountsAgree
  <2> QED BY <2>1, AccountsInvImplies DEF NetworkIInv, AccountsTypesOK
<1> QED BY <1>1, <1>2, <1>3, <1>4, <1>5

LEMMA NetworkInitially == MCInit => NetworkIInv
BY BrandsInitially, FilesInitially, BrandsTypesInitially, GuestsInitially, GuestsTypesInitially,
   MenuInitially, MenuTypesInitially, AccountsTypesInvariant DEF MCInit, NetworkIInv

\* In the network as a whole, whatever module moves, every table keeps to its
\* types and bounds.
THEOREM NetworkIsTyped == NetworkSpec => []NetworkTypeOK
BY NetworkInitially, NetworkInductive, NetworkIInvTypes, PTL DEF NetworkSpec

\* And it keeps what its modules promise each on its own: brands and cafes are documented,
\* files and rows match, guests' tiers are active, an export restores the menu and accounts
\* have their rows.
THEOREM NetworkKeepsItsPromises ==
  NetworkSpec => [](NetworkIsVerified /\ FilesMatchRows /\ GuestTierIsActive /\ ExportRestoresTheMenu /\ AccountsAgree)
BY NetworkInitially, NetworkInductive, NetworkIInvPromises, PTL DEF NetworkSpec

\* And a refused guest is brought back only by a handler that was asked to, or that read
\* the guest before the refusal.
THEOREM RefusalIsKeptInTheNetwork == NetworkSpec => RefusalSticks
<1>1. NetworkIInv /\ [MCNext]_<<bvars, gvars, mvars, avars, rvars, focus>> => [RefusalStep]_<<gvars, rvars>>
  <2> SUFFICES ASSUME NetworkIInv, [MCNext]_<<bvars, gvars, mvars, avars, rvars, focus>>
               PROVE  RefusalStep \/ UNCHANGED <<gvars, rvars>>
    OBVIOUS
  <2>1. CASE focus \in GuestsFoci
    <3>1. GuestsIInv /\ [GuestsNext]_<<gvars, rvars>>
      BY <2>1, OneModuleMoves DEF NetworkIInv
    <3> QED BY <3>1, GuestsEveryStep DEF GuestsAllowedStep, GuestsStepOK
  <2>2. CASE focus \notin GuestsFoci
    <3>1. guest' = guest
      BY <2>2, OneModuleMoves DEF gvars
    <3> QED BY <3>1 DEF RefusalStep
  <2> QED BY <2>1, <2>2
<1> QED BY <1>1, NetworkInitially, NetworkInductive, PTL DEF NetworkSpec, RefusalSticks, RefusalStep
=============================================================================

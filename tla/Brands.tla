------------------------------- MODULE Brands -------------------------------
(* Brands, their documents and pictures, and the cafes under them            *)
(* (brands.service.ts, cafes.service.ts).  Every handler reads, checks, and   *)
(* writes in a later statement; files go to the storage beside the rows.      *)
EXTENDS Requests, FiniteSets, Sequences

CONSTANTS
  BrandIds, Admins,
  SystemAdmin,      \* the worker with the role SYSTEM_ADMIN
  AdminOf,          \* brand of each BRAND_ADMIN
  DocumentTypes, RequiredTypes,
  MaxDocuments, MaxCafes, MaxPictures \* bounds

ASSUME BrandsAssumption ==
  /\ SystemAdmin \in Admins /\ AdminOf \in [Admins \ {SystemAdmin} -> BrandIds]
  /\ RequiredTypes \subseteq DocumentTypes
  /\ IsFiniteSet(Procs) /\ MaxPictures \in Nat

VARIABLES
  brand,    \* brands
  document, \* brand_documents, in order of creation
  cafe,     \* cafes, in order of creation
  stored,   \* objects in the bucket "brands": documents' and pictures'
  pictures  \* how many pictures were uploaded

bvars == <<brand, document, cafe, stored, pictures>>

Status == {"NONE", "PENDING", "ACTIVE", "REJECTED", "SUSPENDED"}
Brand == [status : Status, isVerified : BOOLEAN, deleted : BOOLEAN,
          settings : [reason : {"", "rejected", "suspended"}, theme : 0..1],
          logo : Nat, banner : Nat] \* numbers of the pictures; 0 for none

Document == [brand : BrandIds, type : DocumentTypes, isVerified : BOOLEAN, deleted : BOOLEAN]

NoBrand == [status |-> "NONE", isVerified |-> FALSE, deleted |-> FALSE,
            settings |-> [reason |-> "", theme |-> 0], logo |-> 0, banner |-> 0]

BrandsInit ==
  /\ brand = [b \in BrandIds |-> NoBrand]
  /\ document = << >> /\ cafe = << >>
  /\ stored = {} /\ pictures = 0

Exists(b) == brand[b].status # "NONE" /\ ~brand[b].deleted
IsDocument(i) == ~document[i].deleted

checkBrandAccess(w, b) == IF w = SystemAdmin THEN TRUE ELSE AdminOf[w] = b

checkCafeAccess(w, b) == checkBrandAccess(w, b)
checkCafeAccessById(w, i) == checkCafeAccess(w, cafe[i].brand)

Documents(b) == {i \in DOMAIN document : document[i].brand = b /\ IsDocument(i)}

\* The object a signed link leads to.
getPictureUrl(b, kind) == <<kind, brand[b][kind]>>
getDocumentDownloadUrl(i) == <<"document", i>>

-----------------------------------------------------------------------------
(* Mutants: bugs this code could have had, each of which breaks a property.  *)

\* Only the documents that are there must be verified.
UploadedSuffice(b) ==
  \A i \in Documents(b) : document[i].type \in RequiredTypes => document[i].isVerified

\* Returns once the file is gone.
FileOnly(p) ==
  /\ In(p, "document_unstore")
  /\ stored' = stored \ {getDocumentDownloadUrl(handler[p].id)}
  /\ Finish(p)
  /\ UNCHANGED <<brand, document, cafe, pictures>>

\* An insert that does not say what the document is.
InsertUntyped(p) ==
  LET h == handler[p] IN
  /\ In(p, "document_insert")
  /\ document' = Append(document, [brand |-> h.brand, type |-> "", isVerified |-> FALSE, deleted |-> FALSE])
  /\ Finish(p)
  /\ UNCHANGED <<brand, cafe, stored, pictures>>

\* The checks of verifyBrand on the documents it has read.
DocumentsSuffice(b) ==
  /\ RequiredTypes \subseteq {document[i].type : i \in Documents(b)}
  /\ \A i \in Documents(b) : document[i].type \in RequiredTypes => document[i].isVerified

-----------------------------------------------------------------------------
(* create, update and updateCustomization, remove.                           *)

BrandCreate(w, b) ==
  /\ w = SystemAdmin
  /\ brand[b] = NoBrand
  /\ brand' = [brand EXCEPT ![b].status = "PENDING"]
  /\ UNCHANGED <<document, cafe, stored, pictures, rvars>>

\* The settings are merged into those that were read, and written whole.
BrandUpdateRead(p, w, b, theme) ==
  /\ Idle(p)
  /\ Exists(b) /\ checkBrandAccess(w, b)
  /\ Become(p, [pc |-> "brand_write", brand |-> b,
                new |-> [settings |-> [brand[b].settings EXCEPT !.theme = theme]]])
  /\ UNCHANGED bvars

\* The colours are written whatever they are; the settings only when given.
BrandCustomizeRead(p, w, b, withSettings, theme) ==
  /\ Idle(p)
  /\ Exists(b) /\ checkBrandAccess(w, b)
  /\ Become(p, [pc |-> "brand_write", brand |-> b,
                new |-> IF withSettings THEN [settings |-> [brand[b].settings EXCEPT !.theme = theme]]
                        ELSE << >>])
  /\ UNCHANGED bvars

BrandRemoveRead(p, w, b) ==
  /\ Idle(p)
  /\ w = SystemAdmin /\ Exists(b)
  /\ Become(p, [pc |-> "brand_write", brand |-> b, new |-> [deleted |-> TRUE]])
  /\ UNCHANGED bvars

-----------------------------------------------------------------------------
(* verifyBrand, rejectBrand, suspendBrand.                                   *)

VerifyRead(p, w, b) ==
  /\ Idle(p)
  /\ checkBrandAccess(w, b) /\ Exists(b)
  /\ ~(brand[b].status = "ACTIVE" /\ brand[b].isVerified)
  /\ DocumentsSuffice(b)
  /\ Become(p, [pc |-> "brand_write", brand |-> b, new |-> [status |-> "ACTIVE", isVerified |-> TRUE]])
  /\ UNCHANGED bvars

RejectRead(p, w, b, reason) ==
  /\ Idle(p)
  /\ w = SystemAdmin /\ Exists(b) /\ brand[b].status # "REJECTED"
  /\ Become(p, [pc |-> "brand_write", brand |-> b,
                new |-> IF reason
                        THEN [status |-> "REJECTED", isVerified |-> FALSE,
                              settings |-> [brand[b].settings EXCEPT !.reason = "rejected"]]
                        ELSE [status |-> "REJECTED", isVerified |-> FALSE]])
  /\ UNCHANGED bvars

SuspendRead(p, w, b, reason) ==
  /\ Idle(p)
  /\ w = SystemAdmin /\ Exists(b) /\ brand[b].status # "SUSPENDED"
  /\ Become(p, [pc |-> "brand_write", brand |-> b,
                new |-> IF reason
                        THEN [status |-> "SUSPENDED",
                              settings |-> [brand[b].settings EXCEPT !.reason = "suspended"]]
                        ELSE [status |-> "SUSPENDED"]])
  /\ UNCHANGED bvars

\* brand.update where the id is b, whatever has become of the row.
BrandWrite(p) ==
  LET h == handler[p] IN
  /\ In(p, "brand_write")
  /\ brand' = [brand EXCEPT ![h.brand] =
       [f \in DOMAIN @ |-> IF f \in DOMAIN h.new THEN h.new[f] ELSE @[f]]]
  /\ Finish(p)
  /\ UNCHANGED <<document, cafe, stored, pictures>>

-----------------------------------------------------------------------------
(* uploadDocument, verifyDocument, deleteDocument.                           *)

\* Bound: documents about to be inserted count.
RoomForDocument ==
  Len(document) + Cardinality({p \in Procs : handler[p].pc \in {"document_store", "document_insert"}})
    < MaxDocuments

DocumentRead(p, w, b, type) ==
  /\ Idle(p)
  /\ Exists(b) /\ checkBrandAccess(w, b)
  /\ RoomForDocument
  /\ Become(p, [pc |-> "document_store", brand |-> b, type |-> type])
  /\ UNCHANGED bvars

\* The bound lets at most one document be on its way, so its number is known.
DocumentStore(p) ==
  /\ In(p, "document_store")
  /\ \A q \in Procs : ~In(q, "document_insert")
  /\ stored' = stored \cup {<<"document", Len(document) + 1>>}
  /\ Goto(p, "document_insert")
  /\ UNCHANGED <<brand, document, cafe, pictures>>

DocumentInsert(p) ==
  LET h == handler[p] IN
  /\ In(p, "document_insert")
  /\ document' = Append(document, [brand |-> h.brand, type |-> h.type, isVerified |-> FALSE, deleted |-> FALSE])
  /\ Finish(p)
  /\ UNCHANGED <<brand, cafe, stored, pictures>>

VerifyDocumentRead(p, w, i) ==
  /\ Idle(p)
  /\ w = SystemAdmin
  /\ IsDocument(i) /\ ~document[i].isVerified
  /\ Become(p, [pc |-> "document_verify", id |-> i])
  /\ UNCHANGED bvars

\* The update of a row deleted meanwhile throws.
VerifyDocumentWrite(p) ==
  LET i == handler[p].id IN
  /\ In(p, "document_verify")
  /\ document' = IF IsDocument(i) THEN [document EXCEPT ![i].isVerified = TRUE] ELSE document
  /\ Finish(p)
  /\ UNCHANGED <<brand, cafe, stored, pictures>>

DeleteDocumentRead(p, w, i) ==
  /\ Idle(p)
  /\ IsDocument(i) /\ checkBrandAccess(w, document[i].brand)
  /\ Become(p, [pc |-> "document_unstore", id |-> i])
  /\ UNCHANGED bvars

\* A failure of the storage is logged and the row goes all the same.
DeleteDocumentFile(p) ==
  /\ In(p, "document_unstore")
  /\ \/ stored' = stored \ {<<"document", handler[p].id>>}
     \/ UNCHANGED stored
  /\ Goto(p, "document_delete")
  /\ UNCHANGED <<brand, document, cafe, pictures>>

\* The row is gone for good; the model keeps it, marked, as the history that
\* NetworkIsVerified speaks of, and IsDocument hides it from every handler.  Of a
\* row that another deletion removed this throws, which ends the handler too.
DeleteDocumentRow(p) ==
  /\ In(p, "document_delete")
  /\ document' = [document EXCEPT ![handler[p].id].deleted = TRUE]
  /\ Finish(p)
  /\ UNCHANGED <<brand, cafe, stored, pictures>>

-----------------------------------------------------------------------------
(* uploadLogo and uploadBanner: the picture that was read is deleted, the new *)
(* one stored, and the row written last.                                     *)

PictureRead(p, w, b, kind) ==
  /\ Idle(p)
  /\ Exists(b) /\ checkBrandAccess(w, b)
  /\ pictures + Cardinality({q \in Procs : handler[q].pc \in {"picture_delete", "picture_store"}}) < MaxPictures
  /\ Become(p, [pc |-> IF brand[b][kind] = 0 THEN "picture_store" ELSE "picture_delete",
                brand |-> b, kind |-> kind, old |-> brand[b][kind]])
  /\ UNCHANGED bvars

uploadLogo(p, w, b) == PictureRead(p, w, b, "logo")
uploadBanner(p, w, b) == PictureRead(p, w, b, "banner")

\* A failure of the storage is logged and the new picture is stored all the same.
PictureDelete(p) ==
  LET h == handler[p] IN
  /\ In(p, "picture_delete")
  /\ \/ stored' = stored \ {<<h.kind, h.old>>}
     \/ UNCHANGED stored
  /\ Goto(p, "picture_store")
  /\ UNCHANGED <<brand, document, cafe, pictures>>

PictureStore(p) ==
  LET h == handler[p] IN
  /\ In(p, "picture_store")
  /\ pictures' = pictures + 1
  /\ stored' = stored \cup {<<h.kind, pictures + 1>>}
  /\ Become(p, [pc |-> "brand_write", brand |-> h.brand, new |-> [f \in {h.kind} |-> pictures + 1]])
  /\ UNCHANGED <<brand, document, cafe>>

-----------------------------------------------------------------------------
(* CafesService: create, update with another brand, remove.                  *)

CafeCreateRead(p, w, b) ==
  /\ Idle(p)
  /\ Exists(b) /\ brand[b].status = "ACTIVE" /\ checkCafeAccess(w, b)
  /\ Len(cafe) + Cardinality({q \in Procs : In(q, "cafe_insert")}) < MaxCafes
  /\ Become(p, [pc |-> "cafe_insert", brand |-> b])
  /\ UNCHANGED bvars

CafeInsert(p) ==
  /\ In(p, "cafe_insert")
  /\ cafe' = Append(cafe, [brand |-> handler[p].brand, deleted |-> FALSE])
  /\ Finish(p)
  /\ UNCHANGED <<brand, document, stored, pictures>>

CafeUpdateRead(p, w, i, b) ==
  /\ Idle(p)
  /\ ~cafe[i].deleted
  /\ checkCafeAccessById(w, i)
  /\ b # cafe[i].brand => Exists(b) /\ brand[b].status = "ACTIVE" /\ checkCafeAccess(w, b)
  /\ Become(p, [pc |-> "cafe_move", id |-> i, brand |-> b])
  /\ UNCHANGED bvars

CafeUpdateWrite(p) ==
  /\ In(p, "cafe_move")
  /\ cafe' = [cafe EXCEPT ![handler[p].id].brand = handler[p].brand]
  /\ Finish(p)
  /\ UNCHANGED <<brand, document, stored, pictures>>

CafeRemoveRead(p, w, i) ==
  /\ Idle(p)
  /\ ~cafe[i].deleted /\ checkCafeAccess(w, cafe[i].brand)
  /\ Become(p, [pc |-> "cafe_remove", id |-> i])
  /\ UNCHANGED bvars

CafeRemoveWrite(p) ==
  /\ In(p, "cafe_remove")
  /\ cafe' = [cafe EXCEPT ![handler[p].id].deleted = TRUE]
  /\ Finish(p)
  /\ UNCHANGED <<brand, document, stored, pictures>>

-----------------------------------------------------------------------------
BrandRequest(p, w) ==
  \/ \E b \in BrandIds : BrandCreate(w, b)
  \/ \E b \in BrandIds : BrandUpdateRead(p, w, b, 1)
  \/ \E b \in BrandIds, withSettings \in BOOLEAN : BrandCustomizeRead(p, w, b, withSettings, 1)
  \/ \E b \in BrandIds : BrandRemoveRead(p, w, b)

DocumentRequest(p, w) ==
  \/ \E b \in BrandIds, type \in DocumentTypes : DocumentRead(p, w, b, type)
  \/ \E i \in DOMAIN document : VerifyDocumentRead(p, w, i) \/ DeleteDocumentRead(p, w, i)

PictureRequest(p, w) == \E b \in BrandIds : uploadLogo(p, w, b) \/ uploadBanner(p, w, b)

VerdictRequest(p, w) ==
  \/ \E b \in BrandIds : VerifyRead(p, w, b)
  \/ \E b \in BrandIds, reason \in BOOLEAN : RejectRead(p, w, b, reason) \/ SuspendRead(p, w, b, reason)

CafeRequest(p, w) ==
  \/ \E b \in BrandIds : CafeCreateRead(p, w, b)
  \/ \E i \in DOMAIN cafe, b \in BrandIds : CafeUpdateRead(p, w, i, b)
  \/ \E i \in DOMAIN cafe : CafeRemoveRead(p, w, i)

BrandContinue(p) ==
  \/ BrandWrite(p)
  \/ DocumentStore(p) \/ DocumentInsert(p)
  \/ VerifyDocumentWrite(p) \/ DeleteDocumentFile(p) \/ DeleteDocumentRow(p)
  \/ PictureDelete(p) \/ PictureStore(p)
  \/ CafeInsert(p) \/ CafeUpdateWrite(p) \/ CafeRemoveWrite(p)

BrandsNext ==
  \/ \E p \in Procs, w \in Admins : BrandRequest(p, w)
  \/ \E p \in Procs, w \in Admins : DocumentRequest(p, w)
  \/ \E p \in Procs, w \in Admins : PictureRequest(p, w)
  \/ \E p \in Procs, w \in Admins : VerdictRequest(p, w)
  \/ \E p \in Procs, w \in Admins : CafeRequest(p, w)
  \/ \E p \in Procs : BrandContinue(p)
  \/ \E p \in Procs : Dies(p) /\ UNCHANGED bvars

BrandsSpec == BrandsInit /\ RequestsInit /\ [][BrandsNext]_<<bvars, rvars>>
=============================================================================

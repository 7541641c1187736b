-------------------------- MODULE BrandsProperties --------------------------
(* What Brands must guarantee.                                               *)
EXTENDS Brands

BrandsTypeOK ==
  /\ brand \in [BrandIds -> Brand]
  /\ \A i \in DOMAIN document : document[i] \in Document
  /\ \A i \in DOMAIN cafe : cafe[i].brand \in BrandIds
  /\ pictures \in 0..MaxPictures

\* Checks that all required documents are verified before activation: a brand
\* that is active, and a brand that has a cafe, had a document of every required
\* type that SYSTEM_ADMIN verified, although documents are deleted, brands are
\* rejected, suspended and removed, and cafes change their brand between the
\* check and the write.
NetworkIsVerified ==
  \A b \in BrandIds :
    brand[b].status = "ACTIVE" \/ (\E i \in DOMAIN cafe : cafe[i].brand = b) =>
      \A type \in RequiredTypes :
        \E i \in DOMAIN document : document[i].brand = b /\ document[i].type = type /\ document[i].isVerified

\* Files and rows are written one after the other: when no handler was cut
\* short, the link to a document leads to its file unless a handler is deleting
\* it, and the link to a logo or a banner leads to the picture, unless a handler
\* is replacing it.
FilesMatchRows ==
  faults = 0 =>
    /\ \A i \in DOMAIN document : IsDocument(i) =>
         \/ getDocumentDownloadUrl(i) \in stored
         \/ \E p \in Procs : In(p, "document_delete") /\ handler[p].id = i
    /\ \A b \in BrandIds, kind \in {"logo", "banner"} : brand[b][kind] # 0 =>
         \/ getPictureUrl(b, kind) \in stored
         \/ \E p \in Procs : /\ \/ In(p, "picture_store") /\ handler[p].kind = kind
                                \/ In(p, "brand_write") /\ kind \in DOMAIN handler[p].new
                             /\ handler[p].brand = b
=============================================================================

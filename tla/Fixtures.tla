------------------------------ MODULE Fixtures ------------------------------
(***************************************************************************)
(* The literal case lists of the k6 scripts 30.js (document management,    *)
(* schema 30) and 33.js (reconciliation, schema 33), abstracted to the     *)
(* records of CaseRunner: endpoint template, method, header map (negative  *)
(* cases only), path, query, body, and the body kind the endpoint admits   *)
(* (the kind of its positive payload).  Payload builders that return {}    *)
(* give "empty", the others "min".                                         *)
(***************************************************************************)

\* Header maps as [sid, ct, aux]: schema id ("none" when the header is
\* absent), Content-Type: application/json present, auxiliary id present.
Hdr(sid, ct) == [sid |-> sid, ct |-> ct, aux |-> FALSE]

\* A header map that also carries the auxiliary identification.
HdrAux(sid, ct) == [sid |-> sid, ct |-> ct, aux |-> TRUE]

\* A positive case: no headers field, path and query valid, and the body is
\* what the endpoint admits.
P(m, ep, body) ==
    [ep |-> ep, m |-> m, hdr |-> {}, path |-> "ok", query |-> "ok",
     body |-> body, want |-> body]

\* A negative case with its explicit headers.
N(hdr, m, ep, path, query, body, want) ==
    [ep |-> ep, m |-> m, hdr |-> {hdr}, path |-> path, query |-> query,
     body |-> body, want |-> want]

---------------------------------------------------------------------------
\* 30.js: H, H_JSON, H_BAD (id 31), H_JSON_BAD.
H30         == Hdr("30", FALSE)
H_JSON30    == Hdr("30", TRUE)
H_BAD30     == Hdr("31", FALSE)
H_JSON_BAD30 == Hdr("31", TRUE)

Pos30 ==
  << P("PATCH", "documents", "empty"), P("POST", "documents/query", "min"),
     P("POST", "documents/aggregate", "min"), P("GET", "documents/metadata", "none"),
     P("POST", "documents/download", "empty"), P("POST", "documents/download/{id}", "none"),
     P("PATCH", "documents/{id}", "empty"), P("GET", "documents/upload-status", "none"),
     P("GET", "documents/{id}/upload-status", "none"),
     P("GET", "dataset/documents/metadata", "none"),
     P("POST", "dataset/documents/paginated", "min"),
     P("POST", "dataset/documents/group-and-aggregate", "min"),
     P("POST", "documents/portal", "min"), P("POST", "documents/portal/query", "min"),
     P("GET", "documents/portal/metadata", "none"),
     P("POST", "documents/portal/aggregate", "min"),
     P("PATCH", "documents/portal/{id}", "min"),
     P("POST", "portal-user-access", "empty"), P("POST", "portal-user-access/remove", "empty"),
     P("POST", "portal-user-access/notification", "empty"),
     P("POST", "email-batches", "min"), P("GET", "email-batches/metadata", "none"),
     P("POST", "email-batches/query", "min"), P("POST", "email-batches/aggregate", "min"),
     P("GET", "email-batches/{id}", "none"), P("POST", "email-batches/{id}", "min"),
     P("POST", "email-batches/{id}/send", "min"), P("GET", "email-batches/{id}/preview", "none"),
     P("POST", "email-batches/{id}/document-recipients", "empty"),
     P("DELETE", "email-batches/{id}/document-recipients", "none"),
     P("DELETE", "email-batches/{id}/document-recipients/{rid}", "none"),
     P("POST", "email-recipients/query", "min"), P("POST", "email-recipients/aggregate", "min"),
     P("GET", "email-recipients/metadata", "none"),
     P("POST", "document-recipients/query", "min"),
     P("POST", "document-recipients/aggregate", "min"),
     P("GET", "document-recipients/metadata", "none"),
     P("POST", "document-recipients/paginated", "min"),
     P("GET", "dataset/document-recipients/metadata", "none"),
     P("POST", "dataset/document-recipients/paginated", "min"),
     P("POST", "dataset/document-recipients/group-and-aggregate", "min") >>

Neg30 ==
  << N(Hdr("none", FALSE), "GET", "documents/metadata", "ok", "ok", "none", "none"),
     N(Hdr("none", TRUE), "POST", "documents/query", "ok", "ok", "empty", "min"),
     N(H_BAD30, "GET", "email-batches/metadata", "ok", "ok", "none", "none"),
     N(H_JSON_BAD30, "POST", "email-batches", "ok", "ok", "empty", "min"),
     N(H_JSON30, "POST", "dataset/documents/paginated", "ok", "ok", "empty", "min"),
     N(H_JSON30, "POST", "documents/aggregate", "ok", "ok", "empty", "min"),
     N(H_JSON30, "POST", "documents/portal", "ok", "ok", "empty", "min"),
     N(H30, "GET", "email-batches/{id}", "bad", "ok", "none", "none"),
     N(H_JSON30, "PATCH", "documents/{id}", "bad", "ok", "empty", "empty"),
     N(H30, "GET", "documents/{id}/upload-status", "bad", "ok", "none", "none"),
     N(H30, "GET", "documents/upload-status", "ok", "missing", "none", "none"),
     N(H30, "DELETE", "email-batches/{id}/document-recipients", "missing", "ok",
       "none", "none") >>

---------------------------------------------------------------------------
\* 33.js: H, H_JSON, and H_WRONG / H_JSON_WRONG, which carry id 33 as well.
H33          == Hdr("33", FALSE)
H_JSON33     == Hdr("33", TRUE)
H_WRONG33    == Hdr("33", FALSE)
H_JSON_WRONG33 == Hdr("33", TRUE)

Pos33 ==
  << P("GET", "rules", "none"), P("GET", "rules/global-rule", "none"),
     P("PATCH", "rules/global-rule", "min"), P("POST", "rules/rule-sets", "min"),
     P("GET", "rules/rule-sets/{id}", "none"), P("PATCH", "rules/rule-sets/{id}", "min"),
     P("DELETE", "rules/rule-sets/{id}", "none"),
     P("GET", "rules/rule-sets/assignments", "none"),
     P("GET", "rules/rule-sets/{id}/assignments", "none"),
     P("POST", "rules/rule-sets/remove-assignments", "min"),
     P("POST", "rules/rule-sets/replace-assignments", "min"),
     P("POST", "ai/get-next-agent-trigger", "empty"),
     P("POST", "positions/actions/bulk", "min"),
     P("POST", "transactions/actions/bulk-matched", "min"),
     P("POST", "transactions/actions/bulk-unmatched", "min"),
     P("GET", "positions/object-labels", "none"),
     P("POST", "positions/transactions/query", "min") >>

Neg33 ==
  << N(Hdr("none", FALSE), "GET", "rules", "ok", "ok", "none", "none"),
     N(Hdr("none", TRUE), "POST", "rules/rule-sets", "ok", "ok", "min", "min"),
     N(H_WRONG33, "GET", "rules/global-rule", "ok", "ok", "none", "none"),
     N(H_JSON_WRONG33, "PATCH", "rules/global-rule", "ok", "ok", "min", "min"),
     N(H33, "GET", "rules/rule-sets/{id}", "bad", "ok", "none", "none"),
     N(H_JSON33, "PATCH", "rules/rule-sets/{id}", "bad", "ok", "min", "min"),
     N(H33, "DELETE", "rules/rule-sets/{id}", "bad", "ok", "none", "none"),
     N(H33, "GET", "rules/rule-sets/{id}/assignments", "bad", "ok", "none", "none"),
     N(H_JSON33, "POST", "rules/rule-sets", "ok", "ok", "empty", "min"),
     N(H_JSON33, "PATCH", "rules/global-rule", "ok", "ok", "empty", "min"),
     N(H_JSON33, "PATCH", "rules/rule-sets/{id}", "ok", "ok", "empty", "min"),
     N(H_JSON33, "POST", "ai/get-next-agent-trigger", "ok", "ok", "empty", "empty"),
     N(H_JSON33, "POST", "positions/actions/bulk", "ok", "ok", "empty", "min"),
     N(H_JSON33, "POST", "transactions/actions/bulk-matched", "ok", "ok", "empty", "min"),
     N(H_JSON33, "POST", "transactions/actions/bulk-unmatched", "ok", "ok", "empty", "min"),
     N(H_JSON33, "POST", "rules/rule-sets/remove-assignments", "ok", "ok", "empty", "min"),
     N(H_JSON33, "POST", "rules/rule-sets/replace-assignments", "ok", "ok", "empty", "min"),
     N(H_JSON33, "POST", "positions/transactions/query", "ok", "ok", "empty", "min"),
     N(H33, "GET", "positions/object-labels", "ok", "missing", "none", "none"),
     N(H_JSON33, "POST", "positions/transactions/query", "ok", "ok", "bad", "min"),
     N(H_JSON33, "POST", "positions/actions/bulk", "ok", "ok", "bad", "min"),
     N(H_JSON33, "POST", "transactions/actions/bulk-matched", "ok", "ok", "bad", "min") >>

---------------------------------------------------------------------------
\* 58.js: H and H_JSON carry the SESSIONID cookie; the groups are
\* straight-line code, one case per request.  The merge-patch request sets
\* Content-Type: application/merge-patch+json, a JSON content type.
H58      == HdrAux("58", FALSE)
H_JSON58 == HdrAux("58", TRUE)

Pos58 ==
  << P("POST", "v1/orders", "min"), P("GET", "v1/orders/{id}", "none"),
     P("PATCH", "v1/profile", "min"), P("PATCH", "v1/profile", "min"),
     P("POST", "v1/refsibling", "min") >>

Neg58 ==
  << N(H_JSON58, "POST", "v1/orders", "ok", "ok", "bad", "min"),
     N(H_JSON58, "POST", "v1/orders", "ok", "ok", "bad", "min"),
     N(H_JSON58, "POST", "v1/orders", "ok", "ok", "bad", "min"),
     N(H_JSON58, "PATCH", "v1/profile", "ok", "ok", "bad", "min"),
     N(H_JSON58, "POST", "v1/refsibling", "ok", "ok", "bad", "min"),
     N(Hdr("999", FALSE), "GET", "v1/orders/{id}", "ok", "ok", "none", "none") >>

=============================================================================

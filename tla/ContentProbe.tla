---------------------------- MODULE ContentProbe ----------------------------
(***************************************************************************)
(* How the bounded probe of a submitted URL decides between a direct file  *)
(* and a page to crawl: erabi-crawler/src/content_probe.rs.                *)
(*                                                                         *)
(* A media type is a class: absent, HTML, application/octet-stream, one    *)
(* that names a kind of file, "OOXML" for the three office types that are  *)
(* zip containers, or any other.  A prefix is the signature found in it.   *)
(***************************************************************************)
FileKind  == {"PDF", "CSV", "JSON", "ARCHIVE", "IMAGE", "OFFICE"}
MediaType == FileKind \cup {"none", "html", "octet", "OOXML", "other"}
Prefix    == {"none", "html", "pdf", "ole", "image", "zip"}

Web == [file |-> FALSE, kind |-> "none", evidence |-> "none"]
FileAsset(kind, evidence) == [file |-> TRUE, kind |-> kind, evidence |-> evidence]

MediaTypeKind(m) ==
    CASE m \in FileKind -> m [] m = "OOXML" -> "OFFICE" [] OTHER -> "none"

SignatureKind(p, m) ==
    CASE p = "pdf" -> "PDF" [] p = "ole" -> "OFFICE" [] p = "image" -> "IMAGE"
      [] p = "zip" -> IF m = "OOXML" THEN "OFFICE" ELSE "ARCHIVE"
      [] OTHER -> "none"

CompatibleEvidence(signature, media) ==
    signature = media \/ {signature, media} = {"ARCHIVE", "OFFICE"}

\* What a HEAD answer settles: a decision, or "get" for the bounded GET.
ClassifyHead(status, m) ==
    IF status = "unsupported" THEN "get"
    ELSE IF status # "ok" \/ m = "html" THEN "web"
    ELSE IF MediaTypeKind(m) # "none" THEN "file" ELSE "get"

ClassifyPrefix(m, p) ==
    LET signature == SignatureKind(p, m)
        typed == MediaTypeKind(m)
    IN  IF m = "html" \/ p = "html" THEN Web
        ELSE IF signature # "none" /\ typed # "none"
             THEN IF CompatibleEvidence(signature, typed)
                  THEN FileAsset(typed, "type and signature") ELSE Web
        ELSE IF signature # "none"
             THEN IF m \in {"none", "octet"} THEN FileAsset(signature, "signature") ELSE Web
        ELSE IF typed # "none" THEN FileAsset(typed, "type") ELSE Web
=============================================================================

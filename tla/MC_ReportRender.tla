---------------------------- MODULE MC_ReportRender ----------------------------
(* Instances of ReportRender for TLC. *)
EXTENDS ReportRender, TLC

PdfAndXml == <<"pdf", "xml">>
PdfOnly == <<"pdf">>
\* Requests are interchangeable where no liveness is checked.
Symmetry == Permutations(Requests)
=============================================================================

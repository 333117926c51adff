------------------------------ MODULE MCPdfOccur ------------------------------
(* Two documents, one of two batches and one of one.                       *)
EXTENDS PdfOccur
MCNPages == <<3, 1>>
===============================================================================

---------------------------- MODULE MCEpdfinfo ----------------------------
(* Instances of Epdfinfo for TLC.                                          *)
EXTENDS Epdfinfo

\* One annotation on the first page, a link on the second, nothing else.
MCAttr(kind) == [kind |-> kind, props |-> [q \in Props |-> Default]]
MCPDF == [annots |-> [p \in Pages |-> IF p = 1 THEN {0} ELSE {}],
          attr   |-> [u \in Uids |-> MCAttr("link")]]
MCOnDisk == {MCPDF, [MCPDF EXCEPT !.annots[1] = {}]}

MCLinkOnDisk == {MCPDF}

MCUids    == 0 .. 2
MCFewUids == 0 .. 1
MCOneUid  == {0}

\* The run about the registry leaves saving to the other runs.
NothingSaved == \A f \in Files : saved[f] = {}

\* In the run about saving the tempfiles hold annotations as they were
\* created, while documents in memory hold edited ones too.
EditsUnsaved ==
  \A f \in Files : \A pdf \in saved[f] : \A u \in AllAnnots(pdf) :
    \A q \in Props : pdf.attr[u].props[q] = Default
=============================================================================

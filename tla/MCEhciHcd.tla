----------------------------- MODULE MCEhciHcd -----------------------------
(* Instantiation of EhciHcd for TLC.                                       *)
EXTENDS EhciHcd

\* Error status bytes of a retired qTD: Halted alone (a STALL) and
\* Halted with Transaction Error (cerr exhausted).
MCErrStatuses == {64, 72}

\* The packet ids drivers pass to doAsync.
MCPids == {"OUT", "IN", "SETUP"}

\* Only IN transfers (no OUT ping state): a polling class driver.
MCInPids == {"IN"}
=============================================================================

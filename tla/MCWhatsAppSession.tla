------------------------- MODULE MCWhatsAppSession -------------------------
(* WhatsAppSession with the values TLC checks it for: see the cfg files.   *)
EXTENDS WhatsAppSession

CONSTANTS c1, c2

OneCall  == {c1}
TwoCalls == {c1, c2}

QrOnly == {"qr"}

\* The panel of a desktop or server install.
PanelRequests == {"start", "stop", "reconnect", "logout", "shutdown"}
\* Android: the host reports connectivity as well.
AndroidRequests == PanelRequests \cup {"network"}
=============================================================================

--------------------------- MODULE MCReadService ---------------------------
(***************************************************************************)
(* Two callers read two approved URLs; the sites answer with one page of   *)
(* each kind that readLive tells apart.                                    *)
(***************************************************************************)
EXTENDS ReadService, TLC

CONSTANTS c1, c2, u1, u2, internal

TheURLs == {u1, u2, internal}
OnlyPublic == {u1, u2}

FewRequests ==
  (c1 :> {[url |-> u1, refresh |-> FALSE], [url |-> internal, refresh |-> FALSE]}) @@
  (c2 :> {[url |-> u, refresh |-> r] : u \in {u1, u2}, r \in BOOLEAN})

APage(status, kind, big, shows) ==
  [status |-> status, kind |-> kind, big |-> big, shows |-> shows]
SomePages ==
  {APage("ok", "html", FALSE, shows) : shows \in {"article", "signature", "challenge", "shell"}}
  \cup {APage("ok", "html", TRUE, "article"), APage("ok", "text", FALSE, "short"),
        APage("ok", "other", FALSE, "article"), APage("refused", "html", FALSE, "article"),
        APage("failed", "html", FALSE, "nothing")}
=============================================================================

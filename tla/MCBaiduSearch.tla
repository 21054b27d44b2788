--------------------------- MODULE MCBaiduSearch ---------------------------
(* Values for BaiduSearch's constants.                                     *)
EXTENDS BaiduSearch, TLC

CONSTANTS s1, s2

Page(status, marks, layouts) == [status |-> status, marks |-> marks, layouts |-> layouts]

\* Results for the desktop, results for phones only, no results, new markup,
\* a challenge, a rate limit, and a refusal that shows a challenge.
SomePages ==
  { Page("ok", {"root", "card"}, {"desktop", "mobile"}),
    Page("ok", {"root", "card"}, {"mobile"}),
    Page("ok", {}, {}),
    Page("ok", {"challenge"}, {}),
    Page("limited", {}, {}),
    Page("refused", {"challenge"}, {}) }

WithoutMobile == <<"session", "desktop", "chrome">>

FirstAndAny == (s1 :> {FALSE}) @@ (s2 :> BOOLEAN)
=============================================================================

---------------------------- MODULE MCWebSession ----------------------------
(***************************************************************************)
(* Values for WebSession: one tab on its own, two of one browser, two of   *)
(* two browsers.                                                           *)
(***************************************************************************)
EXTENDS WebSession

CONSTANTS t1, t2, t3, b1, b2

\* The calls of /auth/refresh of each tab.
TabCalls == Tabs \X {"page", "left"}

\* t1 and t2 share a browser.
TwoBrowsers == [t \in Tabs |-> IF t = t3 THEN b2 ELSE b1]

Use(tabs, rs, kinds, overlap) ==
    [tabs |-> tabs, reqs |-> rs, kinds |-> kinds, overlap |-> overlap]

ManyLoads ==
    { Use({t1}, Requests, Kinds, {}),
      Use({t1}, Requests, {"call"}, {"reload"}),
      Use({t1}, Requests, {"call"}, {"loss"}),
      Use({t1}, {First}, {"call"}, {"reload", "loss"}),
      Use({t1}, {First}, {"logout"}, Overlaps),
      Use({t1, t2}, {First}, {"logout"}, {}),
      Use({t1, t3}, {First}, {"password"}, {}) }

=============================================================================

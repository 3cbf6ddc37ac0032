------------------------------ MODULE MCHttp2 ------------------------------
(* Two connections, a plain page, a page with a variable in its middle and *)
(* a form whose answer is a variable at its end.                           *)
EXTENDS Http2, TLC

CONSTANTS c1, c2

MCContent == [plain |-> <<"s">>, page |-> <<"a", "~", "t", "~", "b">>,
              form |-> <<"f", "~", "v", "~">>]
MCIndex == [plain |-> <<>>, page |-> <<1, "t">>, form |-> <<1, "v">>]
MCPrints == [t |-> <<"1", "2">>]

Ask(method, page, creds, size, form) ==
  [method |-> method, page |-> page, creds |-> creds, size |-> size, form |-> form]
GetPage == Ask("GET", "page", FALSE, "fits", None)
PostForm == Ask("POST", "form", TRUE, "fits", "ok")
OpenForm == Ask("POST", "form", FALSE, "fits", "ok")
MCRequests == c1 :> {OpenForm} @@ c2 :> {GetPage}
MCBrowsers == c1 :> 2 @@ c2 :> 1

\* Every kind of request, one after the other on one connection.
MCAllRequests == c1 :> {GetPage, PostForm,
  Ask("GET", "plain", FALSE, "fits", None), Ask("GET", "form", FALSE, "cookie", None),
  Ask("POST", "page", FALSE, "fits", None), Ask("GET", "gone", FALSE, "length", None), Ask("POST", "gone", TRUE, "fits", "ok"),
  Ask("PUT", "page", FALSE, "fits", None), Ask("GET", "plain", TRUE, "length", None),
  Ask("GET", "page", FALSE, "flood", None), Ask("GET", "page", FALSE, "name", None),
  Ask("GET", "page", FALSE, "args", None), Ask("GET", "page", FALSE, "headers", None)}
MCTwoBrowsers == c1 :> 2
=============================================================================

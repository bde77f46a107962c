------------------------- MODULE MCHttpTransaction -------------------------
(* HttpTransaction with three URLs.                                        *)
EXTENDS HttpTransaction, TLC
CONSTANTS a, b, c

At(code, to, length, coded, body, auth) ==
    [code |-> code, Location |-> to, Length |-> length, coded |-> coded,
     body |-> body, auth |-> auth]
Document(coded, auth) == At("200", None, None, coded, 3, auth)
Sized == At("200", None, 3, {}, 3, "open")
To(code, url, coded, auth) == At(code, url, None, coded, 1, auth)

Sites == {
    a :> To("307", b, {"chunked"}, "open") @@ b :> To("303", c, {}, "password")
        @@ c :> Document({"gzip"}, "password"),
    a :> To("303", b, {"chunked"}, "open") @@ b :> To("307", c, {"gzip"}, "open") @@ c :> Sized,
    a :> To("307", b, {}, "open") @@ b :> To("307", b, {}, "open") @@ c :> Sized,
    a :> Document({"chunked", "gzip"}, "closed") @@ b :> Sized @@ c :> Sized,
    a :> To("303", None, {}, "open") @@ b :> Sized @@ c :> Sized,
    a :> At("404", None, None, {"chunked"}, 2, "open") @@ b :> Sized @@ c :> Sized,
    a :> To("303", c, {"chunked"}, "open") @@ b :> Sized @@ c :> Sized}

Visit(site, method, data, password, oauth, proxy, fails, n) ==
    [site |-> site, Method |-> method, PostData |-> data, start |-> a,
     password |-> password, oauth |-> oauth, proxy |-> proxy, fails |-> fails,
     calls |-> n]

Gets == {Visit(site, "GET", FALSE, password, oauth, proxy, FALSE, 2) :
            site \in Sites, password \in BOOLEAN, oauth \in BOOLEAN,
            proxy \in {"none", "password"}}
Posts == {Visit(site, "POST", data, TRUE, FALSE, proxy, fails, IF data THEN 2 ELSE 1) :
            site \in Sites, data \in BOOLEAN, proxy \in {"none", "password"},
            fails \in BOOLEAN}
AllConfigs == Gets \union Posts

Redirect(site, length) == [site EXCEPT ![a].Length = length]
Downloads == {Visit(Redirect(site, 1), "GET", FALSE, FALSE, FALSE, "none", FALSE, 1) :
                site \in {a :> To("307", b, {}, "open") @@ b :> Document({"chunked"}, "open")
                              @@ c :> Sized}}
=============================================================================
